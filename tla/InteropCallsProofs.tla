------------------------ MODULE InteropCallsProofs -------------------------
(***************************************************************************)
(* Nested calls keep the stack in order, whatever the arguments, the depth *)
(* of nesting and the amount of stack the interpreter uses.                *)
(***************************************************************************)
EXTENDS InteropCalls, SequenceTheorems, TLAPS

Cells == [0 .. StackUnits - 1 -> Seq(Int)]
Records == [kind : Kinds, args : Seq(Int), base : Nat, flag : Nat \cup {NoFlag},
            threw : {0, 1}]

(* The units a frame holds while there are frames above it.                *)
Pointers(args) == IF args = <<>> THEN 0 ELSE 1
Room(f) ==
  IF f.kind = "managed" THEN NativeUnits
  ELSE IF f.kind = "thunk" THEN Pointers(f.args) + Len(f.args) + 1
  ELSE 0
End(f) == f.base + Room(f)

(* Which frame can be called by which.                                     *)
MayCall(f, g) ==
  \/ f.kind = "managed" /\ g.kind \in Interop
  \/ f.kind \in Interop /\ g.kind \in {"compiled", "script"}
  \/ f.kind = "compiled" /\ g.kind = "thunk" /\ g.flag = g.base + Pointers(g.args)
  \/ f.kind = "thunk" /\ g.kind = "managed" /\ g.flag = f.flag /\ g.args = f.args

Chained(fs) ==
  /\ fs \in Seq(Records)
  /\ fs # <<>> => fs[1].kind = "managed" /\ fs[1].base = 0 /\ fs[1].flag = NoFlag
  /\ \A i \in 2 .. Len(fs) : fs[i].base = End(fs[i - 1]) /\ MayCall(fs[i - 1], fs[i])
  /\ \A i \in 1 .. Len(fs) : End(fs[i]) <= StackUnits
  /\ \A i, j \in 1 .. Len(fs) : i < j => End(fs[i]) <= fs[j].base

(* The stack pointer is the end of the frame on top, except while an       *)
(* exception passes frames that have not given their units back.           *)
Passing == answer = "error" /\ Top.kind \in {"managed", "thunk"}

Placed ==
  /\ sp \in Nat /\ answer \in Answers
  /\ frames = <<>> => sp = 0 /\ answer = "none"
  /\ frames # <<>> =>
       /\ ~Passing => sp = End(Top)
       /\ answer = "none" => Top.kind # "thunk"
       /\ answer = "value" => Top.kind \in Interop \cup {"managed", "compiled"}
       /\ answer = "message" => Top.kind = "managed"
       /\ answer = "native" => Top.kind = "thunk"
       /\ answer = "other" => Top.kind \in Interop
       /\ answer = "error" => Top.kind # "script"

(* The flag, the pointers and the arguments of a call.                     *)
Intact(f, t, cells) ==
  /\ cells[f.flag] = <<t>>
  /\ f.args # <<>> => cells[f.base] = [j \in DOMAIN f.args |-> f.flag + j]
  /\ \A j \in DOMAIN f.args : cells[f.flag + j] = <<f.args[j]>>

Live(fs, cells) ==
  \A i \in 1 .. Len(fs) - 1 : fs[i].kind = "thunk" => Intact(fs[i], fs[i + 1].threw, cells)

StackInv == Chained(frames) /\ Placed /\ memory \in Cells /\ Live(frames, memory)
-----------------------------------------------------------------------------
(* What a frame holds is a number of units.                                *)
LEMMA EndIsNat ==
  ASSUME NEW f \in Records
  PROVE  Room(f) \in Nat /\ f.base \in Nat /\ End(f) \in Nat /\ f.base <= End(f)
<1>1. Len(f.args) \in Nat /\ f.base \in Nat
  BY DEF Records
<1>2. NativeUnits \in Nat
  BY UnitsAssumption
<1>3. Pointers(f.args) \in Nat
  BY DEF Pointers
<1> HIDE DEF Pointers
<1>4. Room(f) \in Nat
  BY <1>1, <1>2, <1>3 DEF Room
<1> QED BY <1>1, <1>4 DEF End

(* Taking the last frame away.                                             *)
LEMMA ChainedPop ==
  ASSUME NEW fs, Chained(fs), fs # <<>>
  PROVE  LET gs == SubSeq(fs, 1, Len(fs) - 1) IN
         /\ Chained(gs)
         /\ Len(gs) = Len(fs) - 1
         /\ \A i \in 1 .. Len(gs) : gs[i] = fs[i]
<1> DEFINE gs == SubSeq(fs, 1, Len(fs) - 1)
<1>1. fs \in Seq(Records) /\ Len(fs) \in Nat /\ Len(fs) > 0
  BY DEF Chained
<1>2. \A i \in 1 .. Len(fs) - 1 : fs[i] \in Records
  BY <1>1
<1>3. gs \in Seq(Records) /\ Len(gs) = Len(fs) - 1 /\ \A i \in 1 .. Len(gs) : gs[i] = fs[i]
  <2> DEFINE n == Len(fs) - 1
  <2>1. n \in Int /\ n >= 0 /\ 1 \in Int
    BY <1>1
  <2>2. \A i \in 1 .. n : fs[i] \in Records
    BY <1>2
  <2> HIDE DEF n
  <2>3. /\ SubSeq(fs, 1, n) \in Seq(Records)
        /\ Len(SubSeq(fs, 1, n)) = IF 1 <= n THEN n - 1 + 1 ELSE 0
        /\ \A i \in 1 .. n - 1 + 1 : SubSeq(fs, 1, n)[i] = fs[1 + i - 1]
    BY ONLY <2>1, <2>2, SubSeqProperties
  <2>4. Len(SubSeq(fs, 1, n)) = n
    BY <2>1, <2>3
  <2>5. \A i \in 1 .. n : SubSeq(fs, 1, n)[i] = fs[i]
    BY <2>1, <2>3
  <2> QED BY <2>3, <2>4, <2>5 DEF n
<1> HIDE DEF gs
<1>4. gs # <<>> => fs # <<>> /\ gs[1] = fs[1]
  BY <1>1, <1>3
<1>5. \A i \in 2 .. Len(gs) : gs[i].base = End(gs[i - 1]) /\ MayCall(gs[i - 1], gs[i])
  <2> SUFFICES ASSUME NEW i \in 2 .. Len(gs) PROVE gs[i].base = End(gs[i - 1]) /\ MayCall(gs[i - 1], gs[i])
    OBVIOUS
  <2>1. i \in 2 .. Len(fs) /\ i \in 1 .. Len(gs) /\ i - 1 \in 1 .. Len(gs)
    BY <1>1, <1>3
  <2>2. gs[i] = fs[i] /\ gs[i - 1] = fs[i - 1]
    BY <1>3, <2>1
  <2> QED BY <2>1, <2>2 DEF Chained
<1>6. \A i \in 1 .. Len(gs) : End(gs[i]) <= StackUnits
  <2> SUFFICES ASSUME NEW i \in 1 .. Len(gs) PROVE End(gs[i]) <= StackUnits
    OBVIOUS
  <2>1. i \in 1 .. Len(fs) /\ gs[i] = fs[i]
    BY <1>1, <1>3
  <2> QED BY <2>1 DEF Chained
<1>7. \A i, j \in 1 .. Len(gs) : i < j => End(gs[i]) <= gs[j].base
  <2> SUFFICES ASSUME NEW i \in 1 .. Len(gs), NEW j \in 1 .. Len(gs), i < j PROVE End(gs[i]) <= gs[j].base
    OBVIOUS
  <2>1. i \in 1 .. Len(fs) /\ j \in 1 .. Len(fs) /\ gs[i] = fs[i] /\ gs[j] = fs[j]
    BY <1>1, <1>3
  <2> QED BY <2>1 DEF Chained
<1>8. Chained(gs)
  BY <1>3, <1>4, <1>5, <1>6, <1>7 DEF Chained
<1> QED BY <1>3, <1>8 DEF gs

(* Adding a frame that begins where the last one ends.                     *)
LEMMA ChainedPush ==
  ASSUME NEW fs, NEW f \in Records, Chained(fs), fs # <<>>,
         f.base = End(fs[Len(fs)]), MayCall(fs[Len(fs)], f), End(f) <= StackUnits
  PROVE  /\ Chained(Append(fs, f))
         /\ Len(Append(fs, f)) = Len(fs) + 1
         /\ \A i \in 1 .. Len(fs) : Append(fs, f)[i] = fs[i]
         /\ Append(fs, f)[Len(fs) + 1] = f
<1> DEFINE gs == Append(fs, f)
           n == Len(fs)
<1>1. fs \in Seq(Records) /\ n \in Nat /\ n > 0
  BY DEF Chained
<1>2. /\ gs \in Seq(Records) /\ Len(gs) = n + 1 /\ gs # <<>>
      /\ \A i \in 1 .. n : gs[i] = fs[i]
      /\ gs[n + 1] = f
  BY <1>1
<1>3. \A i \in 1 .. n : End(fs[i]) \in Nat /\ fs[i].base \in Nat /\ fs[i].base <= End(fs[i])
  BY <1>1, EndIsNat
<1> HIDE DEF gs, n
<1>4. \A i \in 2 .. n + 1 : gs[i].base = End(gs[i - 1]) /\ MayCall(gs[i - 1], gs[i])
  <2> SUFFICES ASSUME NEW i \in 2 .. n + 1 PROVE gs[i].base = End(gs[i - 1]) /\ MayCall(gs[i - 1], gs[i])
    OBVIOUS
  <2>1. CASE i = n + 1 BY <1>1, <1>2, <2>1 DEF n
  <2>2. CASE i # n + 1
    <3>1. i \in 2 .. n /\ i - 1 \in 1 .. n BY <1>1, <2>2
    <3> QED BY <1>2, <3>1 DEF Chained, n
  <2> QED BY <2>1, <2>2
<1>5. \A i \in 1 .. n + 1 : End(gs[i]) <= StackUnits
  <2> SUFFICES ASSUME NEW i \in 1 .. n + 1 PROVE End(gs[i]) <= StackUnits
    OBVIOUS
  <2> QED BY <1>1, <1>2 DEF Chained, n
<1>6. \A i, j \in 1 .. n + 1 : i < j => End(gs[i]) <= gs[j].base
  <2> SUFFICES ASSUME NEW i \in 1 .. n + 1, NEW j \in 1 .. n + 1, i < j PROVE End(gs[i]) <= gs[j].base
    OBVIOUS
  <2>0. i \in 1 .. n /\ gs[i] = fs[i] BY <1>1, <1>2
  <2>1. CASE j \in 1 .. n
    <3>1. gs[j] = fs[j] BY <1>2, <2>1
    <3> QED BY <2>0, <2>1, <3>1 DEF Chained, n
  <2>2. CASE j = n + 1 /\ i = n
    <3>1. gs[i] = fs[n] /\ gs[j] = f BY <1>2, <2>0, <2>2
    <3>2. f.base = End(fs[n]) /\ End(fs[n]) \in Nat BY <1>3, <2>0, <2>2 DEF n
    <3> QED BY <3>1, <3>2
  <2>3. CASE j = n + 1 /\ i # n
    <3>1. n \in 1 .. n /\ i < n BY <1>1, <2>0, <2>3
    <3>2. End(fs[i]) <= fs[n].base BY <2>0, <3>1 DEF Chained, n
    <3>3. gs[j].base = End(fs[n]) BY <1>2, <2>3 DEF n
    <3>4. fs[n].base <= End(fs[n]) /\ fs[n].base \in Nat /\ End(fs[n]) \in Nat /\ End(fs[i]) \in Nat
      BY <1>3, <2>0, <3>1
    <3> QED BY <2>0, <3>2, <3>3, <3>4
  <2> QED BY <1>1, <2>1, <2>2, <2>3
<1>7. gs[1] = fs[1] BY <1>1, <1>2
<1>8. Chained(gs) BY <1>2, <1>4, <1>5, <1>6, <1>7 DEF Chained
<1> QED BY <1>2, <1>8 DEF gs, n

(* The frame on top, and the one below it.                                 *)
LEMMA OnTop ==
  ASSUME NEW fs, Chained(fs), fs # <<>>
  PROVE  LET n == Len(fs) IN
         /\ n \in Nat /\ n > 0 /\ fs[n] \in Records /\ End(fs[n]) <= StackUnits
         /\ n = 1 => fs[n].kind = "managed" /\ fs[n].base = 0 /\ fs[n].flag = NoFlag
         /\ n > 1 => /\ fs[n - 1] \in Records
                     /\ fs[n].base = End(fs[n - 1])
                     /\ MayCall(fs[n - 1], fs[n])
<1> DEFINE n == Len(fs)
<1>1. fs \in Seq(Records) /\ n \in Nat /\ n > 0
  BY DEF Chained
<1>2. n \in 1 .. n /\ (n > 1 => n \in 2 .. n /\ n - 1 \in 1 .. n)
  BY <1>1
<1> HIDE DEF n
<1>3. fs[n] \in Records /\ End(fs[n]) <= StackUnits
  BY <1>1, <1>2 DEF Chained, n
<1>4. n = 1 => fs[n].kind = "managed" /\ fs[n].base = 0 /\ fs[n].flag = NoFlag
  BY DEF Chained
<1>5. ASSUME n > 1
      PROVE  fs[n - 1] \in Records /\ fs[n].base = End(fs[n - 1]) /\ MayCall(fs[n - 1], fs[n])
  BY <1>1, <1>2, <1>5 DEF Chained, n
<1> QED BY <1>1, <1>3, <1>4, <1>5 DEF n

(* The thunks of a chain know where their flags are.                       *)
LEMMA ThunkFlag ==
  ASSUME NEW fs, Chained(fs), NEW i \in 1 .. Len(fs), fs[i].kind = "thunk"
  PROVE  /\ fs[i] \in Records
         /\ fs[i].flag = fs[i].base + Pointers(fs[i].args)
         /\ i < Len(fs) => fs[i + 1].args = fs[i].args /\ fs[i + 1].flag = fs[i].flag
                           /\ fs[i + 1].kind = "managed"
<1>1. fs \in Seq(Records) /\ Len(fs) \in Nat /\ fs # <<>> /\ fs[i] \in Records
  BY DEF Chained
<1>2. i # 1
  BY <1>1 DEF Chained
<1>3. i \in 2 .. Len(fs)
  BY <1>1, <1>2
<1>4. MayCall(fs[i - 1], fs[i])
  BY <1>3 DEF Chained
<1>5. fs[i].flag = fs[i].base + Pointers(fs[i].args)
  BY <1>4 DEF MayCall, Interop
<1>6. ASSUME i < Len(fs)
      PROVE  fs[i + 1].args = fs[i].args /\ fs[i + 1].flag = fs[i].flag /\ fs[i + 1].kind = "managed"
  <2>1. i + 1 \in 2 .. Len(fs) /\ (i + 1) - 1 = i
    BY <1>1, <1>6
  <2>2. MayCall(fs[(i + 1) - 1], fs[i + 1])
    BY <2>1 DEF Chained
  <2> QED BY <2>1, <2>2 DEF MayCall, Interop
<1> QED BY <1>1, <1>5, <1>6

(* A call stays intact while the units of its frame do.                    *)
LEMMA IntactKept ==
  ASSUME NEW f \in Records, f.kind = "thunk", f.flag = f.base + Pointers(f.args),
         NEW e \in Nat, End(f) <= e, e <= StackUnits,
         NEW c, NEW d, \A a \in 0 .. StackUnits - 1 : a < e => d[a] = c[a],
         NEW t, Intact(f, t, c)
  PROVE  Intact(f, t, d)
<1>1. f.base \in Nat /\ Len(f.args) \in Nat /\ DOMAIN f.args = 1 .. Len(f.args) /\ StackUnits \in Nat
  BY UnitsAssumption DEF Records
<1>2. Pointers(f.args) \in {0, 1} /\ (f.args # <<>> => Pointers(f.args) = 1)
  BY DEF Pointers
<1>3. End(f) = f.flag + Len(f.args) + 1 /\ f.flag \in Nat /\ f.base <= f.flag
  BY <1>1, <1>2 DEF End, Room
<1>4. d[f.flag] = c[f.flag] /\ d[f.base] = c[f.base]
  <2>1. f.flag \in 0 .. StackUnits - 1 /\ f.flag < e /\ f.base \in 0 .. StackUnits - 1 /\ f.base < e
    BY <1>1, <1>3
  <2> QED BY <2>1
<1>5. \A j \in DOMAIN f.args : d[f.flag + j] = c[f.flag + j]
  <2> SUFFICES ASSUME NEW j \in 1 .. Len(f.args) PROVE d[f.flag + j] = c[f.flag + j]
    BY <1>1
  <2>1. f.flag + j \in 0 .. StackUnits - 1 /\ f.flag + j < e
    BY <1>1, <1>3
  <2> QED BY <2>1
<1> QED BY <1>4, <1>5 DEF Intact

(* Calls below the frame on top stay intact while the stack below it does. *)
LEMMA LiveKept ==
  ASSUME NEW fs, Chained(fs), NEW c, NEW d, Live(fs, c),
         \A a \in 0 .. StackUnits - 1 : fs # <<>> /\ a < fs[Len(fs)].base => d[a] = c[a]
  PROVE  Live(fs, d)
<1> SUFFICES ASSUME NEW i \in 1 .. Len(fs) - 1, fs[i].kind = "thunk"
             PROVE  Intact(fs[i], fs[i + 1].threw, d)
  BY DEF Live
<1> DEFINE n == Len(fs)
           e == fs[n].base
           t == fs[i + 1].threw
<1>1. fs \in Seq(Records) /\ n \in Nat
  BY DEF Chained
<1>2. fs # <<>> /\ i \in 1 .. n /\ n \in 1 .. n /\ i < n
  BY <1>1
<1>3. fs[i] \in Records /\ fs[i].flag = fs[i].base + Pointers(fs[i].args)
  BY <1>2, ThunkFlag
<1>4. fs[n] \in Records /\ End(fs[n]) <= StackUnits
  BY <1>2, OnTop
<1>5. e \in Nat /\ e <= End(fs[n]) /\ End(fs[n]) \in Nat
  BY <1>4, EndIsNat
<1>6. e <= StackUnits
  BY <1>4, <1>5, UnitsAssumption
<1>7. End(fs[i]) <= e
  BY <1>2 DEF Chained
<1>8. Intact(fs[i], t, c)
  BY DEF Live
<1>9. \A a \in 0 .. StackUnits - 1 : a < e => d[a] = c[a]
  BY <1>2
<1> HIDE DEF n, e, t
<1>10. Intact(fs[i], t, d)
  BY <1>3, <1>5, <1>6, <1>7, <1>8, <1>9, IntactKept
<1> QED BY <1>10 DEF t

(* The frame on top is taken away, and only units above the frame below it *)
(* change.                                                                 *)
LEMMA LivePop ==
  ASSUME NEW fs, Chained(fs), fs # <<>>, NEW c, NEW d, Live(fs, c),
         \A a \in 0 .. StackUnits - 1 : Len(fs) > 1 /\ a < fs[Len(fs) - 1].base => d[a] = c[a]
  PROVE  Live(SubSeq(fs, 1, Len(fs) - 1), d)
<1> DEFINE gs == SubSeq(fs, 1, Len(fs) - 1)
<1>1. Chained(gs) /\ Len(gs) = Len(fs) - 1 /\ \A i \in 1 .. Len(gs) : gs[i] = fs[i]
  BY ChainedPop
<1>2. Len(fs) \in Nat /\ Len(fs) > 0 /\ gs \in Seq(Records)
  BY <1>1, OnTop DEF Chained
<1> HIDE DEF gs
<1>3. Live(gs, c)
  <2> SUFFICES ASSUME NEW i \in 1 .. Len(gs) - 1, gs[i].kind = "thunk"
               PROVE  Intact(gs[i], gs[i + 1].threw, c)
    BY DEF Live
  <2>1. i \in 1 .. Len(fs) - 1 /\ gs[i] = fs[i] /\ gs[i + 1] = fs[i + 1]
    <3>1. i \in 1 .. Len(gs) /\ i + 1 \in 1 .. Len(gs) /\ i \in 1 .. Len(fs) - 1
      BY <1>1, <1>2
    <3> QED BY <1>1, <3>1
  <2> QED BY <2>1 DEF Live
<1>4. \A a \in 0 .. StackUnits - 1 : gs # <<>> /\ a < gs[Len(gs)].base => d[a] = c[a]
  <2>1. gs # <<>> => Len(fs) > 1 /\ Len(gs) \in 1 .. Len(gs) /\ Len(gs) = Len(fs) - 1
    BY <1>1, <1>2
  <2>2. gs # <<>> => Len(fs) > 1 /\ gs[Len(gs)] = fs[Len(fs) - 1]
    BY <1>1, <2>1
  <2> QED BY <2>2
<1>5. Live(gs, d)
  BY <1>1, <1>3, <1>4, LiveKept
<1> QED BY <1>5 DEF gs

(* A frame is added above one that is no thunk.                            *)
LEMMA LivePush ==
  ASSUME NEW fs, NEW f, Chained(fs), fs # <<>>, fs[Len(fs)].kind # "thunk",
         NEW c, Live(fs, c)
  PROVE  Live(Append(fs, f), c)
<1> DEFINE gs == Append(fs, f)
<1>1. fs \in Seq(Records) /\ Len(fs) \in Nat /\ Len(fs) > 0
  BY DEF Chained
<1>2. Len(gs) = Len(fs) + 1 /\ \A i \in 1 .. Len(fs) : gs[i] = fs[i]
  BY <1>1
<1> HIDE DEF gs
<1>3. ASSUME NEW i \in 1 .. Len(gs) - 1, gs[i].kind = "thunk"
      PROVE  Intact(gs[i], gs[i + 1].threw, c)
  <2>1. i \in 1 .. Len(fs) /\ gs[i] = fs[i]
    BY <1>1, <1>2
  <2>2. i # Len(fs)
    BY <1>3, <2>1
  <2>3. i \in 1 .. Len(fs) - 1 /\ i + 1 \in 1 .. Len(fs)
    BY <1>1, <2>1, <2>2
  <2>4. gs[i + 1] = fs[i + 1]
    BY <1>2, <2>3
  <2> QED BY <1>3, <2>1, <2>3, <2>4 DEF Live
<1>4. Live(gs, c)
  BY <1>3 DEF Live
<1> QED BY <1>4 DEF gs

(* What the interpreter writes stays above.                                *)
LEMMA ScribbledKeeps ==
  ASSUME NEW cells \in Cells, NEW from \in Int
  PROVE  /\ Scribbled(cells, from) \in Cells
         /\ \A a \in 0 .. StackUnits - 1 : a < from => Scribbled(cells, from)[a] = cells[a]
<1>1. DOMAIN cells = 0 .. StackUnits - 1 /\ <<>> \in Seq(Int)
  BY DEF Cells
<1>2. \A a \in 0 .. StackUnits - 1 : cells[a] \in Seq(Int) /\ a \in Int
  BY DEF Cells
<1> QED BY <1>1, <1>2 DEF Scribbled, Cells

(* The cells of a call, once its arguments are in place.                   *)
LEMMA FilledIntact ==
  ASSUME NEW args \in Seq(Int), memory \in Cells, sp \in Nat, EndOf(args) <= StackUnits,
         NEW f \in Records, f.kind = "thunk", f.args = args, f.base = sp, f.flag = FlagAt(args)
  PROVE  /\ Filled(args) \in Cells
         /\ Intact(f, 0, Scribbled(Filled(args), EndOf(args)))
         /\ \A a \in 0 .. StackUnits - 1 : a < sp => Filled(args)[a] = memory[a]
         /\ Received(args) = args
         /\ FlagAt(args) = sp + Pointers(args) /\ EndOf(args) = End(f) /\ EndOf(args) \in Nat
<1> DEFINE flag == FlagAt(args)
           len == Len(args)
           cells == Filled(args)
<1>1. len \in Nat /\ DOMAIN args = 1 .. len /\ \A j \in 1 .. len : args[j] \in Int
  OBVIOUS
<1>2. flag = sp + Pointers(args) /\ Pointers(args) \in {0, 1} /\ (args # <<>> => Pointers(args) = 1)
  BY DEF FlagAt, Pointers
<1>3. /\ EndOf(args) = flag + len + 1 /\ EndOf(args) \in Nat /\ flag \in Nat
      /\ flag + len + 1 <= StackUnits /\ sp <= flag
  BY <1>1, <1>2 DEF EndOf
<1>4. EndOf(args) = End(f)
  BY <1>1, <1>2, <1>3 DEF End, Room
<1>5. DOMAIN memory = 0 .. StackUnits - 1 /\ StackUnits \in Nat
      /\ \A a \in 0 .. StackUnits - 1 : memory[a] \in Seq(Int)
  BY UnitsAssumption DEF Cells
<1>6. cells = [a \in 0 .. StackUnits - 1 |->
                 IF a = flag THEN <<0>>
                 ELSE IF a = sp THEN [i \in 1 .. len |-> flag + i]
                 ELSE IF a \in flag + 1 .. flag + len THEN <<args[a - flag]>>
                 ELSE memory[a]]
  BY <1>1, <1>5 DEF Filled, ArgAt
<1> HIDE DEF flag, len, cells
<1>7. [i \in 1 .. len |-> flag + i] \in Seq(Int)
  BY <1>1, <1>3
<1>8. cells \in [0 .. StackUnits - 1 -> Seq(Int)]
  <2> SUFFICES ASSUME NEW a \in 0 .. StackUnits - 1
               PROVE  (IF a = flag THEN <<0>>
                       ELSE IF a = sp THEN [i \in 1 .. len |-> flag + i]
                       ELSE IF a \in flag + 1 .. flag + len THEN <<args[a - flag]>>
                       ELSE memory[a]) \in Seq(Int)
    BY <1>6
  <2>1. <<0>> \in Seq(Int)
    OBVIOUS
  <2>2. ASSUME a \in flag + 1 .. flag + len PROVE <<args[a - flag]>> \in Seq(Int)
    <3>1. a - flag \in 1 .. len BY <1>1, <1>3, <2>2
    <3>2. args[a - flag] \in Int BY <1>1, <3>1
    <3> QED BY <3>2
  <2> QED BY <1>5, <1>7, <2>1, <2>2
<1>9. \A a \in 0 .. StackUnits - 1 : a < sp => cells[a] = memory[a]
  BY <1>1, <1>2, <1>3, <1>6
<1>10. cells[flag] = <<0>> /\ flag \in 0 .. StackUnits - 1
  BY <1>1, <1>3, <1>5, <1>6
<1>11. ASSUME args # <<>> PROVE cells[sp] = [i \in 1 .. len |-> flag + i]
  <2>1. sp \in 0 .. StackUnits - 1 /\ sp # flag
    BY <1>1, <1>2, <1>3, <1>5, <1>11
  <2> QED BY <1>6, <2>1
<1>12. \A j \in 1 .. len : cells[flag + j] = <<args[j]>>
  <2> SUFFICES ASSUME NEW j \in 1 .. len PROVE cells[flag + j] = <<args[j]>>
    OBVIOUS
  <2>0. j \in Int /\ 1 <= j /\ j <= len /\ sp \in Int /\ flag \in Int /\ len \in Int /\ StackUnits \in Int
    BY <1>1, <1>3, <1>5
  <2>1. flag + j \in 0 .. StackUnits - 1 /\ flag + j # flag /\ flag + j # sp
    BY ONLY <2>0, <1>3
  <2>2. flag + j \in flag + 1 .. flag + len /\ (flag + j) - flag = j
    BY <1>1, <1>3
  <2> QED BY <1>6, <2>1, <2>2
<1>13. Intact(f, 0, cells)
  BY <1>1, <1>10, <1>11, <1>12 DEF Intact, flag, len
<1>14. /\ Scribbled(cells, EndOf(args)) \in Cells
       /\ \A a \in 0 .. StackUnits - 1 : a < EndOf(args) => Scribbled(cells, EndOf(args))[a] = cells[a]
  <2>1. cells \in Cells /\ EndOf(args) \in Int
    BY <1>3, <1>8 DEF Cells
  <2> QED BY ONLY <2>1, ScribbledKeeps
<1>15. Intact(f, 0, Scribbled(cells, EndOf(args)))
  <2>1. f.flag = f.base + Pointers(f.args) /\ End(f) <= EndOf(args) /\ EndOf(args) <= StackUnits
    BY <1>2, <1>3, <1>4 DEF flag
  <2> DEFINE d == Scribbled(cells, EndOf(args))
             e == EndOf(args)
  <2>2. \A a \in 0 .. StackUnits - 1 : a < e => d[a] = cells[a]
    BY <1>14
  <2>3. e \in Nat /\ End(f) <= e /\ e <= StackUnits
    BY <1>3, <2>1
  <2> HIDE DEF d, e
  <2>4. Intact(f, 0, d)
    BY ONLY <1>13, <2>1, <2>2, <2>3, IntactKept, f \in Records, f.kind = "thunk"
  <2> QED BY <2>4 DEF d, e
<1>16. Received(args) = args
  <2>1. Received(args) = [i \in 1 .. len |-> cells[cells[sp][i]][1]]
    BY <1>1 DEF Received, cells, len
  <2>2. \A i \in 1 .. len : cells[cells[sp][i]][1] = args[i]
    <3> SUFFICES ASSUME NEW i \in 1 .. len PROVE cells[cells[sp][i]][1] = args[i]
      OBVIOUS
    <3>1. args # <<>>
      BY <1>1 DEF len
    <3>2. cells[sp][i] = flag + i
      BY <1>11, <3>1
    <3> QED BY <1>12, <3>2
  <2>3. args = [i \in 1 .. len |-> args[i]]
    BY <1>1
  <2> QED BY <2>1, <2>2, <2>3
<1> QED BY <1>2, <1>3, <1>4, <1>8, <1>9, <1>15, <1>16 DEF Cells, flag, cells

(* A step that pushes a frame above one that is no thunk, or leaves frames *)
(* and memory alone, or pops a frame, keeps the chain and the live calls.  *)
LEMMA Pushed ==
  ASSUME StackInv, frames # <<>>, Top.kind # "thunk", NEW f \in Records, f.kind # "managed",
         f.base = End(Top), MayCall(Top, f), End(f) <= StackUnits,
         frames' = Append(frames, f), UNCHANGED memory
  PROVE  /\ Chained(frames)' /\ Live(frames, memory)' /\ memory' \in Cells
         /\ frames' # <<>> /\ Top' = f
<1>1. /\ Chained(frames') /\ Len(frames') = Len(frames) + 1 /\ frames'[Len(frames) + 1] = f
  BY ChainedPush DEF StackInv, Top
<1>2. Live(frames', memory)
  BY LivePush DEF StackInv, Top
<1>3. frames' # <<>>
  BY <1>1, OnTop DEF StackInv
<1> QED BY <1>1, <1>2, <1>3 DEF StackInv, Top

(* Leaving the innermost call leaves the frames below it as they were.     *)
LEMMA Popped ==
  ASSUME StackInv, frames # <<>>, Pop, memory' \in Cells,
         \A a \in 0 .. StackUnits - 1 :
           Len(frames) > 1 /\ a < frames[Len(frames) - 1].base => memory'[a] = memory[a]
  PROVE  /\ Chained(frames)' /\ Live(frames, memory)' /\ memory' \in Cells
         /\ Top \in Records
         /\ frames' # <<>> => Len(frames) > 1 /\ Top' = frames[Len(frames) - 1]
         /\ Len(frames) > 1 => frames' # <<>> /\ Top' \in Records /\ Top.base = End(Top') /\ MayCall(Top', Top)
         /\ frames' = <<>> => Len(frames) = 1 /\ Top.kind = "managed" /\ Top.base = 0 /\ Top.flag = NoFlag
<1> DEFINE n == Len(frames)
           gs == SubSeq(frames, 1, n - 1)
<1>1. Chained(frames) /\ Live(frames, memory)
  BY DEF StackInv
<1>2. /\ n \in Nat /\ n > 0 /\ Top \in Records
      /\ n = 1 => Top.kind = "managed" /\ Top.base = 0 /\ Top.flag = NoFlag
      /\ n > 1 => frames[n - 1] \in Records /\ Top.base = End(frames[n - 1]) /\ MayCall(frames[n - 1], Top)
  BY <1>1, OnTop DEF Top
<1>3. Chained(gs) /\ Len(gs) = n - 1 /\ \A i \in 1 .. Len(gs) : gs[i] = frames[i]
  BY <1>1, ChainedPop
<1>4. Live(gs, memory')
  BY <1>1, LivePop
<1>5. frames' = gs
  BY DEF Pop
<1>6. gs \in Seq(Records)
  BY <1>3 DEF Chained
<1> HIDE DEF gs, n
<1>7. gs # <<>> => n > 1 /\ gs[Len(gs)] = frames[n - 1]
  BY <1>2, <1>3, <1>6
<1>8. n > 1 => gs # <<>>
  BY <1>2, <1>3
<1>9. gs = <<>> => n = 1
  BY <1>2, <1>8
<1>10. Chained(frames)' /\ Live(frames, memory)'
  BY <1>3, <1>4, <1>5
<1>11. gs # <<>> => Top' = frames[n - 1]
  BY <1>5, <1>7 DEF Top
<1> QED BY <1>2, <1>5, <1>7, <1>8, <1>9, <1>10, <1>11 DEF n

(* What the frame on top says about the stack pointer.                     *)
LEMMA OnTopNow ==
  ASSUME StackInv, frames # <<>>
  PROVE  /\ Top \in Records /\ Top.base \in Nat /\ End(Top) \in Nat /\ Top.base <= End(Top)
         /\ End(Top) <= StackUnits
         /\ answer # "error" => sp = End(Top)
         /\ Top.kind \notin {"managed", "thunk"} => sp = End(Top)
         /\ Top.kind \notin {"managed", "thunk"} => End(Top) = Top.base /\ Len(frames) > 1
<1>1. /\ Top \in Records /\ End(Top) <= StackUnits
      /\ Len(frames) \in Nat /\ Len(frames) > 0
      /\ Len(frames) = 1 => Top.kind = "managed"
  BY OnTop DEF StackInv, Top
<1>2. Top.base \in Nat /\ End(Top) \in Nat /\ Top.base <= End(Top)
  BY <1>1, EndIsNat
<1>3. (answer # "error" \/ Top.kind \notin {"managed", "thunk"}) => sp = End(Top)
  BY DEF StackInv, Placed, Passing
<1>4. Top.kind \notin {"managed", "thunk"} => End(Top) = Top.base
  BY <1>2 DEF End, Room
<1>5. ASSUME Top.kind \notin {"managed", "thunk"} PROVE Len(frames) > 1
  <2>1. Len(frames) # 1
    BY <1>1, <1>5
  <2> QED BY <1>1, <2>1
<1> QED BY <1>1, <1>2, <1>3, <1>4, <1>5

(* A call that does not move the stack pointer.                            *)
LEMMA Calls ==
  ASSUME StackInv, frames # <<>>, answer = "none",
         NEW kind, NEW args \in Seq(Int),
         \/ Top.kind = "managed" /\ kind \in Interop
         \/ Top.kind \in Interop /\ kind \in {"compiled", "script"},
         frames' = Append(frames, Frame(kind, args, NoFlag)),
         UNCHANGED <<answer, sp, memory>>
  PROVE  StackInv'
<1> DEFINE f == Frame(kind, args, NoFlag)
<1>1. sp = End(Top) /\ sp \in Nat /\ sp <= StackUnits /\ Top.kind # "thunk"
  BY OnTopNow DEF Interop
<1>2. /\ f.kind = kind /\ f.base = sp /\ f.flag = NoFlag /\ f.args = args
      /\ kind \in {"marshalled", "unmarshalled", "compiled", "script"}
  BY DEF Frame, Interop
<1>3. f \in Records
  BY <1>1, <1>2 DEF Records, Frame, Kinds
<1>4. End(f) = sp
  BY <1>1, <1>2 DEF End, Room
<1>5. MayCall(Top, f)
  BY <1>2 DEF MayCall
<1>6. frames' = Append(frames, f)
  OBVIOUS
<1> HIDE DEF f
<1>7. /\ Chained(frames)' /\ Live(frames, memory)' /\ memory' \in Cells
      /\ frames' # <<>> /\ Top' = f
  BY <1>1, <1>2, <1>3, <1>4, <1>5, <1>6, Pushed
<1>8. Placed'
  BY <1>1, <1>2, <1>4, <1>7 DEF Placed, Passing, Answers
<1> QED BY <1>7, <1>8 DEF StackInv

(* The frame on top gets an answer, or goes on with the one it has got.    *)
LEMMA Stays ==
  ASSUME StackInv, frames # <<>>, UNCHANGED <<frames, sp, memory>>,
         answer # "error", answer' \in {"none", "error"},
         Top.kind \in {"managed", "compiled"} \cup Interop
  PROVE  StackInv'
<1>1. sp = End(Top) /\ sp \in Nat
  BY OnTopNow
<1>2. Top' = Top /\ End(Top') = End(Top)
  BY DEF Top
<1>3. Placed'
  BY <1>1, <1>2 DEF Placed, Answers, Interop
<1>4. Chained(frames)' /\ Live(frames, memory)' /\ memory' \in Cells
  BY DEF StackInv
<1> QED BY <1>3, <1>4 DEF StackInv

(* A frame that holds no units returns.                                    *)
LEMMA Returns ==
  ASSUME StackInv, frames # <<>>, Top.kind \notin {"managed", "thunk"}, Pop,
         UNCHANGED <<sp, memory>>,
         Top.kind \in Interop => answer' \in {"value", "message", "error"},
         Top.kind \notin Interop => answer' \in {"value", "error", "other"}
  PROVE  StackInv'
<1>1. Top \in Records /\ sp = Top.base /\ Len(frames) > 1 /\ sp \in Nat
  BY OnTopNow
<1>2. memory \in Cells
  BY DEF StackInv
<1>3. /\ Chained(frames)' /\ Live(frames, memory)' /\ memory' \in Cells
      /\ frames' # <<>> /\ Top.base = End(Top') /\ MayCall(Top', Top)
  BY <1>1, <1>2, Popped
<1>4. Top.kind \in Interop => Top'.kind = "managed"
  BY <1>3 DEF MayCall, Interop
<1>5. Top.kind \notin Interop => Top'.kind \in Interop
  BY <1>3 DEF MayCall, Interop
<1>6. sp' = End(Top')
  BY <1>1, <1>3
<1>7. Placed'
  BY <1>1, <1>3, <1>4, <1>5, <1>6 DEF Placed, Answers, Interop
<1> QED BY <1>3, <1>7 DEF StackInv

(* A chain that is not empty has one frame or more.                        *)
LEMMA OneOrMore ==
  ASSUME NEW fs, Chained(fs), fs # <<>>
  PROVE  Len(fs) = 1 \/ (Len(fs) > 1 /\ Len(fs) # 1)
<1>1. fs \in Seq(Records)
  BY DEF Chained
<1>2. Len(fs) \in Nat /\ Len(fs) # 0
  BY <1>1
<1> QED BY <1>2

(* The page's call starts at the bottom of the stack.                      *)
LEMMA FromThePage == ASSUME StackInv, PageCalls PROVE StackInv'
<1> DEFINE f == Frame("managed", <<>>, NoFlag)
<1>1. frames = <<>> /\ sp = 0 /\ answer = "none" /\ memory \in Cells /\ NativeUnits \in Nat
      /\ NativeUnits <= StackUnits
  BY UnitsAssumption DEF StackInv, Placed, PageCalls
<1>2. f \in Records /\ f.kind = "managed" /\ f.base = 0 /\ f.flag = NoFlag
  BY <1>1 DEF Frame, Records, Kinds
<1>3. End(f) = NativeUnits
  BY <1>1, <1>2 DEF End, Room
<1>4. frames' = Append(<<>>, f)
  BY <1>1 DEF PageCalls, Push
<1> HIDE DEF f
<1>5. frames' \in Seq(Records) /\ Len(frames') = 1 /\ frames'[1] = f /\ frames' # <<>> /\ Top' = f
  BY <1>2, <1>4 DEF Top
<1>6. Chained(frames')
  <2>1. \A i \in 1 .. Len(frames') : i = 1
    BY <1>5
  <2>2. \A i \in 2 .. Len(frames') : FALSE
    BY <1>5
  <2>3. End(f) <= StackUnits
    BY <1>1, <1>3
  <2>4. \A i, j \in 1 .. Len(frames') : ~(i < j)
    BY <2>1
  <2> QED BY <1>2, <1>5, <2>1, <2>2, <2>3, <2>4 DEF Chained
<1>7. memory' \in Cells
  BY <1>1, ScribbledKeeps DEF PageCalls
<1>8. Live(frames', memory')
  BY <1>5 DEF Live
<1>9. Placed'
  <2>1. sp' = NativeUnits /\ answer' = "none"
    BY <1>1 DEF PageCalls
  <2> QED BY <1>1, <1>2, <1>3, <1>5, <2>1 DEF Placed, Answers
<1> QED BY <1>6, <1>7, <1>8, <1>9 DEF StackInv

(* A thunk calls the interpreter: two frames and their units.              *)
LEMMA FromCompiledCode == ASSUME StackInv, CallInterpreterMethod PROVE StackInv'
<1>0. frames # <<>> /\ answer = "none" /\ Top.kind = "compiled"
  BY DEF CallInterpreterMethod, Runs
<1>1. PICK args \in Arguments :
        \/ answer' = "error" /\ UNCHANGED <<frames, sp, memory>>
        \/ /\ EndOf(args) + NativeUnits <= StackUnits
           /\ frames' = Append(Append(frames, Frame("thunk", args, FlagAt(args))), Invocation(args))
           /\ sp' = EndOf(args) + NativeUnits
           /\ memory' = Scribbled(Filled(args), EndOf(args))
           /\ UNCHANGED answer
  BY DEF CallInterpreterMethod
<1>2. CASE answer' = "error" /\ UNCHANGED <<frames, sp, memory>>
  BY <1>0, <1>2, Stays
<1>3. CASE /\ EndOf(args) + NativeUnits <= StackUnits
           /\ frames' = Append(Append(frames, Frame("thunk", args, FlagAt(args))), Invocation(args))
           /\ sp' = EndOf(args) + NativeUnits
           /\ memory' = Scribbled(Filled(args), EndOf(args))
           /\ UNCHANGED answer
  <2> DEFINE f == Frame("thunk", args, FlagAt(args))
             g == Invocation(args)
             gs == Append(frames, f)
             hs == Append(gs, g)
             n == Len(frames)
  <2>1. sp = End(Top) /\ sp \in Nat
    BY <1>0, OnTopNow
  <2>2. args \in Seq(Int) /\ memory \in Cells /\ NativeUnits \in Nat /\ StackUnits \in Nat
    BY ArgumentsAssumption, UnitsAssumption DEF StackInv
  <2>3. FlagAt(args) \in Nat /\ EndOf(args) \in Nat
    BY <2>1, <2>2 DEF FlagAt, EndOf
  <2>4. f \in Records /\ f.kind = "thunk" /\ f.args = args /\ f.base = sp /\ f.flag = FlagAt(args)
    BY <2>1, <2>2, <2>3 DEF Frame, Records, Kinds
  <2>5. EndOf(args) <= StackUnits
    BY <1>3, <2>2, <2>3
  <2> HIDE DEF f
  <2>6. /\ Filled(args) \in Cells
        /\ Intact(f, 0, Scribbled(Filled(args), EndOf(args)))
        /\ \A a \in 0 .. StackUnits - 1 : a < sp => Filled(args)[a] = memory[a]
        /\ Received(args) = args
        /\ FlagAt(args) = sp + Pointers(args) /\ EndOf(args) = End(f)
    BY <2>1, <2>2, <2>4, <2>5, FilledIntact
  <2>7. /\ g \in Records /\ g.kind = "managed" /\ g.args = args /\ g.base = End(f) /\ g.flag = f.flag
        /\ g.threw = 0
    BY <2>2, <2>3, <2>4, <2>6 DEF Invocation, Records, Kinds
  <2> HIDE DEF g
  <2>8. End(g) = EndOf(args) + NativeUnits /\ End(g) \in Nat
    BY <2>2, <2>3, <2>6, <2>7 DEF End, Room
  <2>9. /\ Chained(frames) /\ Live(frames, memory) /\ n \in Nat /\ n > 0
        /\ frames[n] = Top
    BY <1>0, OnTop DEF StackInv, Top
  <2>10. MayCall(Top, f)
    BY <1>0, <2>4, <2>6 DEF MayCall
  <2>11. End(f) <= StackUnits
    BY <2>5, <2>6
  <2> HIDE DEF n
  <2>12. /\ Chained(gs) /\ Len(gs) = n + 1 /\ gs[n + 1] = f
    BY <1>0, <2>1, <2>4, <2>9, <2>10, <2>11, ChainedPush DEF n
  <2>13. Live(gs, memory)
    BY <1>0, <2>9, LivePush DEF n
  <2>14. gs # <<>> /\ gs[Len(gs)] = f
    <3>1. Len(gs) # 0
      BY <2>9, <2>12
    <3> QED BY <2>12, <3>1
  <2>15. MayCall(f, g)
    BY <2>4, <2>7 DEF MayCall
  <2> HIDE DEF gs
  <2>16. End(g) <= StackUnits
    BY <1>3, <2>8
  <2>17. /\ Chained(hs) /\ Len(hs) = Len(gs) + 1 /\ hs[Len(gs) + 1] = g
         /\ \A i \in 1 .. Len(gs) : hs[i] = gs[i]
    BY <2>7, <2>12, <2>14, <2>15, <2>16, ChainedPush
  <2> HIDE DEF hs
  <2>18. memory' \in Cells /\ \A a \in 0 .. StackUnits - 1 : a < sp => memory'[a] = memory[a]
    <3>1. /\ Scribbled(Filled(args), EndOf(args)) \in Cells
          /\ \A a \in 0 .. StackUnits - 1 :
               a < EndOf(args) => Scribbled(Filled(args), EndOf(args))[a] = Filled(args)[a]
      BY <2>3, <2>6, ScribbledKeeps
    <3>2. sp <= EndOf(args)
      BY <2>4, <2>6, EndIsNat
    <3> QED BY <1>3, <2>1, <2>3, <2>6, <3>1, <3>2
  <2>19. Live(gs, memory')
    BY <2>4, <2>12, <2>13, <2>14, <2>18, LiveKept
  <2>20. Live(hs, memory')
    <3>1. ASSUME NEW i \in 1 .. Len(hs) - 1, hs[i].kind = "thunk"
          PROVE  Intact(hs[i], hs[i + 1].threw, memory')
      <4>1. i \in 1 .. n + 1 /\ hs[i] = gs[i]
        BY <2>9, <2>12, <2>17
      <4>2. CASE i = n + 1
        <5>1. hs[i] = f
          BY <2>12, <4>1, <4>2
        <5>2. i + 1 = Len(gs) + 1
          BY <2>12, <4>2
        <5>3. hs[i + 1].threw = 0
          BY <2>7, <2>17, <5>2
        <5>4. Intact(f, 0, memory')
          BY <1>3, <2>6
        <5> QED BY <5>1, <5>3, <5>4
      <4>3. CASE i # n + 1
        <5>1. i \in 1 .. Len(gs) - 1 /\ i + 1 \in 1 .. Len(gs)
          BY <2>9, <2>12, <4>1, <4>3
        <5>2. hs[i + 1] = gs[i + 1]
          BY <2>17, <5>1
        <5> QED BY <2>19, <3>1, <4>1, <5>1, <5>2 DEF Live
      <4> QED BY <4>2, <4>3
    <3> QED BY <3>1 DEF Live
  <2>21. frames' = hs /\ hs # <<>> /\ Top' = g
    <3>1. frames' = hs
      BY <1>3 DEF hs, gs, f, g
    <3>2. Len(hs) # 0 /\ hs[Len(hs)] = g
      BY <2>9, <2>12, <2>17
    <3>3. hs # <<>>
      BY <3>2
    <3> QED BY <3>1, <3>2, <3>3 DEF Top
  <2>22. sp' = End(g) /\ answer' = "none"
    BY <1>0, <1>3, <2>8
  <2>23. Placed'
    BY <2>7, <2>8, <2>21, <2>22 DEF Placed, Answers
  <2>24. Chained(frames') /\ Live(frames', memory')
    BY ONLY <2>17, <2>20, <2>21
  <2> QED BY ONLY <2>18, <2>23, <2>24 DEF StackInv
<1> QED BY <1>1, <1>2, <1>3

(* A method that compiled code has called sits above its thunk; writing    *)
(* the flag, or nothing, leaves what lies below the thunk.                 *)
LEMMA FlagWritten ==
  ASSUME StackInv, frames # <<>>, Top.kind = "managed", Len(frames) > 1,
         NEW t \in {0, 1}, NEW d,
         \/ d = Scribbled(memory, Top.base)
         \/ d = [Scribbled(memory, Top.base) EXCEPT ![Top.flag] = <<t>>]
  PROVE  LET call == frames[Len(frames) - 1] IN
         /\ call.kind = "thunk" /\ call \in Records
         /\ Top.flag = call.flag /\ Top.flag \in Nat /\ Top.flag # NoFlag
         /\ call.flag = call.base + Pointers(call.args) /\ Top.base = End(call)
         /\ call.base \in Nat /\ call.base <= call.flag
         /\ d \in Cells
         /\ \A a \in 0 .. StackUnits - 1 : a < call.base => d[a] = memory[a]
<1> DEFINE call == frames[Len(frames) - 1]
           cells == Scribbled(memory, Top.base)
<1>1. Chained(frames) /\ Len(frames) \in Nat /\ memory \in Cells /\ Top \in Records /\ Top.base \in Nat
  BY OnTopNow DEF StackInv, Chained
<1>2. call \in Records /\ MayCall(call, Top) /\ Top.base = End(call)
  BY <1>1, OnTop DEF Top
<1>3. call.kind = "thunk" /\ Top.flag = call.flag
  BY <1>2 DEF MayCall, Interop
<1>4. Len(frames) - 1 \in 1 .. Len(frames)
  BY <1>1
<1>5. call.flag = call.base + Pointers(call.args)
  BY <1>1, <1>3, <1>4, ThunkFlag
<1>6. call.base \in Nat /\ Pointers(call.args) \in Nat
  BY <1>2 DEF Records, Pointers
<1>7. call.flag \in Nat /\ call.base <= call.flag
  BY <1>5, <1>6
<1>8. Top.flag # NoFlag
  BY <1>3, <1>7, NoFlagAssumption
<1>9. /\ cells \in Cells
      /\ \A a \in 0 .. StackUnits - 1 : a < Top.base => cells[a] = memory[a]
  BY <1>1, ScribbledKeeps
<1>10. \A a \in 0 .. StackUnits - 1 : a < call.base => cells[a] = memory[a]
  <2>1. call.base <= Top.base
    BY <1>2, EndIsNat
  <2> QED BY <1>1, <1>6, <1>9, <2>1
<1> HIDE DEF cells, call
<1>11. CASE d = cells
  BY <1>2, <1>3, <1>5, <1>6, <1>7, <1>8, <1>9, <1>10, <1>11 DEF call
<1>12. CASE d = [cells EXCEPT ![Top.flag] = <<t>>]
  <2>1. <<t>> \in Seq(Int)
    OBVIOUS
  <2>2. d \in Cells
    BY <1>9, <1>12, <2>1 DEF Cells
  <2>3. \A a \in 0 .. StackUnits - 1 : a < call.base => d[a] = memory[a]
    <3> SUFFICES ASSUME NEW a \in 0 .. StackUnits - 1, a < call.base PROVE d[a] = memory[a]
      OBVIOUS
    <3>1. a # Top.flag
      BY <1>3, <1>6, <1>7
    <3>2. d[a] = cells[a]
      BY <1>9, <1>12, <3>1 DEF Cells
    <3> QED BY <1>10, <3>2
  <2> QED BY <1>2, <1>3, <1>5, <1>6, <1>7, <1>8, <2>2, <2>3 DEF call
<1> QED BY <1>11, <1>12 DEF cells

(* A method that returns gives its units back, and clears the flag if a    *)
(* call asked for it and it has not thrown.                                *)
LEMMA BackFromManaged == ASSUME StackInv, ManagedReturns PROVE StackInv'
<1>0. frames # <<>> /\ answer = "none" /\ Top.kind = "managed" /\ Pop /\ sp' = Top.base
  BY DEF ManagedReturns, Runs
<1>1. memory \in Cells /\ Top \in Records /\ Top.base \in Nat /\ Chained(frames)
  BY <1>0, OnTopNow DEF StackInv
<1>2. Len(frames) = 1 \/ Len(frames) > 1
  BY <1>0, <1>1, OneOrMore
<1>3. CASE Len(frames) = 1
  <2>0. Top.flag = NoFlag /\ Top.base = 0
    BY <1>0, <1>1, <1>3, OnTop DEF Top
  <2>1. answer' = "none" /\ memory' = Scribbled(memory, Top.base)
    BY <2>0 DEF ManagedReturns
  <2>2. memory' \in Cells
    BY <1>1, <2>1, ScribbledKeeps
  <2>3. Chained(frames)' /\ Live(frames, memory)' /\ (frames' # <<>> => Len(frames) > 1)
    BY <1>0, <1>3, <2>2, Popped
  <2>4. frames' = <<>>
    BY <1>3, <2>3
  <2>5. Placed'
    BY <1>0, <2>0, <2>1, <2>4 DEF Placed, Answers
  <2> QED BY <2>2, <2>3, <2>5 DEF StackInv
<1>4. CASE Len(frames) > 1
  <2> DEFINE call == frames[Len(frames) - 1]
  <2>1. \/ memory' = Scribbled(memory, Top.base)
        \/ memory' = [Scribbled(memory, Top.base) EXCEPT ![Top.flag] = <<0>>]
    BY DEF ManagedReturns
  <2>2. /\ call.kind = "thunk" /\ Top.flag # NoFlag /\ Top.base = End(call)
        /\ memory' \in Cells
        /\ \A a \in 0 .. StackUnits - 1 : a < call.base => memory'[a] = memory[a]
    BY <1>0, <1>4, <2>1, FlagWritten
  <2>3. answer' = "native"
    BY <2>2 DEF ManagedReturns
  <2>4. /\ Chained(frames)' /\ Live(frames, memory)'
        /\ frames' # <<>> /\ Top' = call
    BY <1>0, <1>4, <2>2, Popped
  <2>5. sp' = End(Top') /\ sp' \in Nat
    BY <1>0, <1>1, <2>2, <2>4
  <2>6. Placed'
    BY <2>2, <2>3, <2>4, <2>5 DEF Placed, Answers
  <2> QED BY <2>2, <2>4, <2>6 DEF StackInv
<1> QED BY <1>2, <1>3, <1>4

(* What a chain is made of does not change when its last frame is noted as *)
(* having thrown.                                                          *)
LEMMA ChainedThrew ==
  ASSUME NEW fs, Chained(fs), fs # <<>>
  PROVE  LET gs == [fs EXCEPT ![Len(fs)].threw = 1] IN
         /\ Chained(gs) /\ gs # <<>> /\ Len(gs) = Len(fs)
         /\ \A i \in 1 .. Len(fs) - 1 : gs[i] = fs[i]
         /\ gs[Len(fs)] = [fs[Len(fs)] EXCEPT !.threw = 1]
<1> DEFINE n == Len(fs)
           g == [fs[n] EXCEPT !.threw = 1]
           gs == [fs EXCEPT ![n].threw = 1]
<1>1. fs \in Seq(Records) /\ n \in Nat /\ n > 0 /\ n \in 1 .. n
  BY DEF Chained
<1>2. fs[n] \in Records
  BY <1>1
<1>3. g \in Records /\ g.kind = fs[n].kind /\ g.args = fs[n].args /\ g.base = fs[n].base
      /\ g.flag = fs[n].flag
  BY <1>2 DEF Records
<1>4. gs \in Seq(Records) /\ Len(gs) = n /\ gs # <<>>
  BY <1>1, <1>3
<1>5. gs[n] = g /\ \A i \in 1 .. n - 1 : gs[i] = fs[i]
  BY <1>1
<1> HIDE DEF gs, g
<1>6. \A i \in 1 .. n : /\ gs[i].kind = fs[i].kind /\ gs[i].args = fs[i].args
                        /\ gs[i].base = fs[i].base /\ gs[i].flag = fs[i].flag
  <2> SUFFICES ASSUME NEW i \in 1 .. n
               PROVE  /\ gs[i].kind = fs[i].kind /\ gs[i].args = fs[i].args
                      /\ gs[i].base = fs[i].base /\ gs[i].flag = fs[i].flag
    OBVIOUS
  <2>1. CASE i = n BY <1>3, <1>5, <2>1
  <2>2. CASE i # n
    <3>1. i \in 1 .. n - 1 BY <1>1, <2>2
    <3> QED BY <1>5, <3>1
  <2> QED BY <2>1, <2>2
<1>7. \A i \in 1 .. n : End(gs[i]) = End(fs[i])
  BY <1>6 DEF End, Room
<1> HIDE DEF n
<1>8. \A i \in 2 .. n : gs[i].base = End(gs[i - 1]) /\ MayCall(gs[i - 1], gs[i])
  <2> SUFFICES ASSUME NEW i \in 2 .. n PROVE gs[i].base = End(gs[i - 1]) /\ MayCall(gs[i - 1], gs[i])
    OBVIOUS
  <2>1. i \in 1 .. n /\ i - 1 \in 1 .. n
    BY <1>1
  <2>2. fs[i].base = End(fs[i - 1]) /\ MayCall(fs[i - 1], fs[i])
    BY DEF Chained, n
  <2> QED BY <1>6, <1>7, <2>1, <2>2 DEF MayCall
<1>9. \A i \in 1 .. n : End(gs[i]) <= StackUnits
  BY <1>7 DEF Chained, n
<1>10. \A i, j \in 1 .. n : i < j => End(gs[i]) <= gs[j].base
  BY <1>6, <1>7 DEF Chained, n
<1>11. gs[1].kind = "managed" /\ gs[1].base = 0 /\ gs[1].flag = NoFlag
  <2>1. 1 \in 1 .. n BY <1>1
  <2> QED BY <1>6, <2>1 DEF Chained
<1>12. Chained(gs)
  BY <1>4, <1>8, <1>9, <1>10, <1>11 DEF Chained
<1> QED BY <1>4, <1>5, <1>12 DEF gs, g, n

(* A method throws: only the flag of its own call changes, and that is the *)
(* call whose flag should.                                                 *)
LEMMA ThrowsInManaged == ASSUME StackInv, ManagedThrows PROVE StackInv'
<1> DEFINE n == Len(frames)
           call == frames[n - 1]
           cells == Scribbled(memory, Top.base)
<1>0. /\ frames # <<>> /\ answer = "none" /\ Top.kind = "managed" /\ Top.flag # NoFlag
      /\ frames' = [frames EXCEPT ![n].threw = 1]
      /\ memory' = [cells EXCEPT ![Top.flag] = <<1>>]
      /\ answer' = answer /\ sp' = sp
  BY DEF ManagedThrows, Runs
<1>1. /\ Chained(frames) /\ Live(frames, memory) /\ memory \in Cells /\ n \in Nat
      /\ Top \in Records /\ Top.base \in Nat /\ End(Top) <= StackUnits /\ Top.base <= End(Top)
      /\ End(Top) \in Nat /\ sp = End(Top)
  BY <1>0, OnTopNow DEF StackInv, Chained
<1>2. n > 1
  <2>1. n # 1
    BY <1>0, <1>1, OnTop DEF Top
  <2> QED BY <1>0, <1>1, <2>1, OneOrMore
<1>3. /\ call.kind = "thunk" /\ call \in Records /\ Top.flag = call.flag
      /\ call.flag = call.base + Pointers(call.args) /\ Top.base = End(call)
      /\ call.base \in Nat /\ call.flag \in Nat
      /\ memory' \in Cells
      /\ \A a \in 0 .. StackUnits - 1 : a < call.base => memory'[a] = memory[a]
  <2>1. 1 \in {0, 1}
    OBVIOUS
  <2> QED BY ONLY StackInv, <1>0, <1>2, <2>1, FlagWritten
<1>4. /\ cells \in Cells
      /\ \A a \in 0 .. StackUnits - 1 : a < Top.base => cells[a] = memory[a]
  <2>1. memory \in Cells /\ Top.base \in Int
    BY <1>1
  <2> QED BY ONLY <2>1, ScribbledKeeps
<1>10. End(call) = call.flag + Len(call.args) + 1
  <2>1. Room(call) = Pointers(call.args) + Len(call.args) + 1
    BY <1>3 DEF Room
  <2>2. Pointers(call.args) \in Nat /\ Len(call.args) \in Nat
    BY <1>3 DEF Pointers, Records
  <2> QED BY <1>3, <2>1, <2>2 DEF End
<1> HIDE DEF cells
<1>5. /\ Chained(frames') /\ frames' # <<>> /\ Len(frames') = n
      /\ \A i \in 1 .. n - 1 : frames'[i] = frames[i]
      /\ frames'[n] = [Top EXCEPT !.threw = 1]
  BY <1>0, <1>1, ChainedThrew DEF Top
<1>6. Intact(call, 1, memory')
  <2>1. Intact(call, Top.threw, memory)
    <3>1. n - 1 \in 1 .. n - 1 /\ (n - 1) + 1 = n
      BY <1>1, <1>2
    <3> QED BY <1>1, <1>3, <3>1 DEF Live, Top
  <2> DEFINE t == Top.threw
             e == Top.base
  <2>2. e \in Nat /\ End(call) <= e /\ e <= StackUnits
    BY <1>1, <1>3, UnitsAssumption
  <2>3. \A a \in 0 .. StackUnits - 1 : a < e => cells[a] = memory[a]
    BY <1>4
  <2> HIDE DEF t, e
  <2>4. Intact(call, t, cells)
    BY <1>3, <2>1, <2>2, <2>3, IntactKept DEF t
  <2>5. Len(call.args) \in Nat /\ DOMAIN call.args = 1 .. Len(call.args)
    BY <1>3 DEF Records
  <2>6. call.flag \in 0 .. StackUnits - 1
    BY <1>3, <1>10, <2>2, <2>5, UnitsAssumption
  <2>7. memory'[call.flag] = <<1>>
    BY <1>0, <1>3, <1>4, <2>6 DEF Cells
  <2>8. \A a \in 0 .. StackUnits - 1 : a # call.flag => memory'[a] = cells[a]
    BY <1>0, <1>3, <1>4 DEF Cells
  <2>9. ASSUME call.args # <<>> PROVE memory'[call.base] = cells[call.base]
    <3>1. call.flag = call.base + 1
      BY <1>3, <2>9 DEF Pointers
    <3>2. call.base \in 0 .. StackUnits - 1 /\ call.base # call.flag
      BY <1>3, <2>6, <3>1, UnitsAssumption
    <3> QED BY <2>8, <3>2
  <2>10. ASSUME NEW j \in DOMAIN call.args PROVE memory'[call.flag + j] = cells[call.flag + j]
    <3>2. call.flag + j \in 0 .. StackUnits - 1 /\ call.flag + j # call.flag
      BY <1>3, <1>10, <2>2, <2>5, UnitsAssumption
    <3> QED BY <2>8, <3>2
  <2> QED BY <2>4, <2>7, <2>9, <2>10 DEF Intact
<1>7. ASSUME NEW i \in 1 .. n - 1, i # n - 1, frames[i].kind = "thunk"
      PROVE  Intact(frames[i], frames[i + 1].threw, memory')
  <2> DEFINE t == frames[i + 1].threw
             e == call.base
  <2>1. i \in 1 .. n /\ n - 1 \in 1 .. n /\ i < n - 1
    BY <1>1, <1>2, <1>7
  <2>2. frames[i] \in Records /\ frames[i].flag = frames[i].base + Pointers(frames[i].args)
    BY <1>1, <1>7, <2>1, ThunkFlag
  <2>3. End(frames[i]) <= e
    BY <1>1, <2>1 DEF Chained
  <2>4. e \in Nat /\ e <= StackUnits
    <3>1. e <= End(call) /\ End(call) \in Nat
      BY <1>3, EndIsNat
    <3> QED BY <1>1, <1>3, <3>1, UnitsAssumption
  <2>5. Intact(frames[i], t, memory)
    BY <1>1, <1>7 DEF Live
  <2>6. \A a \in 0 .. StackUnits - 1 : a < e => memory'[a] = memory[a]
    BY <1>3
  <2> HIDE DEF t, e
  <2>7. Intact(frames[i], t, memory')
    BY <1>7, <2>2, <2>3, <2>4, <2>5, <2>6, IntactKept
  <2> QED BY <2>7 DEF t
<1>8. Live(frames', memory')
  <2> SUFFICES ASSUME NEW i \in 1 .. n - 1, frames'[i].kind = "thunk"
               PROVE  Intact(frames'[i], frames'[i + 1].threw, memory')
    BY <1>5 DEF Live
  <2>1. frames'[i] = frames[i]
    BY <1>5
  <2>2. CASE i = n - 1
    <3>1. i + 1 = n
      BY <1>1, <2>2
    <3>2. frames'[i + 1].threw = 1
      BY <1>1, <1>5, <3>1 DEF Records
    <3> QED BY <1>6, <2>1, <2>2, <3>2
  <2>3. CASE i # n - 1
    <3>1. i + 1 \in 1 .. n - 1
      BY <1>1, <2>3
    <3>2. frames'[i + 1] = frames[i + 1]
      BY <1>5, <3>1
    <3> QED BY <1>7, <2>1, <2>3, <3>2
  <2> QED BY <2>2, <2>3
<1>9. Placed'
  <2>1. Top' = [Top EXCEPT !.threw = 1]
    BY <1>5 DEF Top
  <2>2. Top'.kind = "managed" /\ End(Top') = End(Top)
    BY <1>0, <1>1, <2>1 DEF End, Room, Records
  <2> QED BY <1>0, <1>1, <1>5, <2>2 DEF Placed, Answers
<1> QED BY <1>3, <1>5, <1>8, <1>9 DEF StackInv

(* Below a thunk there is the compiled function that called it.            *)
LEMMA BelowThunk ==
  ASSUME StackInv, FinishInterpreterCall
  PROVE  /\ Chained(frames)' /\ Live(frames, memory)' /\ memory' \in Cells
         /\ frames' # <<>> /\ Top.base = End(Top') /\ MayCall(Top', Top)
         /\ Top.base \in Nat
<1>0. /\ frames # <<>> /\ Top.kind = "thunk" /\ Pop /\ sp' = Top.base
      /\ memory' = Scribbled(memory, Top.base)
  BY DEF FinishInterpreterCall, Gets, Restored
<1>2. memory \in Cells /\ Top \in Records /\ Top.base \in Nat /\ Chained(frames)
  BY <1>0, OnTopNow DEF StackInv
<1>3. Len(frames) \in Nat /\ Len(frames) > 1
  <2>1. /\ Len(frames) \in Nat /\ Len(frames) > 0
        /\ Len(frames) = 1 => Top.kind = "managed"
    BY <1>0, <1>2, OnTop DEF Top
  <2>2. Len(frames) # 1
    BY <1>0, <2>1
  <2> QED BY <1>0, <1>2, <2>1, <2>2, OneOrMore
<1>4. /\ memory' \in Cells
      /\ \A a \in 0 .. StackUnits - 1 : a < Top.base => memory'[a] = memory[a]
  BY <1>0, <1>2, ScribbledKeeps
<1>5. \A a \in 0 .. StackUnits - 1 : a < frames[Len(frames) - 1].base => memory'[a] = memory[a]
  <2>1. frames[Len(frames) - 1] \in Records /\ Top.base = End(frames[Len(frames) - 1])
    BY <1>0, <1>2, <1>3, OnTop DEF Top
  <2>2. frames[Len(frames) - 1].base <= Top.base /\ frames[Len(frames) - 1].base \in Nat
    BY <2>1, EndIsNat
  <2> QED BY <1>2, <1>4, <2>2
<1>6. /\ Chained(frames)' /\ Live(frames, memory)'
      /\ frames' # <<>> /\ Top.base = End(Top') /\ MayCall(Top', Top)
  BY <1>0, <1>3, <1>4, <1>5, Popped
<1> QED BY <1>2, <1>4, <1>6

(* The finally block gives back what the call took.                        *)
LEMMA BackInThunk == ASSUME StackInv, FinishInterpreterCall PROVE StackInv'
<1>1. /\ frames # <<>> /\ Top.kind = "thunk" /\ sp' = Top.base
      /\ answer' \in {"error", "value"}
  BY DEF FinishInterpreterCall, Gets, Restored
<1>2. /\ Chained(frames)' /\ Live(frames, memory)' /\ memory' \in Cells
      /\ frames' # <<>> /\ Top.base = End(Top') /\ MayCall(Top', Top) /\ Top.base \in Nat
  BY BelowThunk
<1>3. Top'.kind = "compiled"
  BY <1>1, <1>2 DEF MayCall, Interop
<1>4. sp' = End(Top') /\ sp' \in Nat
  BY <1>1, <1>2
<1>5. Placed'
  BY <1>1, <1>2, <1>3, <1>4 DEF Placed, Passing, Answers
<1> QED BY <1>2, <1>5 DEF StackInv

(* An exception passes native frames, which keep their units: the thunk    *)
(* below, or the page's call, gives them back.                             *)
LEMMA Unwound == ASSUME StackInv, Unwind, Top.kind = "managed" PROVE StackInv'
<1>0. frames # <<>> /\ answer = "error" /\ Pop
  BY DEF Unwind, Gets
<1>1. memory \in Cells /\ Chained(frames) /\ sp \in Nat
  BY DEF StackInv, Placed
<1>2. Len(frames) = 1 \/ (Len(frames) > 1 /\ Len(frames) # 1)
  BY <1>0, <1>1, OneOrMore
<1>3. CASE Len(frames) = 1
  <2>1. answer' = "none" /\ sp' = 0 /\ memory' = Scribbled(memory, 0)
    BY <1>3 DEF Unwind
  <2>2. memory' \in Cells
    BY <1>1, <2>1, ScribbledKeeps
  <2>3. Chained(frames)' /\ Live(frames, memory)' /\ (frames' # <<>> => Len(frames) > 1)
    BY <1>0, <1>3, <2>2, Popped
  <2>4. frames' = <<>>
    BY <1>3, <2>3
  <2>5. Placed'
    BY <2>1, <2>4 DEF Placed, Answers
  <2> QED BY <2>2, <2>3, <2>5 DEF StackInv
<1>4. CASE Len(frames) > 1 /\ Len(frames) # 1
  <2>1. UNCHANGED <<answer, sp, memory>>
    BY <1>4 DEF Unwind
  <2>2. /\ Chained(frames)' /\ Live(frames, memory)' /\ memory' \in Cells
        /\ frames' # <<>> /\ MayCall(Top', Top)
    BY <1>0, <1>1, <1>4, <2>1, Popped
  <2>3. Top'.kind = "thunk"
    BY <2>2 DEF MayCall, Interop
  <2>4. Placed'
    BY <1>0, <1>1, <2>1, <2>2, <2>3 DEF Placed, Passing, Answers
  <2> QED BY <2>2, <2>4 DEF StackInv
<1> QED BY <1>2, <1>3, <1>4

(* Nothing has been called yet.                                            *)
LEMMA StackInvInit == Init => StackInv
<1> SUFFICES ASSUME Init PROVE StackInv
  OBVIOUS
<1>1. frames = <<>> /\ answer = "none" /\ sp = 0 /\ memory = [a \in 0 .. StackUnits - 1 |-> <<>>]
  BY DEF Init
<1>2. memory \in Cells
  <2>1. <<>> \in Seq(Int)
    OBVIOUS
  <2> QED BY <1>1, <2>1 DEF Cells
<1>3. <<>> \in Seq(Records) /\ Len(<<>>) = 0
  OBVIOUS
<1>4. Chained(frames)
  BY <1>1, <1>3 DEF Chained
<1>5. Live(frames, memory)
  BY <1>1, <1>3 DEF Live
<1>6. Placed
  BY <1>1 DEF Placed, Answers
<1> QED BY <1>2, <1>4, <1>5, <1>6 DEF StackInv

(* Every step keeps the stack in order.                                    *)
LEMMA StackInvStep == StackInv /\ [Next]_vars => StackInv'
<1> SUFFICES ASSUME StackInv, [Next]_vars PROVE StackInv'
  OBVIOUS
<1>1. CASE PageCalls
  BY <1>1, FromThePage
<1>2. CASE InvokeJSUnmarshalled
  <2>1. /\ frames # <<>> /\ answer = "none" /\ Top.kind = "managed"
        /\ frames' = Append(frames, Frame("unmarshalled", <<>>, NoFlag))
        /\ UNCHANGED <<answer, sp, memory>>
    BY <1>2 DEF InvokeJSUnmarshalled, Runs, Push
  <2>2. "unmarshalled" \in Interop /\ <<>> \in Seq(Int)
    BY DEF Interop
  <2> QED BY <2>1, <2>2, Calls
<1>3. CASE FindJSFunction
  <2>1. /\ frames # <<>> /\ answer = "none" /\ Top.kind \in Interop
        /\ UNCHANGED <<sp, memory>>
    BY <1>3 DEF FindJSFunction, Runs, Interop
  <2>2. CASE answer' = "error" /\ UNCHANGED frames
    BY <2>1, <2>2, Stays
  <2>3. CASE /\ \E kind \in {"compiled", "script"} : Push(Frame(kind, <<>>, NoFlag))
             /\ UNCHANGED answer
    <3>1. PICK kind \in {"compiled", "script"} : frames' = Append(frames, Frame(kind, <<>>, NoFlag))
      BY <2>3 DEF Push
    <3>2. <<>> \in Seq(Int)
      OBVIOUS
    <3> QED BY <2>1, <2>3, <3>1, <3>2, Calls
  <2> QED BY <1>3, <2>2, <2>3 DEF FindJSFunction
<1>4. CASE InvokeJSMarshalled
  <2>1. /\ frames # <<>> /\ answer = "none" /\ Top.kind = "managed" /\ UNCHANGED <<sp, memory>>
    BY <1>4 DEF InvokeJSMarshalled, Runs
  <2>2. CASE answer' = "error" /\ UNCHANGED frames
    BY <2>1, <2>2, Stays
  <2>3. CASE (\E handle \in Handles : Push(Frame("marshalled", <<handle>>, NoFlag))) /\ UNCHANGED answer
    <3>1. PICK handle \in Handles : frames' = Append(frames, Frame("marshalled", <<handle>>, NoFlag))
      BY <2>3 DEF Push
    <3>2. <<handle>> \in Seq(Int)
      BY HandlesAssumption
    <3>3. "marshalled" \in Interop
      BY DEF Interop
    <3> QED BY <2>1, <2>3, <3>1, <3>2, <3>3, Calls
  <2> QED BY <1>4, <2>2, <2>3 DEF InvokeJSMarshalled
<1>5. CASE DispatchMarshalled
  <2>1. /\ frames # <<>> /\ answer = "none" /\ Top.kind \in Interop /\ Top.kind \notin {"managed", "thunk"}
        /\ UNCHANGED <<sp, memory>>
    BY <1>5 DEF DispatchMarshalled, Runs, Interop
  <2>2. CASE answer' = "error" /\ UNCHANGED frames
    BY <2>1, <2>2, Stays
  <2>3. CASE Pop /\ answer' = "value"
    BY <2>1, <2>3, Returns
  <2>4. CASE Push(Frame("script", <<>>, NoFlag)) /\ UNCHANGED answer
    <3>1. frames' = Append(frames, Frame("script", <<>>, NoFlag)) /\ <<>> \in Seq(Int)
      BY <2>4 DEF Push
    <3> QED BY <2>1, <2>4, <3>1, Calls
  <2> QED BY <1>5, <2>2, <2>3, <2>4 DEF DispatchMarshalled
<1>6. CASE FunctionEnds
  <2>1. /\ frames # <<>> /\ Top.kind \in {"compiled", "script"} /\ Pop /\ UNCHANGED <<sp, memory>>
        /\ answer' \in {"value", "error", "other"}
    BY <1>6 DEF FunctionEnds, Runs
  <2>2. Top.kind \notin Interop /\ Top.kind \notin {"managed", "thunk"}
    BY <2>1 DEF Interop
  <2> QED BY <2>1, <2>2, Returns
<1>7. CASE InteropReturns
  <2>1. /\ frames # <<>> /\ Top.kind \in Interop /\ Pop /\ UNCHANGED <<sp, memory>>
        /\ answer' \in {"value", "message", "error"}
    BY <1>7 DEF InteropReturns, Gets, Caught
  <2>2. Top.kind \notin {"managed", "thunk"}
    BY <2>1 DEF Interop
  <2> QED BY <2>1, <2>2, Returns
<1>8. CASE ManagedGoesOn
  <2>1. /\ frames # <<>> /\ Top.kind = "managed" /\ answer # "error" /\ answer' = "none"
        /\ UNCHANGED <<frames, sp, memory>>
    BY <1>8 DEF ManagedGoesOn, Gets
  <2> QED BY <2>1, Stays
<1>9. CASE CallInterpreterMethod
  BY <1>9, FromCompiledCode
<1>10. CASE FinishInterpreterCall
  BY <1>10, BackInThunk
<1>11. CASE CompiledGoesOn
  <2>1. /\ frames # <<>> /\ Top.kind = "compiled" /\ answer # "error" /\ answer' = "none"
        /\ UNCHANGED <<frames, sp, memory>>
    BY <1>11 DEF CompiledGoesOn, Gets
  <2> QED BY <2>1, Stays
<1>12. CASE ManagedReturns
  BY <1>12, BackFromManaged
<1>15. CASE ManagedThrows
  BY <1>15, ThrowsInManaged
<1>13. CASE Unwind
  <2>1. /\ frames # <<>> /\ Top.kind \in {"compiled", "managed"} /\ answer = "error" /\ Pop
    BY <1>13 DEF Unwind, Gets
  <2>2. CASE Top.kind = "managed"
    BY <1>13, <2>2, Unwound
  <2>3. CASE Top.kind = "compiled"
    <3>1. Top.kind \notin {"managed", "thunk"} /\ Top.kind \notin Interop
      BY <2>3 DEF Interop
    <3>2. Len(frames) # 1
      BY <2>1, <3>1, OnTop DEF StackInv, Top
    <3>3. UNCHANGED <<answer, sp, memory>>
      BY <1>13, <3>2 DEF Unwind
    <3> QED BY <2>1, <3>1, <3>3, Returns
  <2> QED BY <2>1, <2>2, <2>3
<1>14. CASE UNCHANGED vars
  BY <1>14 DEF vars, StackInv, Placed, Passing, Top
<1> QED BY <1>1, <1>2, <1>3, <1>4, <1>5, <1>6, <1>7, <1>8, <1>9, <1>10, <1>11, <1>12, <1>13, <1>14, <1>15 DEF Next

(* The stack invariant holds throughout.                                   *)
LEMMA StackAlways == Spec => []StackInv
<1> QED BY StackInvInit, StackInvStep, PTL DEF Spec

(* Whatever the arguments and however deep calls nest, the frame that goes *)
(* on after a call - returned, failed in .NET, trapped, or passed by a     *)
(* JavaScript exception - has the stack pointer it had before: the finally *)
(* block of callInterpreterMethod gives back what native frames below it   *)
(* did not.                                                                *)
THEOREM FrameAlwaysOwnsStack == Spec => []FrameOwnsStack
<1>1. StackInv => FrameOwnsStack
  <2> SUFFICES ASSUME StackInv PROVE FrameOwnsStack
    OBVIOUS
  <2>1. CASE frames = <<>>
    BY <2>1 DEF StackInv, Placed, FrameOwnsStack
  <2>2. ASSUME frames # <<>>, answer = "none" PROVE sp = Top.base + StackSize(Top)
    <3>1. sp = End(Top) /\ Top.base \in Nat
      BY <2>2, OnTopNow
    <3>2. Top.kind # "thunk"
      BY <2>2 DEF StackInv, Placed
    <3> QED BY <3>1, <3>2, UnitsAssumption DEF End, Room, StackSize
  <2> QED BY <2>1, <2>2 DEF FrameOwnsStack
<1> QED BY <1>1, StackAlways, PTL

(* A method called from compiled code gets the arguments of the call, and  *)
(* pointers and arguments stay as callInterpreterMethod wrote them for as  *)
(* long as the call lasts.  The flag is 1 from the moment the method has   *)
(* thrown, also while code that describes the exception runs and calls     *)
(* back and forth itself, and 0 until then.                                *)
THEOREM LiveCallsAlwaysIntact == Spec => []LiveCallsIntact
<1>1. StackInv => LiveCallsIntact
  <2> SUFFICES ASSUME StackInv, NEW i \in 1 .. Len(frames) - 1, frames[i].kind = "thunk"
               PROVE  /\ frames[i + 1].args = frames[i].args
                      /\ memory[frames[i].flag] = <<frames[i + 1].threw>>
                      /\ \A j \in DOMAIN frames[i].args :
                           memory[memory[frames[i].base][j]] = <<frames[i].args[j]>>
    BY DEF LiveCallsIntact
  <2>1. Chained(frames) /\ Intact(frames[i], frames[i + 1].threw, memory)
    BY DEF StackInv, Live
  <2>2. Len(frames) \in Nat
    BY <2>1 DEF Chained
  <2>3. i \in 1 .. Len(frames) /\ i < Len(frames)
    BY <2>2
  <2>4. frames[i] \in Records /\ frames[i + 1].args = frames[i].args
    BY <2>1, <2>3, ThunkFlag
  <2>5. ASSUME NEW j \in DOMAIN frames[i].args
        PROVE  memory[memory[frames[i].base][j]] = <<frames[i].args[j]>>
    <3>1. frames[i].args # <<>>
      BY <2>4 DEF Records
    <3>2. memory[frames[i].base][j] = frames[i].flag + j
      BY <2>1, <3>1 DEF Intact
    <3> QED BY <2>1, <3>2 DEF Intact
  <2> QED BY <2>1, <2>4, <2>5 DEF Intact
<1> QED BY <1>1, StackAlways, PTL

(* What NativeNotUnwound needs beside the order of the frames: where an    *)
(* exception without properties can come from.                             *)
NativeInv ==
  /\ StackInv
  /\ answer = "other" => ~host.throwsOnlyErrors
  /\ NativeNotUnwound

(* The global object is found if either name is its name.                  *)
LEMMA GlobalFound == "real" \in {host.global, host.window} => HasGlobal
<1>1. "global" # "unset" /\ "window" # "unset"
  OBVIOUS
<1>2. host["global"] = host.global /\ host["window"] = host.window
  OBVIOUS
<1> QED BY <1>1, <1>2 DEF HasGlobal, GetGlobal, TestGlobal

(* No step lets an exception into the interpreter's frames, on a page that *)
(* has its global object and scripts that throw Errors.                    *)
LEMMA NativeInvStep == NativeInv /\ [Next]_vars => NativeInv'
<1> SUFFICES ASSUME NativeInv, [Next]_vars PROVE NativeInv'
  OBVIOUS
<1>1. StackInv /\ StackInv'
  BY StackInvStep DEF NativeInv
<1>2. host' = host
  BY DEF Next, PageCalls, InvokeJSUnmarshalled, FindJSFunction, InvokeJSMarshalled, DispatchMarshalled,
         FunctionEnds, InteropReturns, ManagedGoesOn, CallInterpreterMethod, FinishInterpreterCall,
         CompiledGoesOn, ManagedThrows, ManagedReturns, Unwind, vars
<1> DEFINE Safe == "real" \in {host.global, host.window} /\ host.throwsOnlyErrors
           Bad == Gets({"managed"}, {"error", "other"})
           Goal == (answer' = "other" => ~host.throwsOnlyErrors) /\ (Safe => ~Bad')
<1>3. (answer = "other" => ~host.throwsOnlyErrors) /\ (Safe => ~Bad)
  BY DEF NativeInv, NativeNotUnwound
<1>4. SUFFICES Goal
  BY <1>1, <1>2 DEF NativeInv, NativeNotUnwound
<1>5. ASSUME answer' \notin {"error", "other"} PROVE Goal
  BY <1>5 DEF Gets
<1>6. ASSUME UNCHANGED <<frames, answer>> PROVE Goal
  BY <1>3, <1>6 DEF Gets, Top
<1>7. ASSUME answer' = "error", frames' # <<>> => Top'.kind # "managed" PROVE Goal
  BY <1>7 DEF Gets
<1> HIDE DEF Safe, Bad, Goal
<1>8. CASE PageCalls
  BY <1>1, <1>5, <1>8 DEF PageCalls, StackInv, Placed
<1>9. CASE InvokeJSUnmarshalled
  BY <1>5, <1>9 DEF InvokeJSUnmarshalled, Runs
<1>10. CASE FindJSFunction
  <2>1. answer = "none" /\ Top.kind = "unmarshalled"
    BY <1>10 DEF FindJSFunction, Runs
  <2>2. CASE answer' = "error" /\ UNCHANGED frames
    BY <1>7, <2>1, <2>2 DEF Top
  <2>3. CASE UNCHANGED answer
    BY <1>5, <2>1, <2>3
  <2> QED BY <1>10, <2>2, <2>3 DEF FindJSFunction
<1>11. CASE InvokeJSMarshalled
  <2>1. answer = "none"
    BY <1>11 DEF InvokeJSMarshalled, Runs
  <2>2. CASE ~HasGlobal /\ answer' = "error"
    <3>1. ~Safe
      BY <2>2, GlobalFound DEF Safe
    <3> QED BY <2>2, <3>1 DEF Goal
  <2>3. CASE UNCHANGED answer
    BY <1>5, <2>1, <2>3
  <2> QED BY <1>11, <2>2, <2>3 DEF InvokeJSMarshalled
<1>12. CASE DispatchMarshalled
  <2>1. answer = "none" /\ Top.kind = "marshalled"
    BY <1>12 DEF DispatchMarshalled, Runs
  <2>2. CASE answer' = "error" /\ UNCHANGED frames
    BY <1>7, <2>1, <2>2 DEF Top
  <2>3. CASE answer' \in {"value", "none"}
    BY <1>5, <2>3
  <2> QED BY <1>12, <2>1, <2>2, <2>3 DEF DispatchMarshalled
<1>13. CASE FunctionEnds
  <2>1. /\ frames # <<>> /\ Top.kind \in {"compiled", "script"} /\ Pop /\ UNCHANGED memory
        /\ answer' \in {"value", "error", "other"}
        /\ answer' = "other" => ~host.throwsOnlyErrors
    BY <1>13 DEF FunctionEnds, Runs
  <2>2. frames' # <<>> => MayCall(Top', Top)
    BY <1>1, <2>1, Popped DEF StackInv
  <2>3. frames' # <<>> => Top'.kind # "managed"
    BY <2>1, <2>2 DEF MayCall, Interop
  <2>4. CASE answer' = "other"
    BY <2>1, <2>4 DEF Goal, Safe
  <2> QED BY <1>5, <1>7, <2>1, <2>3, <2>4
<1>14. CASE InteropReturns
  <2>1. /\ answer' \in {"value", "message", "error"}
        /\ answer' = "error" => answer = "other"
    BY <1>14 DEF InteropReturns, Gets, Caught
  <2>2. CASE answer' = "error"
    BY <1>3, <2>1, <2>2 DEF Goal, Safe
  <2>3. CASE answer' # "error"
    BY <1>5, <2>1, <2>3
  <2> QED BY <2>2, <2>3
<1>15. CASE ManagedGoesOn
  BY <1>5, <1>15 DEF ManagedGoesOn
<1>16. CASE CallInterpreterMethod
  <2>1. answer = "none" /\ Top.kind = "compiled"
    BY <1>16 DEF CallInterpreterMethod, Runs
  <2>2. CASE answer' = "error" /\ UNCHANGED frames
    BY <1>7, <2>1, <2>2 DEF Top
  <2>3. CASE UNCHANGED answer
    BY <1>5, <2>1, <2>3
  <2> QED BY <1>16, <2>2, <2>3 DEF CallInterpreterMethod
<1>17. CASE FinishInterpreterCall
  <2>1. /\ frames # <<>> /\ Top.kind = "thunk" /\ Pop
        /\ memory' = Scribbled(memory, Top.base)
        /\ answer' \in {"error", "value"}
    BY <1>17 DEF FinishInterpreterCall, Gets, Restored
  <2>2. frames' # <<>> => Top'.kind # "managed"
    <3>1. frames' # <<>> => MayCall(Top', Top)
      BY <1>1, <1>17, BelowThunk
    <3> QED BY <2>1, <3>1 DEF MayCall, Interop
  <2> QED BY <1>5, <1>7, <2>1, <2>2
<1>18. CASE CompiledGoesOn
  BY <1>5, <1>18 DEF CompiledGoesOn
<1>19. CASE ManagedReturns
  BY <1>5, <1>19 DEF ManagedReturns
<1>22. CASE ManagedThrows
  BY <1>5, <1>22 DEF ManagedThrows, Runs
<1>20. CASE Unwind
  <2>1. frames # <<>> /\ Top.kind \in {"compiled", "managed"} /\ answer = "error"
    BY <1>20 DEF Unwind, Gets
  <2>2. CASE Top.kind = "managed"
    <3>1. Bad
      BY <2>1, <2>2 DEF Bad, Gets
    <3>2. ~Safe /\ answer' \in {"none", "error"}
      BY <1>3, <1>20, <2>1, <3>1 DEF Unwind
    <3> QED BY <3>2 DEF Goal
  <2>3. CASE Top.kind = "compiled"
    <3>0. Top.kind \notin {"managed", "thunk"}
      BY <2>3
    <3>1. Len(frames) # 1
      BY <1>1, <2>1, <3>0, OnTop DEF StackInv, Top
    <3>2. Pop /\ UNCHANGED <<answer, sp, memory>>
      BY <1>20, <3>1 DEF Unwind
    <3>3. frames' # <<>> => MayCall(Top', Top)
      BY <1>1, <2>1, <3>2, Popped DEF StackInv
    <3>4. frames' # <<>> => Top'.kind # "managed"
      BY <2>3, <3>3 DEF MayCall, Interop
    <3> QED BY <1>7, <2>1, <3>2, <3>4
  <2> QED BY <2>1, <2>2, <2>3
<1>21. CASE UNCHANGED vars
  BY <1>6, <1>21 DEF vars
<1> QED BY <1>8, <1>9, <1>10, <1>11, <1>12, <1>13, <1>14, <1>15, <1>16, <1>17, <1>18, <1>19, <1>20, <1>21,
        <1>22 DEF Next

(* On a page that has its global object, whose scripts throw Errors, every *)
(* JavaScript exception is caught before it reaches the frames of the      *)
(* interpreter, however deep it was thrown.                                *)
THEOREM NativeNeverUnwound == Spec => []NativeNotUnwound
<1>1. Init => NativeInv
  <2>1. Init => frames = <<>> /\ answer = "none"
    BY DEF Init
  <2> QED BY <2>1, StackInvInit DEF NativeInv, NativeNotUnwound, Gets
<1>2. NativeInv => NativeNotUnwound
  BY DEF NativeInv
<1> QED BY <1>1, <1>2, NativeInvStep, PTL DEF Spec
-----------------------------------------------------------------------------
(* What TypeOK needs beside the order of the frames, and the call that is  *)
(* waiting for its dispatch.                                               *)
CallInv ==
  /\ host \in Hosts
  /\ dotnetGlobal \in {"unset"} \cup {name \in {"global", "window"} : host[name] = "real"}
  /\ Len(frames) <= MaxDepth
  /\ sp <= StackUnits
  /\ DispatchedByHandle

(* A name is kept only if it is the global object's.                       *)
LEMMA GlobalKept ==
  ASSUME CallInv, dotnetGlobal' \in {dotnetGlobal, GetGlobal}, host' = host
  PROVE  dotnetGlobal' \in {"unset"} \cup {name \in {"global", "window"} : host'[name] = "real"}
BY DEF CallInv, GetGlobal, TestGlobal

(* The two words of a handle make up the handle again.  A handle that is a *)
(* double stays what it is; none but 0 becomes 0, since a large one is     *)
(* nearer to Exact.                                                        *)
LEMMA HandleNumberExact ==
  ASSUME NEW handle \in Handles, NEW number \in HandleNumbers(handle)
  PROVE  (handle < Exact => number = handle) /\ (number # 0 <=> handle # 0)
<1>1. handle \in Nat /\ Word \in Nat /\ Word # 0 /\ Exact \in Nat /\ Exact # 0
  BY HandlesAssumption, DoublesAssumption
<1>2. \A h, w \in Nat : w # 0 => (h \div w) * w + (h % w) = h OBVIOUS
<1>3. (handle \div Word) * Word + (handle % Word) = handle
  BY <1>1, <1>2
<1>4. number \in Doubles(handle)
  BY <1>3 DEF HandleNumbers
<1>5. /\ number \in 0 .. 2 * handle /\ IsDouble(number)
      /\ \A z \in 0 .. 2 * handle : IsDouble(z) => Distance(handle, number) <= Distance(handle, z)
  BY <1>4 DEF Doubles
<1>6. ASSUME NEW y \in 0 .. Exact PROVE IsDouble(y)
  <2>1. y = y * 1 /\ 1 \in Spacings
    BY <1>1, DoublesAssumption
  <2> QED BY <2>1 DEF IsDouble
<1>7. number \in Nat
  BY <1>1, <1>5
<1>8. ASSUME handle < Exact PROVE number = handle
  <2>1. handle \in 0 .. Exact /\ handle \in 0 .. 2 * handle
    BY <1>1, <1>8
  <2>2. Distance(handle, number) <= Distance(handle, handle)
    BY <1>5, <1>6, <2>1
  <2>3. Distance(handle, handle) = 0
    BY <1>1 DEF Distance
  <2> QED BY <1>1, <1>7, <2>2, <2>3 DEF Distance
<1>9. ASSUME ~(handle < Exact) PROVE number # 0
  <2>1. Exact \in 0 .. Exact /\ Exact \in 0 .. 2 * handle
    BY <1>1, <1>9
  <2>2. Distance(handle, number) <= Distance(handle, Exact)
    BY <1>5, <1>6, <2>1
  <2>3. Distance(handle, Exact) = handle - Exact
    BY <1>1, <1>9 DEF Distance
  <2>4. SUFFICES ASSUME number = 0 PROVE FALSE
    OBVIOUS
  <2>5. Distance(handle, number) = handle
    BY <1>1, <2>4 DEF Distance
  <2> QED BY <1>1, <2>2, <2>3, <2>5
<1> QED BY <1>1, <1>8, <1>9

(* Every step keeps within the bounds, and dispatches what it was given.   *)
LEMMA CallInvStep == StackInv /\ CallInv /\ [Next]_vars => CallInv'
<1> SUFFICES ASSUME StackInv, CallInv, [Next]_vars PROVE CallInv'
  OBVIOUS
<1>1. host' = host /\ dotnetGlobal' \in {dotnetGlobal, GetGlobal}
  BY DEF Next, PageCalls, InvokeJSUnmarshalled, FindJSFunction, InvokeJSMarshalled, DispatchMarshalled,
         FunctionEnds, InteropReturns, ManagedGoesOn, CallInterpreterMethod, FinishInterpreterCall,
         CompiledGoesOn, ManagedThrows, ManagedReturns, Unwind, vars
<1>2. dotnetGlobal' \in {"unset"} \cup {name \in {"global", "window"} : host'[name] = "real"}
  BY <1>1, GlobalKept
<1>3. host' \in Hosts BY <1>1 DEF CallInv
<1>4. Len(frames) \in Nat /\ frames \in Seq(Records) /\ sp \in Nat /\ MaxDepth \in Nat
  BY UnitsAssumption DEF StackInv, Chained, Placed
<1>5. frames # <<>> => Len(frames) > 0 /\ Top \in Records /\ Top.base <= StackUnits
  <2> SUFFICES ASSUME frames # <<>>
               PROVE  Len(frames) > 0 /\ Top \in Records /\ Top.base <= StackUnits
    OBVIOUS
  <2>1. Len(frames) > 0 /\ Top \in Records /\ End(Top) <= StackUnits
    BY OnTop DEF StackInv, Top
  <2>2. Top.base \in Nat /\ End(Top) \in Nat /\ Top.base <= End(Top) BY <2>1, EndIsNat
  <2> QED BY <2>1, <2>2, UnitsAssumption
<1>6. \/ frames' = frames
      \/ frames' = [frames EXCEPT ![Len(frames)].threw = 1]
      \/ frames # <<>> /\ Pop
      \/ \E f : frames' = Append(frames, f) /\ Len(frames) < MaxDepth
      \/ \E f, g : frames' = Append(Append(frames, f), g) /\ Len(frames) + 2 <= MaxDepth
  BY DEF Next, PageCalls, InvokeJSUnmarshalled, FindJSFunction, InvokeJSMarshalled, DispatchMarshalled,
         FunctionEnds, InteropReturns, ManagedGoesOn, CallInterpreterMethod, FinishInterpreterCall,
         CompiledGoesOn, ManagedThrows, ManagedReturns, Unwind, vars, Push, Gets, Runs
<1>7. Len(frames') <= MaxDepth
  <2>1. CASE frames' = frames BY <2>1 DEF CallInv
  <2>5. CASE frames' = [frames EXCEPT ![Len(frames)].threw = 1]
    <3>1. Len(frames') = Len(frames) BY <1>4, <2>5
    <3> QED BY <3>1 DEF CallInv
  <2>2. CASE frames # <<>> /\ Pop
    <3>1. Len(SubSeq(frames, 1, Len(frames) - 1)) = Len(frames) - 1
      BY <2>2, ChainedPop DEF StackInv
    <3> QED BY <1>4, <2>2, <3>1 DEF Pop, CallInv
  <2>3. ASSUME NEW f, frames' = Append(frames, f), Len(frames) < MaxDepth PROVE Len(frames') <= MaxDepth
    <3>1. Len(Append(frames, f)) = Len(frames) + 1 BY <1>4
    <3> QED BY <1>4, <2>3, <3>1
  <2>4. ASSUME NEW f, NEW g, frames' = Append(Append(frames, f), g), Len(frames) + 2 <= MaxDepth
        PROVE  Len(frames') <= MaxDepth
    <3>1. frames \in Seq(Records \cup {f}) BY <1>4
    <3>2. Append(frames, f) \in Seq(Records \cup {f}) /\ Len(Append(frames, f)) = Len(frames) + 1
      BY <3>1
    <3>3. Len(Append(Append(frames, f), g)) = Len(frames) + 2 BY <1>4, <3>2
    <3> QED BY <2>4, <3>3
  <2> QED BY <1>6, <2>1, <2>2, <2>3, <2>4, <2>5
<1>8. sp' <= StackUnits
  <2>1. CASE sp' = sp BY <2>1 DEF CallInv
  <2>2. CASE sp' = 0 BY <2>2, UnitsAssumption
  <2>3. CASE frames # <<>> /\ sp' = Top.base BY <1>5, <2>3
  <2>4. CASE PageCalls BY <2>4 DEF PageCalls
  <2>5. CASE CallInterpreterMethod BY <2>5 DEF CallInterpreterMethod, CallInv
  <2>6. sp' \in {sp, 0} \/ (frames # <<>> /\ sp' = Top.base) \/ PageCalls \/ CallInterpreterMethod
    BY DEF Next, InvokeJSUnmarshalled, FindJSFunction, InvokeJSMarshalled, DispatchMarshalled,
           FunctionEnds, InteropReturns, ManagedGoesOn, FinishInterpreterCall, CompiledGoesOn,
           ManagedThrows, ManagedReturns, Unwind, vars, Runs, Gets, Restored
  <2> QED BY <2>1, <2>2, <2>3, <2>4, <2>5, <2>6
<1>9. DispatchedByHandle'
  <2>1. CASE dispatch' = dispatch BY <2>1 DEF CallInv, DispatchedByHandle
  <2>2. CASE dispatch' = NoDispatch BY <2>2 DEF NoDispatch, DispatchedByHandle
  <2>3. ASSUME NEW handle \in Handles, NEW number \in HandleNumbers(handle),
               dispatch' = [handle |-> handle, number |-> number, async |-> number # 0]
        PROVE  DispatchedByHandle'
    BY <2>3, HandleNumberExact DEF DispatchedByHandle
  <2>4. CASE InvokeJSMarshalled BY <2>1, <2>3, <2>4 DEF InvokeJSMarshalled
  <2>5. dispatch' \in {dispatch, NoDispatch} \/ InvokeJSMarshalled
    BY DEF Next, PageCalls, InvokeJSUnmarshalled, FindJSFunction, DispatchMarshalled,
           FunctionEnds, InteropReturns, ManagedGoesOn, CallInterpreterMethod, FinishInterpreterCall,
           CompiledGoesOn, ManagedThrows, ManagedReturns, Unwind, vars
  <2> QED BY <2>1, <2>2, <2>4, <2>5
<1> QED BY <1>2, <1>3, <1>7, <1>8, <1>9 DEF CallInv

(* The bounds hold from the start.                                         *)
LEMMA CallInvAlways == Spec => []CallInv
<1>1. Init => CallInv
  <2> SUFFICES ASSUME Init PROVE CallInv
    OBVIOUS
  <2>1. dispatch = NoDispatch BY DEF Init
  <2>2. DispatchedByHandle BY <2>1 DEF DispatchedByHandle, NoDispatch
  <2>3. frames = <<>> /\ sp = 0 /\ host \in Hosts /\ dotnetGlobal = "unset" BY DEF Init
  <2>4. Len(frames) = 0 BY <2>3
  <2> QED BY <2>2, <2>3, <2>4, UnitsAssumption DEF CallInv
<1> QED BY <1>1, CallInvStep, StackAlways, PTL DEF Spec

(* The types of a page's calls: no frame begins beyond the stack, and the  *)
(* name the global object is kept under is one of its names.               *)
THEOREM InteropTypeCorrect == Spec => []TypeOK
<1>1. StackInv /\ CallInv => TypeOK
  <2> SUFFICES ASSUME StackInv, CallInv PROVE TypeOK
    OBVIOUS
  <2>1. ASSUME NEW i \in DOMAIN frames
        PROVE  frames[i].kind \in Kinds /\ frames[i].base \in 0 .. StackUnits
    <3>1. i \in 1 .. Len(frames) /\ frames[i] \in Records BY DEF StackInv, Chained
    <3>2. End(frames[i]) <= StackUnits BY <3>1 DEF StackInv, Chained
    <3>3. frames[i].base \in Nat /\ frames[i].base <= End(frames[i]) /\ End(frames[i]) \in Nat
      BY <3>1, EndIsNat
    <3>4. frames[i].base \in 0 .. StackUnits BY <3>2, <3>3, UnitsAssumption
    <3> QED BY <3>1, <3>4 DEF Records
  <2>2. sp \in 0 .. StackUnits /\ answer \in Answers
    BY UnitsAssumption DEF StackInv, Placed, CallInv
  <2> QED BY <2>1, <2>2 DEF CallInv, TypeOK
<1> QED BY <1>1, CallInvAlways, StackAlways, PTL

(* Reading a handle as two words and putting them together in doubles      *)
(* gives the handle .NET meant, for every one below the precision of       *)
(* doubles, whatever that is, and of those above it none is rounded to 0:  *)
(* an asynchronous call never turns into a synchronous one, nor the other  *)
(* way round.                                                              *)
THEOREM AlwaysDispatchedByHandle == Spec => []DispatchedByHandle
<1>1. CallInv => DispatchedByHandle BY DEF CallInv
<1> QED BY <1>1, CallInvAlways, PTL
=============================================================================
