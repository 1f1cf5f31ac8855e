------------------------- MODULE MonoSupportProofs --------------------------
(***************************************************************************)
(* pump_count, for any number of timeouts and requests and on every        *)
(* platform.                                                               *)
(***************************************************************************)
EXTENDS MonoSupport, MonoDebugger, FiniteSetTheorems, TLAPS

(* What the steps need of the types.                                       *)
PumpTypes ==
  /\ platform \in Platforms
  /\ pumpCount \in Int
  /\ timeoutQueue \in Seq(Ids)
  /\ pumpTimers \in Nat
  /\ pumping \in {0, 1, 2}
  /\ requested \in Nat /\ executed \in Nat

(* A call of pump_message has used its timer up, and makes up for it by    *)
(* the first round of its second loop.                                     *)
Owed == IF pumping # 0 /\ running = "none" THEN 1 ELSE 0

PumpInv ==
  /\ PumpTypes
  /\ CountIsOutstanding
  /\ platform = "web" =>
       /\ timeoutQueue = <<>>
       /\ 0 <= pumpCount /\ pumpCount <= pumpTimers + Owed

(* What each step of the runtime's event loop does to them.                *)
LEMMA PumpTypesKept ==
  ASSUME PumpTypes, [PumpNext]_pumpVars
  PROVE  PumpTypes'
<1> USE DEF PumpTypes
<1>1. CASE EnterPage BY <1>1 DEF EnterPage
<1>2. CASE Leave BY <1>2 DEF Leave
<1>3. CASE ScheduleBackgroundExec BY <1>3 DEF ScheduleBackgroundExec, OneMoreTimer
<1>4. ASSUME NEW id \in Ids, MonoSetTimeout(id) PROVE PumpTypes' BY <1>4 DEF MonoSetTimeout
<1>5. ASSUME NEW id \in Ids, TimeoutExec(id) PROVE PumpTypes' BY <1>5 DEF TimeoutExec
<1>6. CASE PumpMessage BY <1>6 DEF PumpMessage
<1>7. CASE RunTimeout BY <1>7 DEF RunTimeout
<1>8. CASE RunBackgroundExec BY <1>8 DEF RunBackgroundExec, CountDown
<1>9. CASE UNCHANGED pumpVars BY <1>9 DEF pumpVars
<1> QED BY <1>1, <1>2, <1>3, <1>4, <1>5, <1>6, <1>7, <1>8, <1>9 DEF PumpNext, PumpStep

(* The invariant is preserved: what a loop takes off the count it has run, *)
(* or given up a place in the queue for.                                   *)
LEMMA PumpInvKept ==
  ASSUME PumpInv, [PumpNext]_pumpVars
  PROVE  PumpInv'
<1>0. PumpTypes' BY PumpTypesKept DEF PumpInv
<1> USE <1>0 DEF PumpInv, PumpTypes, CountIsOutstanding, Owed
<1>1. CASE EnterPage BY <1>1 DEF EnterPage, Idle
<1>2. CASE Leave BY <1>2 DEF Leave
<1>3. CASE ScheduleBackgroundExec BY <1>3 DEF ScheduleBackgroundExec, OneMoreTimer
<1>4. ASSUME NEW id \in Ids, MonoSetTimeout(id) PROVE PumpInv' BY <1>4 DEF MonoSetTimeout
<1>5. ASSUME NEW id \in Ids, TimeoutExec(id) PROVE PumpInv' BY <1>5 DEF TimeoutExec, Idle
<1>6. CASE PumpMessage BY <1>6 DEF PumpMessage, Idle
<1>7. CASE RunTimeout BY <1>7 DEF RunTimeout
<1>8. CASE RunBackgroundExec BY <1>8 DEF RunBackgroundExec, CountDown
<1>9. CASE UNCHANGED pumpVars BY <1>9 DEF pumpVars
<1> QED BY <1>1, <1>2, <1>3, <1>4, <1>5, <1>6, <1>7, <1>8, <1>9 DEF PumpNext, PumpStep

(* The invariant holds from the start.                                     *)
LEMMA PumpInvAlways == PumpSpec => []PumpInv
<1>1. PumpInit => PumpInv
  BY DEF PumpInit, PumpInv, PumpTypes, CountIsOutstanding, Owed
<1>2. PumpInv /\ [PumpNext]_pumpVars => PumpInv'
  BY PumpInvKept
<1> QED BY <1>1, <1>2, PTL DEF PumpSpec

(* pump_count is the requests not executed and the timeouts queued, on     *)
(* every platform, whatever the background work schedules meanwhile.       *)
THEOREM CountAlwaysOutstanding == PumpSpec => []CountIsOutstanding
<1>1. PumpInv => CountIsOutstanding BY DEF PumpInv
<1> QED BY <1>1, PumpInvAlways, PTL

(* In a browser no unit of pump_count is without a timer.                  *)
THEOREM CountAlwaysCovered == PumpSpec => []TimersCoverCount
<1>1. PumpInv => TimersCoverCount
  BY DEF PumpInv, PumpTypes, TimersCoverCount, Owed
<1> QED BY <1>1, PumpInvAlways, PTL
-----------------------------------------------------------------------------
TimeoutsSet == {set[i] : i \in DOMAIN set}
TimeoutsFired == {fired[i] : i \in DOMAIN fired}

(* No id is set twice, and every id set waits in the one place the         *)
(* platform has for it, or has run.                                        *)
TimeoutInv ==
  /\ PumpInv
  /\ running \in {"none", "page", "exec", "timeout"}
  /\ set \in Seq(Ids) /\ fired \in Seq(Ids)
  /\ idTimers \subseteq Ids /\ IsFiniteSet(idTimers)
  /\ IsFiniteSet(TimeoutsSet) /\ Cardinality(TimeoutsSet) = Len(set)
  /\ TimeoutsRunOnce
  /\ pumpTimers <= requested /\ requested <= MaxRequests
  /\ executed <= requested + Len(set)

(* What an append does to the elements of a sequence.                      *)
LEMMA AppendedElements ==
  ASSUME NEW S, NEW s \in Seq(S), NEW e \in S
  PROVE  {Append(s, e)[i] : i \in DOMAIN Append(s, e)} = {s[i] : i \in DOMAIN s} \cup {e}
<1> DEFINE t == Append(s, e)
<1>1. t \in Seq(S) /\ Len(t) = Len(s) + 1 /\ Len(s) \in Nat OBVIOUS
<1>2. DOMAIN t = 1 .. Len(s) + 1 /\ DOMAIN s = 1 .. Len(s) BY <1>1
<1>3. t[Len(s) + 1] = e /\ \A i \in 1 .. Len(s) : t[i] = s[i] OBVIOUS
<1> HIDE DEF t
<1>4. ASSUME NEW x \in {t[i] : i \in DOMAIN t} PROVE x \in {s[i] : i \in DOMAIN s} \cup {e}
  <2>1. PICK i \in 1 .. Len(s) + 1 : x = t[i] BY <1>2
  <2>2. i = Len(s) + 1 \/ i \in 1 .. Len(s) BY <1>1
  <2> QED BY <1>2, <1>3, <2>1, <2>2
<1>5. ASSUME NEW x \in {s[i] : i \in DOMAIN s} PROVE x \in {t[i] : i \in DOMAIN t}
  <2>1. PICK i \in 1 .. Len(s) : x = s[i] BY <1>2
  <2>2. i \in DOMAIN t BY <1>1, <1>2
  <2> QED BY <1>3, <2>1, <2>2
<1>6. e \in {t[i] : i \in DOMAIN t}
  <2>1. Len(s) + 1 \in DOMAIN t BY <1>1, <1>2
  <2> QED BY <1>3, <2>1
<1>7. {t[i] : i \in DOMAIN t} = {s[i] : i \in DOMAIN s} \cup {e} BY <1>4, <1>5, <1>6
<1> QED BY <1>7 DEF t

(* Moving the head of a queue to the end of what was done keeps the two in *)
(* one order; so does adding to the queue.                                 *)
LEMMA QueueMoved ==
  ASSUME NEW S, NEW done \in Seq(S), NEW queue \in Seq(S), queue # <<>>
  PROVE  Append(done, Head(queue)) \o Tail(queue) = done \o queue
<1>1. Head(queue) \in S /\ Tail(queue) \in Seq(S) OBVIOUS
<1> QED BY <1>1

(* A message queued is the last of all.                                   *)
LEMMA QueueExtended ==
  ASSUME NEW S, NEW done \in Seq(S), NEW queue \in Seq(S), NEW e \in S
  PROVE  done \o Append(queue, e) = Append(done \o queue, e)
OBVIOUS

(* Setting a timeout adds its id to what was set and to where it waits.    *)
LEMMA TimeoutSet ==
  ASSUME TimeoutInv, PumpInv', NEW id \in Ids, MonoSetTimeout(id)
  PROVE  TimeoutInv'
<1> USE DEF TimeoutInv
<1>1. set' = Append(set, id) /\ set' \in Seq(Ids) /\ Len(set') = Len(set) + 1 /\ Len(set) \in Nat
  BY DEF MonoSetTimeout
<1>2. TimeoutsSet' = TimeoutsSet \cup {id} BY <1>1, AppendedElements DEF TimeoutsSet
<1>3. id \notin TimeoutsSet BY DEF MonoSetTimeout, TimeoutsSet
<1>4. IsFiniteSet(TimeoutsSet') /\ Cardinality(TimeoutsSet') = Len(set')
  <2>1. IsFiniteSet(TimeoutsSet) /\ Cardinality(TimeoutsSet) = Len(set) OBVIOUS
  <2>2. IsFiniteSet(TimeoutsSet \cup {id}) /\ Cardinality(TimeoutsSet \cup {id}) = Len(set) + 1
    BY <1>3, <2>1, FS_AddElement
  <2> QED BY <1>1, <1>2, <2>2
<1>5. UNCHANGED <<platform, pumpTimers, running, requested, executed, fired>> BY DEF MonoSetTimeout
<1>6. executed' <= requested' + Len(set') BY <1>1, <1>5 DEF PumpInv, PumpTypes
<1>7. CASE platform = "web"
  <2>1. idTimers' = idTimers \cup {id} BY <1>7 DEF MonoSetTimeout
  <2>2. TimeoutsSet = idTimers \cup TimeoutsFired BY <1>7 DEF TimeoutsRunOnce, TimeoutsSet, TimeoutsFired
  <2>3. IsFiniteSet(idTimers') /\ Cardinality(idTimers') = Cardinality(idTimers) + 1
    BY <1>3, <2>1, <2>2, FS_AddElement
  <2>4. TimeoutsSet' = idTimers' \cup TimeoutsFired' BY <1>2, <1>5, <2>1, <2>2 DEF TimeoutsFired
  <2>5. Cardinality(idTimers) \in Nat /\ Len(fired) \in Nat BY FS_CardinalityType
  <2>6. Len(set) = Cardinality(idTimers) + Len(fired) BY <1>7 DEF TimeoutsRunOnce
  <2>7. Len(set') = Cardinality(idTimers') + Len(fired') BY <1>1, <1>5, <2>3, <2>5, <2>6
  <2>8. TimeoutsRunOnce' BY <1>5, <1>7, <2>4, <2>7 DEF TimeoutsRunOnce, TimeoutsSet, TimeoutsFired
  <2> QED BY <1>1, <1>4, <1>5, <1>6, <2>1, <2>3, <2>8
<1>8. CASE platform # "web"
  <2>1. timeoutQueue' = Append(timeoutQueue, id) /\ idTimers' = idTimers BY <1>8 DEF MonoSetTimeout
  <2>2. timeoutQueue \in Seq(Ids) BY DEF PumpInv, PumpTypes
  <2>3. platform = "shell" => set' = fired' \o timeoutQueue'
    <3>1. fired \in Seq(Ids) OBVIOUS
    <3>2. fired \o Append(timeoutQueue, id) = Append(fired \o timeoutQueue, id)
      BY <2>2, <3>1, QueueExtended
    <3> QED BY <1>1, <1>5, <2>1, <3>2 DEF TimeoutsRunOnce
  <2>4. TimeoutsRunOnce' BY <1>5, <1>8, <2>3 DEF TimeoutsRunOnce
  <2> QED BY <1>1, <1>4, <1>5, <1>6, <2>1, <2>4
<1> QED BY <1>7, <1>8

(* A browser's timer takes its id from those that wait to those that ran.  *)
LEMMA TimeoutFired ==
  ASSUME TimeoutInv, PumpInv', NEW id \in Ids, TimeoutExec(id), platform = "web"
  PROVE  TimeoutInv'
<1> USE DEF TimeoutInv
<1>1. fired' = Append(fired, id) /\ idTimers' = idTimers \ {id} /\ id \in idTimers
      /\ UNCHANGED <<platform, pumpTimers, requested, executed, set>> /\ running' = "timeout"
  BY DEF TimeoutExec
<1>2. fired' \in Seq(Ids) /\ Len(fired') = Len(fired) + 1 /\ Len(fired) \in Nat BY <1>1
<1>3. TimeoutsFired' = TimeoutsFired \cup {id} BY <1>1, AppendedElements DEF TimeoutsFired
<1>4. IsFiniteSet(idTimers') /\ Cardinality(idTimers') = Cardinality(idTimers) - 1
  BY <1>1, FS_RemoveElement
<1>5. TimeoutsSet' = TimeoutsSet BY <1>1 DEF TimeoutsSet
<1>6. TimeoutsSet' = idTimers' \cup TimeoutsFired'
  BY <1>1, <1>3, <1>5 DEF TimeoutsRunOnce, TimeoutsSet, TimeoutsFired
<1>7. Cardinality(idTimers) \in Nat BY FS_CardinalityType
<1>8. Len(set) = Cardinality(idTimers) + Len(fired) BY DEF TimeoutsRunOnce
<1>9. Len(set') = Cardinality(idTimers') + Len(fired') BY <1>1, <1>2, <1>4, <1>7, <1>8
<1>10. TimeoutsRunOnce' BY <1>1, <1>6, <1>9 DEF TimeoutsRunOnce, TimeoutsSet, TimeoutsFired
<1> QED BY <1>1, <1>2, <1>4, <1>5, <1>10

(* Elsewhere the first loop of pump_message does it for the queue's head.  *)
LEMMA TimeoutRun ==
  ASSUME TimeoutInv, PumpInv', RunTimeout
  PROVE  TimeoutInv'
<1> USE DEF TimeoutInv
<1>1. UNCHANGED <<platform, pumpTimers, idTimers, requested, executed, set>> BY DEF RunTimeout
<1>2. TimeoutsSet' = TimeoutsSet BY <1>1 DEF TimeoutsSet
<1>3. CASE timeoutQueue = <<>>
  <2>1. UNCHANGED <<timeoutQueue, running, fired>> BY <1>3 DEF RunTimeout
  <2>2. TimeoutsRunOnce' BY <1>1, <2>1 DEF TimeoutsRunOnce
  <2> QED BY <1>1, <1>2, <2>1, <2>2
<1>4. CASE timeoutQueue # <<>>
  <2>1. timeoutQueue' = Tail(timeoutQueue) /\ fired' = Append(fired, Head(timeoutQueue))
        /\ running' = "timeout"
    BY <1>4 DEF RunTimeout, ShiftedTimeout
  <2>2. timeoutQueue \in Seq(Ids) /\ platform # "web" BY <1>4 DEF PumpInv, PumpTypes
  <2>3. fired' \in Seq(Ids) BY <1>4, <2>1, <2>2
  <2>4. fired' \o timeoutQueue' = fired \o timeoutQueue BY <1>4, <2>1, <2>2, QueueMoved
  <2>5. TimeoutsRunOnce' BY <1>1, <2>2, <2>4 DEF TimeoutsRunOnce
  <2> QED BY <1>1, <1>2, <2>1, <2>3, <2>5
<1> QED BY <1>3, <1>4

(* A browser's ids have timers, and only there.                            *)
TimersOfBrowsers == platform # "web" => idTimers = {}

(* No step sets a timer outside a browser.                                 *)
LEMMA TimersOfBrowsersKept ==
  ASSUME TimersOfBrowsers, [PumpNext]_pumpVars
  PROVE  TimersOfBrowsers'
BY DEF TimersOfBrowsers, PumpNext, PumpStep, pumpVars, EnterPage, Leave, ScheduleBackgroundExec,
       MonoSetTimeout, TimeoutExec, PumpMessage, RunTimeout, RunBackgroundExec

(* Every step keeps the account of the timeouts.                           *)
LEMMA TimeoutInvKept ==
  ASSUME TimeoutInv, TimersOfBrowsers, [PumpNext]_pumpVars
  PROVE  TimeoutInv'
<1>0. PumpInv' BY PumpInvKept DEF TimeoutInv
<1>10. Len(set) \in Nat /\ PumpTypes /\ CountIsOutstanding BY DEF TimeoutInv, PumpInv
<1>1. CASE EnterPage
  BY <1>0, <1>1 DEF TimeoutInv, EnterPage, TimeoutsRunOnce, TimeoutsSet
<1>2. CASE Leave
  BY <1>0, <1>2 DEF TimeoutInv, Leave, TimeoutsRunOnce, TimeoutsSet
<1>3. CASE ScheduleBackgroundExec
  <2>1. /\ requested' = requested + 1 /\ requested < MaxRequests
        /\ pumpTimers' \in {pumpTimers, pumpTimers + 1}
        /\ UNCHANGED <<platform, timeoutQueue, idTimers, running, executed, set, fired>>
    BY <1>3 DEF ScheduleBackgroundExec, OneMoreTimer
  <2>2. pumpTimers' <= requested' /\ requested' <= MaxRequests /\ executed' <= requested' + Len(set')
    BY <1>10, <2>1, BoundsAssumption DEF TimeoutInv, PumpTypes
  <2> QED BY <1>0, <2>1, <2>2 DEF TimeoutInv, TimeoutsRunOnce, TimeoutsSet
<1>4. ASSUME NEW id \in Ids, MonoSetTimeout(id) PROVE TimeoutInv' BY <1>0, <1>4, TimeoutSet
<1>5. ASSUME NEW id \in Ids, TimeoutExec(id) PROVE TimeoutInv'
  <2>1. platform = "web" BY <1>5 DEF TimeoutExec, TimersOfBrowsers
  <2> QED BY <1>0, <1>5, <2>1, TimeoutFired
<1>6. CASE PumpMessage
  <2>1. pumpTimers' <= requested' BY <1>10, <1>6 DEF PumpMessage, TimeoutInv, PumpTypes
  <2> QED BY <1>0, <1>6, <2>1 DEF TimeoutInv, PumpMessage, TimeoutsRunOnce, TimeoutsSet
<1>7. CASE RunTimeout BY <1>0, <1>7, TimeoutRun
<1>8. CASE RunBackgroundExec
  <2>1. /\ UNCHANGED <<platform, timeoutQueue, pumpTimers, idTimers, requested, set, fired>>
        /\ running' \in {running, "exec"}
    BY <1>8 DEF RunBackgroundExec
  <2>2. Len(timeoutQueue) <= Len(set)
    <3>1. CASE platform = "web" BY <1>10, <3>1 DEF TimeoutInv, PumpInv
    <3>2. CASE platform # "web"
      <4>1. set = fired \o timeoutQueue
        BY <1>10, <3>2, PlatformsAssumption DEF TimeoutInv, TimeoutsRunOnce, PumpTypes
      <4>2. fired \in Seq(Ids) /\ timeoutQueue \in Seq(Ids) BY <1>10 DEF TimeoutInv, PumpTypes
      <4>3. Len(set) = Len(fired) + Len(timeoutQueue) BY <4>1, <4>2
      <4> QED BY <4>2, <4>3
    <3> QED BY <3>1, <3>2
  <2>3. Len(timeoutQueue) \in Nat BY <1>10 DEF PumpTypes
  <2>4. executed' <= requested' + Len(set')
    <3>1. CASE pumpCount > 0
      <4>1. executed' = executed + 1 BY <1>8, <3>1 DEF RunBackgroundExec
      <4> QED BY <1>10, <2>1, <2>2, <2>3, <3>1, <4>1 DEF CountIsOutstanding, PumpTypes
    <3>2. CASE ~(pumpCount > 0)
      <4>1. executed' = executed BY <1>8, <3>2 DEF RunBackgroundExec
      <4> QED BY <2>1, <4>1 DEF TimeoutInv
    <3> QED BY <3>1, <3>2
  <2> QED BY <1>0, <2>1, <2>4 DEF TimeoutInv, TimeoutsRunOnce, TimeoutsSet
<1>9. CASE UNCHANGED pumpVars
  BY <1>0, <1>9 DEF pumpVars, TimeoutInv, TimeoutsRunOnce, TimeoutsSet
<1> QED BY <1>1, <1>2, <1>3, <1>4, <1>5, <1>6, <1>7, <1>8, <1>9 DEF PumpNext, PumpStep

(* The account of the timeouts holds from the start.                       *)
LEMMA TimeoutInvAlways == PumpSpec => [](TimeoutInv /\ TimersOfBrowsers)
<1>1. PumpInit => TimeoutInv /\ TimersOfBrowsers
  <2> SUFFICES ASSUME PumpInit PROVE TimeoutInv /\ TimersOfBrowsers OBVIOUS
  <2>1. PumpInv BY DEF PumpInit, PumpInv, PumpTypes, CountIsOutstanding, Owed
  <2>2. IsFiniteSet({}) /\ Cardinality({}) = 0 BY FS_EmptySet
  <2>3. TimeoutsSet = {} /\ TimeoutsFired = {} BY DEF PumpInit, TimeoutsSet, TimeoutsFired
  <2>4. TimeoutsRunOnce
    BY <2>2, <2>3 DEF PumpInit, TimeoutsRunOnce, TimeoutsSet, TimeoutsFired
  <2> QED BY <2>1, <2>2, <2>3, <2>4, BoundsAssumption DEF PumpInit, TimeoutInv, TimersOfBrowsers
<1>2. TimeoutInv /\ TimersOfBrowsers /\ [PumpNext]_pumpVars => (TimeoutInv /\ TimersOfBrowsers)'
  BY TimeoutInvKept, TimersOfBrowsersKept
<1> QED BY <1>1, <1>2, PTL DEF PumpSpec

(* A timeout that was set waits in one place or was run, never both or     *)
(* twice; outside of a browser timeouts run in the order they were set.    *)
THEOREM TimeoutsAlwaysRunOnce == PumpSpec => []TimeoutsRunOnce
<1>1. TimeoutInv => TimeoutsRunOnce BY DEF TimeoutInv
<1> QED BY <1>1, TimeoutInvAlways, PTL

(* The types: a browser never has more timers for pump_message than there  *)
(* were requests, and what a timeout makes the second loop run once too    *)
(* often is bounded by the timeouts set.                                   *)
THEOREM PumpTypeCorrect == PumpSpec => []PumpTypeOK
<1>1. TimeoutInv => PumpTypeOK
  <2> SUFFICES ASSUME TimeoutInv PROVE PumpTypeOK OBVIOUS
  <2>1. PumpTypes BY DEF TimeoutInv, PumpInv
  <2>2. TimeoutsSet \subseteq Ids BY DEF TimeoutInv, TimeoutsSet
  <2>3. Cardinality(TimeoutsSet) <= Cardinality(Ids) BY <2>2, FS_Subset, BoundsAssumption
  <2>4. Len(set) <= Cardinality(Ids) /\ Cardinality(Ids) \in Nat /\ Len(set) \in Nat
    BY <2>3, FS_CardinalityType, BoundsAssumption DEF TimeoutInv
  <2>5. requested \in 0 .. MaxRequests /\ pumpTimers \in 0 .. MaxRequests
    BY <2>1, BoundsAssumption DEF TimeoutInv, PumpTypes
  <2>6. executed \in 0 .. MaxRequests + Cardinality(Ids)
    BY <2>1, <2>4, <2>5, BoundsAssumption DEF TimeoutInv, PumpTypes
  <2> QED BY <2>1, <2>5, <2>6 DEF TimeoutInv, PumpTypes, PumpTypeOK
<1> QED BY <1>1, TimeoutInvAlways, PTL
-----------------------------------------------------------------------------
(* What the debugger can be told about: frames and variables.              *)
Items == Variables \cup UNION {{s[i] : i \in DOMAIN s} : s \in Stacks}

DebuggerTypes ==
  /\ stack \in Stacks
  /\ asked \in Seq(Items) /\ wanted \in Seq(Items)
  /\ activeFrames \in Seq(Items)
  /\ varInfo \in Seq({Described(v) : v \in Items})

(* While a request is under way, its field holds what was called back for  *)
(* and asked is the rest of what was wanted.                               *)
Collecting(field) ==
  /\ Len(field) + Len(asked) = Len(wanted)
  /\ \A i \in 1 .. Len(asked) : asked[i] = wanted[Len(field) + i]

DebuggerInv ==
  /\ DebuggerTypes
  /\ asking = "frames" =>
       /\ Collecting(activeFrames)
       /\ \A i \in 1 .. Len(activeFrames) : activeFrames[i] = wanted[i]
  /\ asking = "variables" =>
       /\ Collecting(varInfo)
       /\ \A i \in 1 .. Len(varInfo) : varInfo[i] = Described(wanted[i])
  /\ RepliesExact

(* A stack is a sequence of items, and so is any list of variables.        *)
LEMMA StacksOfItems == \A s \in Stacks : s \in Seq(Items)
<1> SUFFICES ASSUME NEW s \in Stacks PROVE s \in Seq(Items) OBVIOUS
<1>1. s \in Seq({s[i] : i \in DOMAIN s}) BY StacksAssumption
<1>2. {s[i] : i \in DOMAIN s} \subseteq Items BY DEF Items
<1>3. DOMAIN s = 1 .. Len(s) /\ Len(s) \in Nat BY <1>1
<1>4. s = [i \in 1 .. Len(s) |-> s[i]] BY <1>1
<1>5. \A i \in 1 .. Len(s) : s[i] \in Items BY <1>2, <1>3
<1> QED BY <1>3, <1>4, <1>5

(* The types are kept by every step of the debugger and the runtime.       *)
LEMMA DebuggerTypesKept ==
  ASSUME DebuggerTypes, [DebuggerNext]_debuggerVars
  PROVE  DebuggerTypes'
<1> USE DEF DebuggerTypes
<1>1. CASE FireBp BY <1>1 DEF FireBp
<1>2. CASE Resume BY <1>2 DEF Resume
<1>3. CASE StartSingleStepping BY <1>3 DEF StartSingleStepping
<1>4. CASE GetCallStack BY <1>4, StacksOfItems DEF GetCallStack, FieldEmptied
<1>5. CASE AddFrame
  <2>1. Head(asked) \in Items /\ Tail(asked) \in Seq(Items) BY <1>5 DEF AddFrame
  <2> QED BY <1>5, <2>1 DEF AddFrame
<1>6. CASE ReturnFrames BY <1>6 DEF ReturnFrames
<1>7. CASE GetVariables
  <2>1. PICK n \in 0 .. MaxRequested :
          \E list \in [1 .. n -> Variables] : asked' = list /\ wanted' = list
    BY <1>7 DEF GetVariables
  <2>5. PICK list \in [1 .. n -> Variables] : asked' = list /\ wanted' = list
    BY <2>1
  <2>2. n \in Nat BY MaxRequestedAssumption
  <2>3. list \in [1 .. n -> Items] BY DEF Items
  <2>4. list \in Seq(Items) BY <2>2, <2>3
  <2> QED BY <1>7, <2>5, <2>4 DEF GetVariables, FieldEmptied
<1>8. CASE AddVariable
  <2>1. Head(asked) \in Items /\ Tail(asked) \in Seq(Items) BY <1>8 DEF AddVariable
  <2>2. Described(Head(asked)) \in {Described(v) : v \in Items} BY <2>1
  <2> QED BY <1>8, <2>1, <2>2 DEF AddVariable
<1>9. CASE ReturnVariables BY <1>9 DEF ReturnVariables
<1>10. CASE FailRequest BY <1>10 DEF FailRequest
<1>11. ASSUME NEW location \in Locations, SetBreakpoint(location) PROVE DebuggerTypes'
  BY <1>11 DEF SetBreakpoint
<1>12. ASSUME NEW location \in Locations, RemoveBreakpoint(location) PROVE DebuggerTypes'
  BY <1>12 DEF RemoveBreakpoint
<1>13. CASE ClearAllBreakpoints BY <1>13 DEF ClearAllBreakpoints
<1>14. CASE UNCHANGED debuggerVars BY <1>14 DEF debuggerVars
<1> QED
  BY <1>1, <1>2, <1>3, <1>4, <1>5, <1>6, <1>7, <1>8, <1>9, <1>10, <1>11, <1>12, <1>13, <1>14
  DEF DebuggerNext

(* Every call back moves one entry from what is asked to its field, and a  *)
(* reply is made when nothing is left.                                     *)
LEMMA DebuggerInvKept ==
  ASSUME DebuggerInv, [DebuggerNext]_debuggerVars
  PROVE  DebuggerInv'
<1>0. DebuggerTypes' BY DebuggerTypesKept DEF DebuggerInv
<1> USE <1>0 DEF DebuggerInv
<1>1. CASE FireBp BY <1>1 DEF FireBp, Collecting, RepliesExact
<1>2. CASE Resume BY <1>2 DEF Resume, Collecting, RepliesExact
<1>3. CASE StartSingleStepping
  BY <1>3 DEF StartSingleStepping, Collecting, RepliesExact
<1>4. CASE GetCallStack
  <2>1. asked' = wanted' /\ activeFrames' = <<>> /\ wanted' \in Seq(Items)
    BY <1>4 DEF GetCallStack, FieldEmptied, DebuggerTypes
  <2>2. Collecting(activeFrames)' BY <2>1 DEF Collecting
  <2>3. RepliesExact' BY <1>4 DEF GetCallStack, RepliesExact, NoReply
  <2> QED BY <1>4, <2>1, <2>2, <2>3 DEF GetCallStack
<1>5. CASE AddFrame
  <2>1. asked' = Tail(asked) /\ activeFrames' = Append(activeFrames, Head(asked)) /\ wanted' = wanted
    BY <1>5 DEF AddFrame
  <2>2. Collecting(activeFrames) /\ asked # <<>> BY <1>5 DEF AddFrame
  <2>3. Collecting(activeFrames)' BY <2>1, <2>2 DEF Collecting, DebuggerTypes
  <2>4. ASSUME NEW i \in 1 .. Len(activeFrames') PROVE activeFrames'[i] = wanted'[i]
    <3>1. Head(asked) = wanted[Len(activeFrames) + 1] BY <2>2 DEF Collecting, DebuggerTypes
    <3>2. CASE i = Len(activeFrames) + 1 BY <2>1, <3>1, <3>2 DEF DebuggerTypes
    <3>3. CASE i # Len(activeFrames) + 1
      <4>1. i \in 1 .. Len(activeFrames) BY <2>1, <3>3 DEF DebuggerTypes
      <4>2. activeFrames'[i] = activeFrames[i] BY <2>1, <4>1 DEF DebuggerTypes
      <4> QED BY <1>5, <2>1, <4>1, <4>2 DEF AddFrame
    <3> QED BY <3>2, <3>3
  <2> QED BY <1>5, <2>3, <2>4 DEF AddFrame, RepliesExact
<1>6. CASE ReturnFrames
  <2>1. activeFrames = wanted BY <1>6 DEF ReturnFrames, Collecting, DebuggerTypes
  <2>2. RepliesExact' BY <1>6, <2>1 DEF ReturnFrames, RepliesExact
  <2> QED BY <1>6, <2>2 DEF ReturnFrames
<1>7. CASE GetVariables
  <2>1. asked' = wanted' /\ varInfo' = <<>> /\ wanted' \in Seq(Items)
    BY <1>7 DEF GetVariables, FieldEmptied, DebuggerTypes
  <2>2. Collecting(varInfo)' BY <2>1 DEF Collecting
  <2>3. RepliesExact' BY <1>7 DEF GetVariables, RepliesExact, NoReply
  <2> QED BY <1>7, <2>1, <2>2, <2>3 DEF GetVariables
<1>8. CASE AddVariable
  <2> DEFINE d == Described(Head(asked))
  <2>1. asked' = Tail(asked) /\ varInfo' = Append(varInfo, d) /\ wanted' = wanted
    BY <1>8 DEF AddVariable
  <2>2. Collecting(varInfo) /\ asked # <<>> BY <1>8 DEF AddVariable
  <2>3. Head(asked) = wanted[Len(varInfo) + 1] BY <2>2 DEF Collecting, DebuggerTypes
  <2>4. d = Described(wanted[Len(varInfo) + 1]) BY <2>3
  <2> HIDE DEF d
  <2>5. Collecting(varInfo)' BY <2>1, <2>2 DEF Collecting, DebuggerTypes
  <2>6. ASSUME NEW i \in 1 .. Len(varInfo') PROVE varInfo'[i] = Described(wanted'[i])
    <3>1. CASE i = Len(varInfo) + 1 BY <2>1, <2>4, <3>1 DEF DebuggerTypes
    <3>2. CASE i # Len(varInfo) + 1
      <4>1. i \in 1 .. Len(varInfo) BY <2>1, <3>2 DEF DebuggerTypes
      <4>2. varInfo'[i] = varInfo[i] BY <2>1, <4>1 DEF DebuggerTypes
      <4> QED BY <1>8, <2>1, <4>1, <4>2 DEF AddVariable
    <3> QED BY <3>1, <3>2
  <2> QED BY <1>8, <2>5, <2>6 DEF AddVariable, RepliesExact
<1>9. CASE ReturnVariables
  <2>1. Len(varInfo) = Len(wanted) BY <1>9 DEF ReturnVariables, Collecting, DebuggerTypes
  <2>2. DOMAIN wanted = 1 .. Len(varInfo) BY <2>1 DEF DebuggerTypes
  <2>3. \A i \in 1 .. Len(varInfo) : varInfo[i] = Described(wanted[i]) BY <1>9 DEF ReturnVariables
  <2>4. varInfo = [i \in 1 .. Len(varInfo) |-> varInfo[i]] BY DEF DebuggerTypes
  <2>5. varInfo = [i \in DOMAIN wanted |-> Described(wanted[i])] BY <2>2, <2>3, <2>4
  <2>6. RepliesExact' BY <1>9, <2>5 DEF ReturnVariables, RepliesExact
  <2> QED BY <1>9, <2>6 DEF ReturnVariables
<1>10. CASE FailRequest BY <1>10 DEF FailRequest, RepliesExact, NoReply
<1>11. ASSUME NEW location \in Locations, SetBreakpoint(location) PROVE DebuggerInv'
  BY <1>11 DEF SetBreakpoint, RepliesExact
<1>12. ASSUME NEW location \in Locations, RemoveBreakpoint(location) PROVE DebuggerInv'
  BY <1>12 DEF RemoveBreakpoint, RepliesExact
<1>13. CASE ClearAllBreakpoints
  BY <1>13 DEF ClearAllBreakpoints, BreakpointsCleared, RepliesExact
<1>14. CASE UNCHANGED debuggerVars
  BY <1>14 DEF debuggerVars, Collecting, RepliesExact
<1> QED
  BY <1>1, <1>2, <1>3, <1>4, <1>5, <1>6, <1>7, <1>8, <1>9, <1>10, <1>11, <1>12, <1>13, <1>14
  DEF DebuggerNext

(* The debugger's invariant holds from the start.                          *)
LEMMA DebuggerInvAlways == DebuggerSpec => []DebuggerInv
<1>1. DebuggerInit => DebuggerInv
  BY DEF DebuggerInit, DebuggerInv, DebuggerTypes, RepliesExact, NoReply
<1>2. DebuggerInv /\ [DebuggerNext]_debuggerVars => DebuggerInv'
  BY DebuggerInvKept
<1> QED BY <1>1, <1>2, PTL DEF DebuggerSpec

(* A debugger's reply is one entry for each frame or variable asked about, *)
(* in order, however many requests broke off in the middle before it.      *)
THEOREM RepliesAlwaysExact == DebuggerSpec => []RepliesExact
<1>1. DebuggerInv => RepliesExact BY DEF DebuggerInv
<1> QED BY <1>1, DebuggerInvAlways, PTL
=============================================================================
