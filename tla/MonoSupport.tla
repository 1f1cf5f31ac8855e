---------------------------- MODULE MonoSupport -----------------------------
(***************************************************************************)
(* What library_mono.js does for the runtime's event loop: requests for    *)
(* background work, timeouts, and pump_message, which runs both.  In a     *)
(* browser every request and every timeout has a timer of its own;         *)
(* elsewhere the embedder calls pump_message, and timeouts run in the      *)
(* order they were set, whatever their time.  Managed code that runs may   *)
(* request more at any point.                                              *)
(***************************************************************************)
EXTENDS Integers, Sequences, FiniteSets

CONSTANTS
  Ids,           (* ids of timeouts, each set once                         *)
  Platforms,     (* of "web", "shell"                                      *)
  MaxRequests    (* bound on the requests for background work              *)

ASSUME PlatformsAssumption == Platforms \subseteq {"web", "shell"}
ASSUME BoundsAssumption == IsFiniteSet(Ids) /\ MaxRequests \in Nat

VARIABLES
  platform,
  pumpCount,      (* MONO.pump_count                                       *)
  timeoutQueue,   (* MONO.timeout_queue                                    *)
  pumpTimers,     (* browser timers that will call pump_message            *)
  idTimers,       (* browser timers that will run a timeout                *)
  pumping,        (* the loop pump_message is in, 1 or 2, or 0             *)
  running,        (* managed code that runs: "none", "page", "exec", "timeout" *)
  requested, executed,   (* history: requests made, and calls of mono_background_exec *)
  set, fired             (* history: timeouts set, and run, in order       *)

pumpVars == <<platform, pumpCount, timeoutQueue, pumpTimers, idTimers, pumping, running,
              requested, executed, set, fired>>

PumpInit ==
  /\ platform \in Platforms
  /\ pumpCount = 0 /\ timeoutQueue = <<>>
  /\ pumpTimers = 0 /\ idTimers = {}
  /\ pumping = 0 /\ running = "none"
  /\ requested = 0 /\ executed = 0
  /\ set = <<>> /\ fired = <<>>

Idle == running = "none" /\ pumping = 0
-----------------------------------------------------------------------------
(* Managed code runs: on behalf of the page, or of the pump.               *)
EnterPage ==
  /\ Idle
  /\ running' = "page"
  /\ UNCHANGED <<platform, pumpCount, timeoutQueue, pumpTimers, idTimers, pumping, requested,
                 executed, set, fired>>

(* It comes back; an exception of background work or of a timeout leaves   *)
(* pump_message as well.                                                   *)
Leave ==
  /\ running # "none"
  /\ running' = "none"
  /\ pumping' \in {pumping, 0}
  /\ UNCHANGED <<platform, pumpCount, timeoutQueue, pumpTimers, idTimers, requested, executed,
                 set, fired>>

(* Mutant: one timer at a time.                                            *)
TimerIfNone == IF pumpTimers = 0 THEN 1 ELSE pumpTimers
OneMoreTimer == pumpTimers + 1

ScheduleBackgroundExec ==
  /\ running # "none"
  /\ requested < MaxRequests
  /\ requested' = requested + 1
  /\ pumpCount' = pumpCount + 1
  /\ pumpTimers' = IF platform = "web" THEN OneMoreTimer ELSE pumpTimers
  /\ UNCHANGED <<platform, timeoutQueue, idTimers, pumping, running, executed, set, fired>>

MonoSetTimeout(id) ==
  /\ running # "none"
  /\ \A i \in DOMAIN set : set[i] # id
  /\ set' = Append(set, id)
  /\ IF platform = "web"
     THEN /\ idTimers' = idTimers \cup {id}
          /\ UNCHANGED <<pumpCount, timeoutQueue>>
     ELSE /\ pumpCount' = pumpCount + 1
          /\ timeoutQueue' = Append(timeoutQueue, id)
          /\ UNCHANGED idTimers
  /\ UNCHANGED <<platform, pumpTimers, pumping, running, requested, executed, fired>>

(* The timer of a timeout in the browser.                                  *)
TimeoutExec(id) ==
  /\ Idle
  /\ id \in idTimers
  /\ idTimers' = idTimers \ {id}
  /\ fired' = Append(fired, id)
  /\ running' = "timeout"
  /\ UNCHANGED <<platform, pumpCount, timeoutQueue, pumpTimers, pumping, requested, executed, set>>

(* pump_message is called: by one of its timers, or by the embedder.       *)
PumpMessage ==
  /\ Idle
  /\ IF platform = "web" THEN pumpTimers > 0 /\ pumpTimers' = pumpTimers - 1 ELSE UNCHANGED pumpTimers
  /\ pumping' = 1
  /\ UNCHANGED <<platform, pumpCount, timeoutQueue, idTimers, running, requested, executed, set, fired>>

(* Mutant: the timeout set last goes first.                                *)
LastTimeout(queue) == queue[Len(queue)]
ShiftedTimeout(queue) == Head(queue)

(* One round of the first loop, or its end.                                *)
RunTimeout ==
  /\ pumping = 1 /\ running = "none"
  /\ IF timeoutQueue = <<>>
     THEN /\ pumping' = 2
          /\ UNCHANGED <<pumpCount, timeoutQueue, running, fired>>
     ELSE /\ pumpCount' = pumpCount - 1
          /\ timeoutQueue' = Tail(timeoutQueue)
          /\ fired' = Append(fired, ShiftedTimeout(timeoutQueue))
          /\ running' = "timeout"
          /\ UNCHANGED pumping
  /\ UNCHANGED <<platform, pumpTimers, idTimers, requested, executed, set>>

(* Mutants: all requests are taken for done; none is.                      *)
CountReset == 0
CountKept == pumpCount
CountDown == pumpCount - 1

(* One round of the second loop, or its end.                               *)
RunBackgroundExec ==
  /\ pumping = 2 /\ running = "none"
  /\ IF pumpCount > 0
     THEN /\ pumpCount' = CountDown
          /\ executed' = executed + 1
          /\ running' = "exec"
          /\ UNCHANGED pumping
     ELSE /\ pumping' = 0
          /\ UNCHANGED <<pumpCount, executed, running>>
  /\ UNCHANGED <<platform, timeoutQueue, pumpTimers, idTimers, requested, set, fired>>

PumpStep == PumpMessage \/ RunTimeout \/ RunBackgroundExec \/ Leave \/ \E id \in Ids : TimeoutExec(id)

PumpNext ==
  \/ EnterPage
  \/ ScheduleBackgroundExec \/ \E id \in Ids : MonoSetTimeout(id)
  \/ PumpStep

(* Managed code comes back, and a browser runs its timers.                 *)
PumpFairness ==
  /\ WF_pumpVars(RunTimeout) /\ WF_pumpVars(RunBackgroundExec) /\ WF_pumpVars(Leave)
  /\ SF_pumpVars(platform = "web" /\ PumpMessage)
  /\ \A id \in Ids : SF_pumpVars(TimeoutExec(id))

PumpSpec == PumpInit /\ [][PumpNext]_pumpVars /\ PumpFairness
-----------------------------------------------------------------------------
PumpTypeOK ==
  /\ platform \in Platforms
  /\ pumpCount \in Int
  /\ timeoutQueue \in Seq(Ids)
  /\ pumpTimers \in 0 .. MaxRequests /\ idTimers \subseteq Ids
  /\ pumping \in {0, 1, 2}
  /\ running \in {"none", "page", "exec", "timeout"}
  /\ requested \in 0 .. MaxRequests /\ executed \in 0 .. MaxRequests + Cardinality(Ids)
  /\ set \in Seq(Ids) /\ fired \in Seq(Ids)

(* The one counter serves two purposes.  It is always what is outstanding  *)
(* of both: the requests not executed and the timeouts queued, although    *)
(* either loop can be left in the middle and entered again.  (It follows   *)
(* that a timeout the second loop takes for a request is missing later.)   *)
CountIsOutstanding == pumpCount = (requested - executed) + Len(timeoutQueue)

(* In a browser, outside of pump_message, every unit of the count has a    *)
(* timer that will look at it; so work goes on even when an exception left *)
(* pump_message with requests still counted.                               *)
TimersCoverCount ==
  platform = "web" =>
    /\ timeoutQueue = <<>>
    /\ 0 <= pumpCount
    /\ pumping = 0 => pumpCount <= pumpTimers

(* A timeout that was set is run once, or still waits; outside of a        *)
(* browser, in the order set.                                              *)
TimeoutsRunOnce ==
  /\ platform = "shell" => set = fired \o timeoutQueue
  /\ platform = "web" =>
       /\ {set[i] : i \in DOMAIN set} = idTimers \cup {fired[i] : i \in DOMAIN fired}
       /\ Len(set) = Cardinality(idTimers) + Len(fired)

(* In a browser every request is followed by a call of                     *)
(* mono_background_exec, and every timeout is run.                         *)
RequestsExecuted ==
  /\ \A n \in 1 .. MaxRequests : (platform = "web" /\ requested >= n) ~> executed >= n
  /\ \A id \in Ids : (id \in idTimers) ~> (id \notin idTimers)
=============================================================================
