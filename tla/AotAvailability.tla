-------------------------- MODULE AotAvailability ---------------------------
(***************************************************************************)
(* What a rewritten method may rely on.  It calls a function of            *)
(* window.aot.<assembly>: there is no such object, or an empty one, or one *)
(* that has the functions.                                                 *)
(***************************************************************************)
CONSTANT Assemblies
VARIABLES
  running,   (* the runtime runs managed code                              *)
  object     (* what there is for each assembly                            *)

Init ==
  /\ running = FALSE
  /\ object = [a \in Assemblies |-> "none"]

Run == ~running /\ running' = TRUE /\ UNCHANGED object

(* A load begins, the first one of the assembly or another.                *)
Publish(a) ==
  /\ object' = [object EXCEPT ![a] = "empty"]
  /\ UNCHANGED running

(* The functions come in, all of them at once.                             *)
Provide(a) ==
  /\ running
  /\ object[a] = "empty"
  /\ object' = [object EXCEPT ![a] = "functions"]
  /\ UNCHANGED running

Next == Run \/ \E a \in Assemblies : Publish(a) \/ Provide(a)

Spec == Init /\ [][Next]_<<running, object>>
=============================================================================
