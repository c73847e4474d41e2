---------------------------- MODULE CallbackOnce ----------------------------
(***************************************************************************)
(* What the SDK promises of an asynchronous operation, and nothing of how:  *)
(* once started it is answered through one of its callbacks, once, or       *)
(* throws to its caller, unless an uncaught exception ends the process.     *)
(***************************************************************************)
CONSTANT Ops

VARIABLES status, alive

vars == <<status, alive>>

Answers == {"success", "error", "authRequired"}

TypeOK ==
  /\ status \in [Ops -> {"idle", "pending", "threw"} \cup Answers]
  /\ alive \in BOOLEAN

Init == status = [o \in Ops |-> "idle"] /\ alive = TRUE

Start(o) ==
  /\ alive
  /\ status[o] = "idle"
  /\ status' = [status EXCEPT ![o] = "pending"]
  /\ UNCHANGED alive

Finish(o) ==
  /\ alive
  /\ status[o] = "pending"
  /\ \E s \in Answers \cup {"threw"} : status' = [status EXCEPT ![o] = s]
  /\ UNCHANGED alive

Crash ==
  /\ alive
  /\ alive' = FALSE
  /\ UNCHANGED status

Next == Crash \/ \E o \in Ops : Start(o) \/ Finish(o)

Fairness == \A o \in Ops : WF_vars(Finish(o))

Spec == Init /\ [][Next]_vars
FairSpec == Spec /\ Fairness
=============================================================================
