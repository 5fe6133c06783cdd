--------------------------- MODULE CaseStopwatch ---------------------------
(***************************************************************************)
(* What the SLA clock promises, with no absolute time in it: a stopwatch    *)
(* holding the time left to resolve a case.  It runs down unless the case   *)
(* is held awaiting the client, it is reset only until the case has been    *)
(* answered, and letting go of a hold costs less than a second.             *)
(*                                                                          *)
(* The code never runs such a stopwatch: it pushes absolute deadlines       *)
(* forward on resume (backend/app/incidents/sla.py, rule 3).  IncidentClock *)
(* is shown to implement this.                                              *)
(***************************************************************************)
EXTENDS Integers

CONSTANTS None, TicksPerSecond

VARIABLES
  left,      \* ticks left to resolve the case, None when no target applies
  held,      \* the case awaits the client
  answered   \* somebody has responded to the case

stopwatch == <<left, held, answered>>

Init ==
  /\ left \in Int \cup {None}
  /\ held = FALSE
  /\ answered = FALSE

(* Time runs for a case that nobody is waiting on. *)
RunDown ==
  /\ ~held
  /\ left # None
  /\ left' = left - 1
  /\ UNCHANGED <<held, answered>>

(* A response starts no hold of its own. *)
Answer ==
  /\ ~answered
  /\ answered' = TRUE
  /\ UNCHANGED <<left, held>>

(* Holding a case is a response too, and does not touch the time left. *)
Hold ==
  /\ ~held
  /\ held' = TRUE
  /\ answered' = TRUE
  /\ UNCHANGED left

(* The fraction of a second that a hold lasted is the client's loss. *)
Release ==
  /\ held
  /\ held' = FALSE
  /\ \/ left = None /\ left' = None
     \/ left # None /\ \E lost \in 0 .. TicksPerSecond - 1 : left' = left - lost
  /\ UNCHANGED answered

(* An escalation sets a new target, but only before the first response. *)
Reset ==
  /\ ~answered
  /\ left' \in Int
  /\ UNCHANGED <<held, answered>>

Next == RunDown \/ Answer \/ Hold \/ Release \/ Reset

Spec == Init /\ [][Next]_stopwatch
=============================================================================
