---------------------------- MODULE HandoffPhases ----------------------------
(***************************************************************************)
(* What a handoff promises to those who work by it: it passes through the  *)
(* phases of the exchange in their order, from an open phase it may be     *)
(* taken back or closed, and then it stays so.  A new one is requested     *)
(* only when no other one is open.                                         *)
(***************************************************************************)
CONSTANT Handoff

VARIABLE phase   \* of every handoff

OpenPhases == {"requested", "received", "submitted", "reviewing", "rejected",
               "acknowledged"}
Phases == OpenPhases \cup {"none", "recovered", "closed"}

\* The exchange.  A reviewer that is replaced gives the submission back.
Following ==
  [none |-> {"requested"}, requested |-> {"received"}, received |-> {"submitted"},
   submitted |-> {"reviewing"}, reviewing |-> {"rejected", "submitted"},
   rejected |-> {"acknowledged"}, acknowledged |-> {"submitted"},
   recovered |-> {}, closed |-> {}]

Advances(h) == phase'[h] \in Following[phase[h]]
Ends(h) == phase[h] \in OpenPhases /\ phase'[h] \in {"recovered", "closed"}
Stays(h) == phase'[h] = phase[h]

RequestedAlone(h) ==
  phase[h] = "none" /\ phase'[h] = "requested" =>
    \A x \in Handoff \ {h} : phase'[x] \notin OpenPhases

PhasesInit == phase = [h \in Handoff |-> "none"]

PhasesNext ==
  \A h \in Handoff : (Stays(h) \/ Advances(h) \/ Ends(h)) /\ RequestedAlone(h)

PhasesSpec == PhasesInit /\ [][PhasesNext]_phase
=============================================================================
