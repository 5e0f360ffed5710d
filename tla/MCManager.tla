----------------------------- MODULE MCManager -----------------------------
(* Instances of Manager for TLC. *)
EXTENDS Manager

\* Every kind of leader election that starts, and every kind of timeout.
AnyConfig == [election : {"none", "valid"}, grace : {"finite", "zero"}]

\* Nothing but the end of the runnables ends the stop procedure.
PatientConfig == [election : {"none", "valid"}, grace : {"infinite"}]

NoElection == {[election |-> "none", grace |-> "finite"]}

InvalidElection == {[election |-> "invalid", grace |-> "infinite"]}
=============================================================================
