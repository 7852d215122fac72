----------------------------- MODULE MCTaskBroker -----------------------------
(* The instances of TaskBroker that TLC checks. *)
EXTENDS TaskBroker, TLC

CONSTANTS worker, spare, first, second

MixedKinds == [x \in Runners \cup Requests |->
                  IF x = second THEN "python" ELSE "javascript"]
JavaScript == [x \in Runners \cup Requests |-> "javascript"]
=============================================================================
