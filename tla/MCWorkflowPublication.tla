----------------------- MODULE MCWorkflowPublication -----------------------
(* The instances of WorkflowPublication that TLC checks. *)
EXTENDS WorkflowPublication

CONSTANTS v1, v2, cron, mail, hourly, daily, inbox

\* The second version changes one trigger and drops the other.
ChangeAndDrop ==
    [ v \in Versions |->
        IF v = v1 THEN [ n \in Nodes |-> IF n = cron THEN hourly ELSE inbox ]
        ELSE [ n \in Nodes |-> IF n = cron THEN daily ELSE None ] ]
=============================================================================
