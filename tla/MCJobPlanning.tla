---------------------------- MODULE MCJobPlanning ----------------------------
(* The instances of JobPlanning that TLC checks. *)
EXTENDS JobPlanning, TLC

CONSTANTS cron, interval, never

\* A calendar rule and an interval rule, which go on past every clock a run can
\* reach, and a rule without any fire.
Cadence ==
    [r \in Rules |->
        IF r = cron THEN [kind |-> "cron", at |-> {1, 3, 4, 6, 8, 10, 12}]
        ELSE IF r = interval THEN [kind |-> "interval", every |-> 2]
        ELSE [kind |-> "degenerate"]]

GrowAndShrink == {{cron}, {cron, interval}}
NeverJoins == {{cron}, {cron, never}}
OnlyCron == {{cron}}

Deeds(aborts, deregisters, republishes, unpublishes) ==
    [ abort |-> aborts, deregister |-> deregisters,
      republish |-> republishes, unpublish |-> unpublishes ]
NoDeed == Deeds(0, 0, 0, 0)
OneAbort == Deeds(1, 0, 0, 0)
TwoVersions == Deeds(1, 1, 1, 0)
OneUnpublish == Deeds(0, 0, 1, 1)
Mains == Permutations(Hosts)
=============================================================================
