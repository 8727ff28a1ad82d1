------------------------- MODULE MCFleetMaintenance -------------------------
(* One machine, which the first import may create or find, with a repairer *)
(* to serve it, and two workers that each take requests and tasks.         *)
EXTENDS FleetMaintenance

CONSTANTS m1, w1

MCServes == [w \in Staff |-> Machines]

Report(m, s, d) == [machine |-> m, status |-> s, date |-> d]

\* A warning the second day escalates, and a recovery followed by an error the
\* same day.
MCFiles == {<<Report(m1, "warning", 1)>>,
            <<Report(m1, "normal", 1), Report(m1, "error", 1)>>}

=============================================================================
