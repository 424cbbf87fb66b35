------------------------------ MODULE MCGateReport ------------------------------
(***************************************************************************)
(* Bounds for the report: two metrics with one source.  The sound gates    *)
(* have known comparators and thresholds that are numbers.                 *)
(***************************************************************************)
EXTENDS GateReport

TwoMetrics == {"new_coverage", "coverage"}
SourceMetric == [m \in TwoMetrics |-> "coverage"]

Condition(metric, op, error) == [metric |-> metric, op |-> op, error |-> error]

NumberOrMissing == Numbers \cup {Missing}

SoundGates ==
    {{},
     {Condition("coverage", "GT", 1), Condition("new_coverage", "EQ", 2)}}

OddGates ==
    {{Condition("coverage", "other", 1)},
     {Condition("new_coverage", "GT", Unparsable)}}

===============================================================================
