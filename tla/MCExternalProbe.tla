---------------------------- MODULE MCExternalProbe ----------------------------
(***************************************************************************)
(* Bounds for the external probe: two metrics that share a source and one  *)
(* that does not, two numbers, and gates for every comparator, with an     *)
(* unknown one and an unparsable threshold among them.                     *)
(***************************************************************************)
EXTENDS ExternalProbe

ThreeMetrics == {"new_coverage", "coverage", "security_rating"}
SourceMetric ==
    [m \in ThreeMetrics |-> IF m = "new_coverage" THEN "coverage" ELSE m]

AnyMeasure == Numbers \cup {Missing, Unparsable}

Condition(metric, op, error) == [metric |-> metric, op |-> op, error |-> error]

SixGates ==
    {{},
     {Condition("new_coverage", "LT", 2)},
     {Condition("coverage", "LT", 1), Condition("security_rating", "GT", 1)},
     {Condition("security_rating", "EQ", 2), Condition("new_coverage", "NE", 2)},
     {Condition("security_rating", "other", 1)},
     {Condition("coverage", "GT", Unparsable)}}

===============================================================================
