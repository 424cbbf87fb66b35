------------------------------ MODULE SonarProject ------------------------------
(***************************************************************************)
(* The SonarCloud project that the runtime's probe and CI's report ask     *)
(* about: analyses finish, administrators edit the organization's default  *)
(* gate and assign a gate to the project or take it away, at any time.     *)
(* When the project has no gate of its own SonarCloud reports NONE, and    *)
(* whoever asks evaluates the default gate on the measures of the project. *)
(***************************************************************************)
EXTENDS Integers

CONSTANTS
    Metrics,        \* metrics that conditions are about
    Source,         \* the metric of the whole project that stands for each
    Numbers,        \* values that parse as numbers
    Gates,          \* the default gates there may be, as sets of conditions
    Measured,       \* the values a measure may have
    Missing,        \* a metric the project has no measure for
    Unparsable      \* a value that is not a number

Sources == {Source[m] : m \in Metrics}
Conditions ==
    [metric : Metrics, op : {"LT", "GT", "EQ", "NE", "other"},
     error : Numbers \cup {Unparsable}]

ASSUME ProjectAssumption ==
    /\ Numbers \subseteq Int
    /\ Gates \subseteq SUBSET Conditions
    /\ Measured \subseteq Numbers \cup {Missing, Unparsable}
    /\ Missing \notin Numbers
    /\ Unparsable \notin Numbers \cup {Missing}

VARIABLES
    assigned,       \* whether the project has a gate of its own
    status,         \* project status as of the last analysis
    conditions,     \* the conditions of the default gate
    measures,       \* the measures of the project
    standings,      \* history: how the project stood while someone was asking
    changes         \* history: what changed in that time

project == <<assigned, status, conditions, measures>>
history == <<standings, changes>>

Verdicts == {"passed", "failed", "pending"}

Statuses == {"OK", "ERROR", "WARN", "NONE", "other"}

ProjectTypeOK ==
    /\ assigned \in BOOLEAN
    /\ status \in Statuses
    /\ conditions \in Gates
    /\ measures \in [Sources -> Measured]
    /\ standings \in SUBSET (Verdicts \cup {"undecided"})
    /\ changes \in SUBSET {"analysis", "edit", "assignment"}

ProjectInit ==
    /\ assigned \in BOOLEAN
    /\ status \in IF assigned THEN Statuses ELSE {"NONE"}
    /\ conditions \in Gates
    /\ measures \in [Sources -> Measured]
    /\ standings = {}
    /\ changes = {}

-------------------------------------------------------------------------------
\* How the project stands, by SonarCloud's own rules

\* A measure that is there and does not trip its condition.
Meets(value, c) ==
    /\ value \in Numbers
    /\ c.error \in Numbers
    /\ CASE c.op = "LT" -> value >= c.error
         [] c.op = "GT" -> value <= c.error
         [] c.op = "EQ" -> value # c.error
         [] c.op = "NE" -> value = c.error
         [] OTHER -> FALSE

\* A gate without conditions decides nothing.
Standing(st, gate, values) ==
    IF st = "OK" THEN "passed"
    ELSE IF st \in {"ERROR", "WARN"} THEN "failed"
    ELSE IF st = "other" THEN "pending"
    ELSE IF gate = {} THEN "undecided"
    ELSE IF \A c \in gate : Meets(values[Source[c.metric]], c) THEN "passed"
    ELSE "failed"

-------------------------------------------------------------------------------
\* What is asked and answered

\* Seeded fault: the metrics are asked for under the names of the conditions.
SourceMetricKeysAsNamed(gate) == {c.metric : c \in gate}

SourceMetricKeys(gate) == {Source[c.metric] : c \in gate}

\* measures/component answers for the metrics it is asked for and has.
Answer(keys) == [m \in {k \in keys \cap Sources : measures[k] # Missing} |-> measures[m]]

\* The first answer of a poll: history begins with it.  A gate that is assigned
\* may still have to take effect.
Asked ==
    /\ standings' = {Standing(status, conditions, measures)}
    /\ changes' = IF assigned THEN {"assignment"} ELSE {}

-------------------------------------------------------------------------------
\* Changes of the project

\* History is kept as long as someone is asking.
Observe(change, asking) ==
    IF asking
    THEN /\ changes' = changes \cup {change}
         /\ standings' = standings \cup {Standing(status', conditions', measures')}
    ELSE UNCHANGED history

\* An analysis renews the measures and applies the gate the project has.
Analysis(asking) ==
    /\ measures' \in [Sources -> Measured]
    /\ status' \in IF assigned THEN Statuses ELSE {"NONE"}
    /\ UNCHANGED <<assigned, conditions>>
    /\ Observe("analysis", asking)

Edit(asking) ==
    /\ conditions' \in Gates
    /\ UNCHANGED <<assigned, status, measures>>
    /\ Observe("edit", asking)

\* It takes effect with the next analysis.
Assignment(asking) ==
    /\ assigned' = ~assigned
    /\ UNCHANGED <<status, conditions, measures>>
    /\ Observe("assignment", asking)

===============================================================================
