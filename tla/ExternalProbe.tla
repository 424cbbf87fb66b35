----------------------------- MODULE ExternalProbe -----------------------------
(***************************************************************************)
(* `ironloom external-probe`: one pass over GitHub and SonarCloud, a       *)
(* request at a time.  The quality gate takes up to three requests.  When  *)
(* the project has no gate of its own SonarCloud reports NONE, and         *)
(* poll_quality_gate evaluates the organization's default gate itself: it  *)
(* asks for the conditions and then for the measures they are about, so    *)
(* the answers may come from different moments of the project.             *)
(*                                                                         *)
(* What the GitHub requests return is passed through to the summary and is *)
(* left out, and so are the texts of the issues.                           *)
(***************************************************************************)
EXTENDS SonarProject

VARIABLES
    pc,             \* the next request of the probe
    seen,           \* the conditions that qualitygates/list returned
    verdict,        \* the QualityGateStatus of the probe
    outcome         \* whether the probe ends in a summary or an error

probe == <<pc, seen, verdict, outcome>>
vars == <<project, probe, history>>

Requests == {"repository", "pull_request", "check_runs",
             "project_status", "gates", "measures", "issues"}

TypeOK ==
    /\ ProjectTypeOK
    /\ pc \in Requests \cup {"done"}
    /\ seen \in Gates \cup {{}}
    /\ verdict \in Verdicts \cup {"none"}
    /\ outcome \in {"none", "summary", "error"}

-------------------------------------------------------------------------------
\* The fallback of poll_quality_gate, on what the requests returned

ConditionFails(actual, c) ==
    \/ actual = Unparsable
    \/ c.error = Unparsable
    \/ c.op = "LT" /\ actual < c.error
    \/ c.op = "GT" /\ actual > c.error
    \/ c.op = "EQ" /\ actual = c.error
    \/ c.op = "NE" /\ actual # c.error
    \/ c.op = "other"

\* Seeded fault: a measure that is not there trips no condition.
DefaultGateFailsOpen(gate, answer) ==
    \E c \in gate :
        /\ Source[c.metric] \in DOMAIN answer
        /\ ConditionFails(answer[Source[c.metric]], c)

DefaultGateFails(gate, answer) ==
    \E c \in gate :
        \/ Source[c.metric] \notin DOMAIN answer
        \/ ConditionFails(answer[Source[c.metric]], c)

-------------------------------------------------------------------------------
\* The probe

Init ==
    /\ ProjectInit
    /\ pc = "repository"
    /\ seen = {}
    /\ verdict = "none"
    /\ outcome = "none"

\* The two further reads from GitHub are options of the probe.
ReadRepository ==
    /\ pc = "repository"
    /\ pc' \in {"pull_request", "check_runs", "project_status"}
    /\ UNCHANGED <<project, seen, verdict, outcome, history>>

ReadPullRequest ==
    /\ pc = "pull_request"
    /\ pc' \in {"check_runs", "project_status"}
    /\ UNCHANGED <<project, seen, verdict, outcome, history>>

ListCheckRuns ==
    /\ pc = "check_runs"
    /\ pc' = "project_status"
    /\ UNCHANGED <<project, seen, verdict, outcome, history>>

\* Seeded fault: a warning is not normalized.
PollQualityGateAsIs ==
    /\ pc = "project_status"
    /\ verdict' = CASE status = "OK" -> "passed"
                    [] status = "ERROR" -> "failed"
                    [] status = "NONE" -> "none"
                    [] OTHER -> status
    /\ pc' = IF status = "NONE" THEN "gates" ELSE "issues"
    /\ Asked
    /\ UNCHANGED <<project, seen, outcome>>

\* poll_quality_gate begins; NONE sends it to the fallback.
PollQualityGate ==
    /\ pc = "project_status"
    /\ verdict' = CASE status = "OK" -> "passed"
                    [] status \in {"ERROR", "WARN"} -> "failed"
                    [] status = "NONE" -> "none"
                    [] OTHER -> "pending"
    /\ pc' = IF status = "NONE" THEN "gates" ELSE "issues"
    /\ Asked
    /\ UNCHANGED <<project, seen, outcome>>

Fail ==
    /\ pc' = "done"
    /\ outcome' = "error"
    /\ verdict' = "none"
    /\ UNCHANGED <<project, seen, history>>

ListGates ==
    /\ pc = "gates"
    /\ conditions # {}
    /\ seen' = conditions
    /\ pc' = "measures"
    /\ UNCHANGED <<project, verdict, outcome, history>>

GateIsEmpty == pc = "gates" /\ conditions = {} /\ Fail

ReadMeasures ==
    /\ pc = "measures"
    /\ verdict' = IF DefaultGateFails(seen, Answer(SourceMetricKeys(seen)))
                  THEN "failed" ELSE "passed"
    /\ pc' = "issues"
    /\ UNCHANGED <<project, seen, outcome, history>>

SearchOpenIssues ==
    /\ pc = "issues"
    /\ pc' = "done"
    /\ outcome' = "summary"
    /\ UNCHANGED <<project, seen, verdict, history>>

\* No connection, a timeout, another status than 2xx, no JSON, a field that is
\* not there: `?` ends the probe, whatever it has read before.
RequestFails == pc \in Requests /\ Fail

-------------------------------------------------------------------------------
Probe ==
    \/ ReadRepository \/ ReadPullRequest \/ ListCheckRuns
    \/ PollQualityGate \/ ListGates \/ GateIsEmpty \/ ReadMeasures
    \/ SearchOpenIssues \/ RequestFails

FinishAnalysis == Analysis(verdict = "none") /\ UNCHANGED probe
EditGate == Edit(verdict = "none") /\ UNCHANGED probe
AssignGate == Assignment(verdict = "none") /\ UNCHANGED probe

Project == pc # "done" /\ (FinishAnalysis \/ EditGate \/ AssignGate)

Done == pc = "done" /\ UNCHANGED vars

Next == Probe \/ Project \/ Done

Spec == Init /\ [][Next]_vars

-------------------------------------------------------------------------------
\* Properties

\* A verdict is true of the project at some moment of the poll, although its
\* answers come from up to three moments: unless an analysis and a change of the
\* gate both happened in between.  NONE in particular is never left pending.
VerdictWasTrue ==
    verdict # "none" =>
        verdict \in standings \/ ("analysis" \in changes /\ changes # {"analysis"})

\* As long as the gate stays as it is, the verdict is the project's standing when
\* the probe gets it, and not that of an analysis that was replaced meanwhile:
\* the measures are read last.
VerdictIsCurrent ==
    [][verdict' \in Verdicts \ {verdict} /\ changes' \subseteq {"analysis"} =>
         verdict' = Standing(status, conditions, measures)]_vars

===============================================================================
