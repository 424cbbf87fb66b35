------------------------------- MODULE GateReport -------------------------------
(***************************************************************************)
(* CI's scripts/sonarcloud-quality-gate-report.sh, run after each scan: of *)
(* a push to the main branch or of a pull request, whose analysis is kept  *)
(* apart.  The script asks for the main branch in either case.  It polls   *)
(* the compute-engine task of the scan until SonarCloud has processed it   *)
(* or a deadline has passed, and then enforces the quality gate: that of   *)
(* the project, or on NONE the organization's default gate, which it       *)
(* evaluates with jq and awk as the runtime's probe does in Rust.          *)
(*                                                                         *)
(* curl is called without a time limit.  The checks of the environment     *)
(* before the first request are left out, and so is what is printed.       *)
(***************************************************************************)
EXTENDS SonarProject

CONSTANTS
    Timeout,        \* SONAR_CE_TIMEOUT_SECONDS
    PollInterval    \* SONAR_CE_POLL_INTERVAL_SECONDS

ASSUME ReportAssumption == Timeout \in Nat /\ PollInterval \in Nat

VARIABLES
    ceTaskId,       \* whether the scanner's report file names a task
    pullRequest,    \* whether the scan is of a pull request
    task,           \* the state of the task at SonarCloud
    renewed,        \* history: whether the task has analysed the main branch
    pc,             \* where the script is
    task_status,    \* what the last poll returned
    left,           \* seconds to the deadline
    rest,           \* seconds to sleep
    unanswered,     \* whether curl waits for an answer that never comes
    seen,           \* the conditions of the default gate, as listed
    actual,         \* the measures, as answered
    verdict,        \* what the script makes of the gate; passed is exit 0
    outcome,        \* how the script ended
    ofScan          \* history: whether the gate was asked for after that

scan == <<ceTaskId, pullRequest, task, renewed>>
script == <<pc, task_status, left, rest, unanswered, seen, actual, verdict, outcome, ofScan>>
vars == <<project, history, scan, script>>

TaskStates == {"PENDING", "IN_PROGRESS", "SUCCESS", "FAILED", "CANCELED"}
Requests == {"ce_task", "project_status", "gates", "measures"}

TypeOK ==
    /\ ProjectTypeOK
    /\ ceTaskId \in BOOLEAN /\ pullRequest \in BOOLEAN
    /\ task \in TaskStates
    /\ renewed \in BOOLEAN
    /\ pc \in Requests \cup {"report_task", "ce_check", "asleep", "done"}
    /\ task_status \in TaskStates
    /\ left \in 0..Timeout
    /\ rest \in 0..PollInterval
    /\ unanswered \in BOOLEAN
    /\ seen \in Gates \cup {{}}
    /\ DOMAIN actual \subseteq Sources
    /\ verdict \in Verdicts \cup {"none"}
    /\ outcome \in {"none", "verdict", "error", "timeout"}
    /\ ofScan \in BOOLEAN

Init ==
    /\ ProjectInit
    /\ ceTaskId \in BOOLEAN /\ pullRequest \in BOOLEAN
    /\ task = "PENDING"
    /\ renewed = FALSE
    /\ pc = "report_task"
    /\ task_status = "PENDING"
    /\ left = Timeout
    /\ rest = 0
    /\ unanswered = FALSE
    /\ seen = {}
    /\ actual = [m \in {} |-> Missing]
    /\ verdict = "none"
    /\ outcome = "none"
    /\ ofScan = FALSE

At(label) == pc = label /\ ~unanswered

Exit(how) ==
    /\ pc' = "done"
    /\ outcome' = how
    /\ UNCHANGED <<project, history, scan, task_status, left, rest, unanswered,
                   seen, actual, verdict, ofScan>>

-------------------------------------------------------------------------------
\* wait_for_compute_engine

\* report_task_value: without a task id there is nothing to wait for.
ReportTask ==
    /\ At("report_task")
    /\ pc' = IF ceTaskId THEN "ce_task" ELSE "project_status"
    /\ left' = Timeout
    /\ UNCHANGED <<project, history, scan, task_status, rest, unanswered, seen,
                   actual, verdict, outcome, ofScan>>

\* Seeded fault: the deadline is set anew with every poll.
PollTaskRenewed ==
    /\ At("ce_task")
    /\ task_status' = task
    /\ left' = Timeout
    /\ pc' = "ce_check"
    /\ UNCHANGED <<project, history, scan, rest, unanswered, seen, actual,
                   verdict, outcome, ofScan>>

PollTask ==
    /\ At("ce_task")
    /\ task_status' = task
    /\ pc' = "ce_check"
    /\ UNCHANGED <<project, history, scan, left, rest, unanswered, seen, actual,
                   verdict, outcome, ofScan>>

TaskSucceeded ==
    /\ At("ce_check")
    /\ task_status = "SUCCESS"
    /\ pc' = "project_status"
    /\ UNCHANGED <<project, history, scan, task_status, left, rest, unanswered,
                   seen, actual, verdict, outcome, ofScan>>

TaskEnded == At("ce_check") /\ task_status \in {"FAILED", "CANCELED"} /\ Exit("error")

Unfinished == At("ce_check") /\ task_status \in {"PENDING", "IN_PROGRESS"}

\* Seeded fault: the wait gives up and the gate is enforced all the same.
TimeOutReturns ==
    /\ Unfinished
    /\ left = 0
    /\ pc' = "project_status"
    /\ UNCHANGED <<project, history, scan, task_status, left, rest, unanswered,
                   seen, actual, verdict, outcome, ofScan>>

TimeOut == Unfinished /\ left = 0 /\ Exit("timeout")

Sleep ==
    /\ Unfinished
    /\ left > 0
    /\ rest' = PollInterval
    /\ pc' = "asleep"
    /\ UNCHANGED <<project, history, scan, task_status, left, unanswered, seen,
                   actual, verdict, outcome, ofScan>>

Wake ==
    /\ At("asleep")
    /\ rest = 0
    /\ pc' = "ce_task"
    /\ UNCHANGED <<project, history, scan, task_status, left, rest, unanswered,
                   seen, actual, verdict, outcome, ofScan>>

-------------------------------------------------------------------------------
\* The quality gate and enforce_default_gate_fallback

\* Seeded fault: the status is taken as it is.
ProjectStatusAsIs ==
    /\ At("project_status")
    /\ verdict' = CASE status = "OK" -> "passed"
                    [] status = "NONE" -> "none"
                    [] OTHER -> status
    /\ pc' = IF status = "NONE" THEN "gates" ELSE "done"
    /\ outcome' = IF status = "NONE" THEN "none" ELSE "verdict"
    /\ ofScan' = renewed
    /\ Asked
    /\ UNCHANGED <<project, scan, task_status, left, rest, unanswered, seen, actual>>

\* Any status but OK and NONE ends the script with exit 1.
ProjectStatus ==
    /\ At("project_status")
    /\ verdict' = CASE status = "OK" -> "passed"
                    [] status \in {"ERROR", "WARN"} -> "failed"
                    [] status = "NONE" -> "none"
                    [] OTHER -> "pending"
    /\ pc' = IF status = "NONE" THEN "gates" ELSE "done"
    /\ outcome' = IF status = "NONE" THEN "none" ELSE "verdict"
    /\ ofScan' = renewed
    /\ Asked
    /\ UNCHANGED <<project, scan, task_status, left, rest, unanswered, seen, actual>>

ListGates ==
    /\ At("gates")
    /\ conditions # {}
    /\ seen' = conditions
    /\ pc' = "measures"
    /\ UNCHANGED <<project, history, scan, task_status, left, rest, unanswered,
                   actual, verdict, outcome, ofScan>>

GateIsEmpty == At("gates") /\ conditions = {} /\ Exit("error")

\* awk takes what it cannot read as a number for 0.
Numeric(value) == IF value \in Numbers THEN value ELSE 0

\* condition_is_failing: another comparator than these ends awk with status 2,
\* which the script's `elif` takes for not failing.
ConditionIsFailing(value, c) ==
    \/ c.op = "LT" /\ Numeric(value) < Numeric(c.error)
    \/ c.op = "GT" /\ Numeric(value) > Numeric(c.error)
    \/ c.op = "EQ" /\ Numeric(value) = Numeric(c.error)
    \/ c.op = "NE" /\ Numeric(value) # Numeric(c.error)

\* Seeded fault: a measure that is not there is compared as 0.
FallbackFailsOpen(gate, values) ==
    \E c \in gate :
        LET k == Source[c.metric] IN
        ConditionIsFailing(IF k \in DOMAIN values THEN values[k] ELSE 0, c)

FallbackFails(gate, values) ==
    \E c \in gate :
        \/ Source[c.metric] \notin DOMAIN values
        \/ ConditionIsFailing(values[Source[c.metric]], c)

Measures ==
    /\ At("measures")
    /\ actual' = Answer(SourceMetricKeys(seen))
    /\ verdict' = IF FallbackFails(seen, actual') THEN "failed" ELSE "passed"
    /\ pc' = "done"
    /\ outcome' = "verdict"
    /\ UNCHANGED <<project, history, scan, task_status, left, rest, unanswered,
                   seen, ofScan>>

-------------------------------------------------------------------------------
\* curl fails, the status is not 2xx, jq cannot read the answer, or the task is in
\* none of the states the script knows.
RequestFails == (\E r \in Requests : At(r)) /\ Exit("error")

\* SonarCloud or the network accepts the request and stays silent.
NoAnswer ==
    /\ \E r \in Requests : At(r)
    /\ unanswered' = TRUE
    /\ UNCHANGED <<project, history, scan, pc, task_status, left, rest, seen,
                   actual, verdict, outcome, ofScan>>

Script ==
    \/ ReportTask \/ PollTask \/ TaskSucceeded \/ TaskEnded \/ TimeOut \/ Sleep \/ Wake
    \/ ProjectStatus \/ ListGates \/ GateIsEmpty \/ Measures
    \/ RequestFails \/ NoAnswer

\* A second passes; what lies behind the deadline is not told apart.
Tick ==
    /\ pc # "done"
    /\ left > 0 \/ rest > 0
    /\ left' = IF left > 0 THEN left - 1 ELSE 0
    /\ rest' = IF rest > 0 THEN rest - 1 ELSE 0
    /\ UNCHANGED <<project, history, scan, pc, task_status, unanswered, seen,
                   actual, verdict, outcome, ofScan>>

-------------------------------------------------------------------------------
\* SonarCloud

asking == verdict = "none"

\* The task is processed.
TaskProceeds ==
    /\ \/ task = "PENDING" /\ task' \in {"IN_PROGRESS", "CANCELED"}
       \/ task = "IN_PROGRESS" /\ task' \in {"FAILED", "CANCELED"}
    /\ UNCHANGED <<project, history, ceTaskId, pullRequest, renewed, script>>

\* Its success is an analysis of the main branch, or one of the pull request, which
\* changes nothing of what the script asks for.
TaskSucceeds ==
    /\ task = "IN_PROGRESS"
    /\ task' = "SUCCESS"
    /\ \/ ~pullRequest /\ Analysis(asking) /\ renewed' = TRUE
       \/ pullRequest /\ UNCHANGED <<project, history, renewed>>
    /\ UNCHANGED <<ceTaskId, pullRequest, script>>

\* Analyses of other scans, and the administrators.
ProjectChanges ==
    /\ Analysis(asking) \/ Edit(asking) \/ Assignment(asking)
    /\ UNCHANGED <<scan, script>>

SonarCloud == pc # "done" /\ (TaskProceeds \/ TaskSucceeds \/ ProjectChanges)

Done == pc = "done" /\ UNCHANGED vars

Next == Script \/ Tick \/ SonarCloud \/ Done

Spec == Init /\ [][Next]_vars

\* The shell goes on and time passes.  Nothing is asked of SonarCloud: a request
\* may remain without an answer and the task need never be processed.
FairSpec == Spec /\ WF_vars(Script) /\ WF_vars(Tick)

-------------------------------------------------------------------------------
\* Properties

\* After a push to the main branch the gate is judged on the analysis of that scan
\* or a later one, never on the one before it, if the scanner left the id of its
\* task.  A pull request is always judged on the main branch as it was, or as other
\* scans have made it meanwhile.
VerdictIsOfTheScan == verdict # "none" /\ ceTaskId /\ ~pullRequest => ofScan

\* Waiting for a task that is never processed comes to an end, unless a request is
\* never answered.
ReportEnds == <>(pc = "done" \/ unanswered)

\* "The runtime external probe uses the same organization default gate fallback":
\* with its waiting hidden, the script is the gate part of the probe.
Probe == INSTANCE ExternalProbe WITH
    pc <- IF pc \in {"report_task", "ce_task", "ce_check", "asleep"} THEN "repository"
          ELSE IF outcome = "verdict" THEN "issues"
          ELSE pc,
    outcome <- IF outcome \in {"error", "timeout"} THEN "error" ELSE "none"

SameFallback == Probe!Spec

\* On the same answers the script and the probe come to the same verdict.
SameVerdict ==
    pc = "done" /\ seen # {} /\ verdict # "none" =>
        (verdict = "failed" <=> Probe!DefaultGateFails(seen, actual))

===============================================================================
