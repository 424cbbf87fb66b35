---------------------------- MODULE GateReportProofs ----------------------------
(***************************************************************************)
(* Theorems about GateReport, for any metrics, gates and measures, and for *)
(* any timeout and poll interval.                                          *)
(***************************************************************************)
EXTENDS GateReport, TLAPS

\* Before the script is done it has no verdict, and a task that succeeded once
\* has succeeded for ever.
Inv ==
    /\ TypeOK
    /\ pc # "done" => verdict = "none" /\ outcome = "none"
    /\ outcome \in {"error", "timeout"} => verdict = "none"
    /\ pc \in {"ce_task", "ce_check", "asleep"} => ceTaskId
    /\ pc = "ce_check" /\ task_status = "SUCCESS" => task = "SUCCESS"
    /\ pc = "project_status" /\ ceTaskId => task = "SUCCESS"
    /\ task = "SUCCESS" /\ ~pullRequest => renewed
    /\ pc \in {"gates", "measures"} /\ ceTaskId /\ ~pullRequest => ofScan
    /\ pc = "measures" => seen \in Gates /\ seen # {}
    /\ VerdictIsOfTheScan

LEMMA StandingType ==
    ASSUME NEW st, NEW gate, NEW values
    PROVE  Standing(st, gate, values) \in Verdicts \cup {"undecided"}
  BY DEF Standing, Verdicts

LEMMA AnswerDomain ==
    ASSUME NEW keys
    PROVE  DOMAIN Answer(keys) \subseteq Sources
  BY DEF Answer

LEMMA InitInv == Init => Inv
<1> SUFFICES ASSUME Init PROVE Inv
  OBVIOUS
<1>1. ProjectTypeOK
  BY DEF Init, ProjectInit, ProjectTypeOK, Statuses
<1>2. left \in 0..Timeout /\ rest \in 0..PollInterval
  BY ReportAssumption DEF Init
<1>3. DOMAIN actual = {}
  BY DEF Init
<1>4. TypeOK
  BY <1>1, <1>2, <1>3 DEF Init, TypeOK, TaskStates, Requests
<1>5. QED
  BY <1>4 DEF Init, Inv, VerdictIsOfTheScan

\* The changes of the project keep the types of its variables.
LEMMA ProjectType ==
    ASSUME ProjectTypeOK, NEW a \in BOOLEAN, Analysis(a) \/ Edit(a) \/ Assignment(a)
    PROVE  ProjectTypeOK'
<1>1. standings' \in SUBSET (Verdicts \cup {"undecided"})
  BY StandingType DEF ProjectTypeOK, Analysis, Edit, Assignment, Observe, history
<1>2. changes' \in SUBSET {"analysis", "edit", "assignment"}
  BY DEF ProjectTypeOK, Analysis, Edit, Assignment, Observe, history
<1>3. /\ assigned' \in BOOLEAN
      /\ status' \in Statuses
      /\ conditions' \in Gates
      /\ measures' \in [Sources -> Measured]
  BY DEF ProjectTypeOK, Analysis, Edit, Assignment, Statuses
<1>4. QED
  BY <1>1, <1>2, <1>3 DEF ProjectTypeOK

LEMMA NextInv == Inv /\ [Next]_vars => Inv'
<1> SUFFICES ASSUME Inv, [Next]_vars PROVE Inv'
  OBVIOUS
<1> USE DEF Inv, TypeOK, project, history, scan, script, TaskStates, Requests, At
<1>p. ASSUME UNCHANGED <<project, history>> PROVE ProjectTypeOK'
  BY <1>p DEF ProjectTypeOK
<1>1. CASE ReportTask
  BY <1>1, <1>p, ReportAssumption DEF ReportTask, VerdictIsOfTheScan
<1>2. CASE PollTask
  BY <1>2, <1>p DEF PollTask, VerdictIsOfTheScan
<1>3. CASE TaskSucceeded
  BY <1>3, <1>p DEF TaskSucceeded, VerdictIsOfTheScan
<1>4. CASE TaskEnded \/ TimeOut \/ GateIsEmpty \/ RequestFails
  BY <1>4, <1>p DEF TaskEnded, TimeOut, Unfinished, GateIsEmpty, RequestFails, Exit,
                    VerdictIsOfTheScan
<1>5. CASE Sleep
  BY <1>5, <1>p, ReportAssumption DEF Sleep, Unfinished, VerdictIsOfTheScan
<1>6. CASE Wake
  BY <1>6, <1>p DEF Wake, VerdictIsOfTheScan
<1>7. CASE ProjectStatus
  <2>1. ProjectTypeOK'
    BY <1>7, StandingType DEF ProjectStatus, Asked, ProjectTypeOK
  <2>2. verdict' \in Verdicts \cup {"none"}
    BY <1>7 DEF ProjectStatus, Verdicts
  <2>3. QED
    BY <1>7, <2>1, <2>2 DEF ProjectStatus, VerdictIsOfTheScan
<1>8. CASE ListGates
  BY <1>8, <1>p DEF ListGates, VerdictIsOfTheScan, ProjectTypeOK
<1>9. CASE Measures
  BY <1>9, <1>p, AnswerDomain DEF Measures, VerdictIsOfTheScan, Verdicts
<1>10. CASE NoAnswer
  BY <1>10, <1>p DEF NoAnswer, VerdictIsOfTheScan
<1>11. CASE Tick
  BY <1>11, <1>p, ReportAssumption DEF Tick, VerdictIsOfTheScan
<1>12. CASE SonarCloud
  <2>1. ProjectTypeOK'
    BY <1>12, <1>p, ProjectType
    DEF SonarCloud, TaskProceeds, TaskSucceeds, ProjectChanges, asking
  <2>2. /\ UNCHANGED <<ceTaskId, pullRequest, script>>
        /\ task' \in TaskStates /\ renewed' \in BOOLEAN
        /\ task = "SUCCESS" => task' = "SUCCESS" /\ renewed' = renewed
        /\ task' = "SUCCESS" /\ task # "SUCCESS" /\ ~pullRequest => renewed'
    BY <1>12 DEF SonarCloud, TaskProceeds, TaskSucceeds, ProjectChanges
  <2>3. QED
    BY <2>1, <2>2 DEF VerdictIsOfTheScan, ProjectTypeOK
<1>13. CASE UNCHANGED vars
  BY <1>13, <1>p DEF vars, VerdictIsOfTheScan
<1>14. QED
  BY <1>1, <1>2, <1>3, <1>4, <1>5, <1>6, <1>7, <1>8, <1>9, <1>10, <1>11, <1>12, <1>13
  DEF Next, Script, Done

\* Every variable of the report keeps its type.
THEOREM TypeCorrect == Spec => []TypeOK
<1>1. Inv => TypeOK
  BY DEF Inv
<1>2. QED
  BY <1>1, InitInv, NextInv, PTL DEF Spec

\* Whatever SonarCloud does and however long it takes, the verdict on a push to the
\* main branch is about the analysis of that scan or a later one.
THEOREM ReportIsOfTheScan == Spec => []VerdictIsOfTheScan
<1>1. Inv => VerdictIsOfTheScan
  BY DEF Inv
<1>2. QED
  BY <1>1, InitInv, NextInv, PTL DEF Spec

-------------------------------------------------------------------------------
\* The script and the probe

\* Gates and measures on which awk and Rust read the same numbers.
Sound ==
    /\ \A gate \in Gates : \A c \in gate :
           c.op \in {"LT", "GT", "EQ", "NE"} /\ c.error \in Numbers
    /\ Measured \subseteq Numbers \cup {Missing}

\* On them awk's verdict on a condition is that of the probe.
LEMMA SameCondition ==
    ASSUME NEW c, c.op \in {"LT", "GT", "EQ", "NE"}, c.error \in Numbers,
           NEW value \in Numbers
    PROVE  ConditionIsFailing(value, c) <=> Probe!ConditionFails(value, c)
<1>1. value # Unparsable /\ c.error # Unparsable
  BY ProjectAssumption
<1>2. Numeric(value) = value /\ Numeric(c.error) = c.error
  BY DEF Numeric
<1>3. QED
  BY <1>1, <1>2 DEF ConditionIsFailing, Probe!ConditionFails

LEMMA SameFails ==
    ASSUME Sound, TypeOK, NEW gate \in Gates
    PROVE  LET values == Answer(SourceMetricKeys(gate)) IN
           FallbackFails(gate, values) <=> Probe!DefaultGateFails(gate, values)
<1> DEFINE values == Answer(SourceMetricKeys(gate))
<1>1. ASSUME NEW k \in DOMAIN values
      PROVE  values[k] \in Numbers
  BY <1>1 DEF Sound, Answer, TypeOK, ProjectTypeOK
<1>2. ASSUME NEW c \in gate, Source[c.metric] \in DOMAIN values
      PROVE  ConditionIsFailing(values[Source[c.metric]], c)
                 <=> Probe!ConditionFails(values[Source[c.metric]], c)
  BY <1>1, <1>2, SameCondition DEF Sound
<1> HIDE DEF values
<1>3. FallbackFails(gate, values) <=> Probe!DefaultGateFails(gate, values)
  BY <1>2 DEF FallbackFails, Probe!DefaultGateFails
<1>4. QED
  BY <1>3 DEF values

LEMMA ProbeInit == Init => Probe!Init
  BY DEF Init, ProjectInit, Probe!Init, Probe!ProjectInit, Statuses, Probe!Statuses,
         Sources, Probe!Sources

\* What happens to the project is the same seen from the script and the probe.
LEMMA SameProject ==
    ASSUME NEW a
    PROVE  /\ Analysis(a) => Probe!Analysis(a)
           /\ Edit(a) => Probe!Edit(a)
           /\ Assignment(a) => Probe!Assignment(a)
  BY DEF Analysis, Edit, Assignment, Observe, Standing, Meets, Sources, Statuses, history,
         Probe!Analysis, Probe!Edit, Probe!Assignment, Probe!Observe, Probe!Standing,
         Probe!Meets, Probe!Sources, Probe!Statuses, Probe!history

LEMMA ProbeStep ==
    ASSUME Sound, Inv, [Next]_vars
    PROVE  [Probe!Next]_(Probe!vars)
<1> USE DEF Inv, At, project, history, scan, script, Requests, Probe!Requests,
            Probe!vars, Probe!probe, Probe!project, Probe!history
<1>1. CASE ReportTask
  <2>1. CASE ceTaskId
    BY <1>1, <2>1 DEF ReportTask
  <2>2. CASE ~ceTaskId
    <3>1. Probe!ReadRepository
      BY <1>1, <2>2 DEF ReportTask, Probe!ReadRepository
    <3>2. QED
      BY <3>1 DEF Probe!Next, Probe!Probe
  <2>3. QED
    BY <2>1, <2>2
<1>2. CASE PollTask \/ Sleep \/ Wake
  BY <1>2 DEF PollTask, Sleep, Wake, Unfinished
<1>3. CASE TaskSucceeded
  <2>1. Probe!ReadRepository
    BY <1>3 DEF TaskSucceeded, Probe!ReadRepository
  <2>2. QED
    BY <2>1 DEF Probe!Next, Probe!Probe
<1>4. CASE TaskEnded \/ TimeOut \/ GateIsEmpty \/ RequestFails
  <2>1. Probe!RequestFails
    BY <1>4 DEF TaskEnded, TimeOut, Unfinished, GateIsEmpty, RequestFails, Exit,
                Probe!RequestFails, Probe!Fail
  <2>2. QED
    BY <2>1 DEF Probe!Next, Probe!Probe
<1>5. CASE ProjectStatus
  <2>1. Asked => Probe!Asked
    BY DEF Asked, Standing, Meets, Probe!Asked, Probe!Standing, Probe!Meets
  <2>2. Probe!PollQualityGate
    BY <1>5, <2>1 DEF ProjectStatus, Probe!PollQualityGate
  <2>3. QED
    BY <2>2 DEF Probe!Next, Probe!Probe
<1>6. CASE ListGates
  <2>1. Probe!ListGates
    BY <1>6 DEF ListGates, Probe!ListGates
  <2>2. QED
    BY <2>1 DEF Probe!Next, Probe!Probe
<1>7. CASE Measures
  <2>1. seen \in Gates
    BY <1>7 DEF Measures
  <2>2. Answer(SourceMetricKeys(seen)) = Probe!Answer(Probe!SourceMetricKeys(seen))
    BY DEF Answer, SourceMetricKeys, Sources, Probe!Answer, Probe!SourceMetricKeys,
           Probe!Sources
  <2>3. FallbackFails(seen, Answer(SourceMetricKeys(seen)))
            <=> Probe!DefaultGateFails(seen, Answer(SourceMetricKeys(seen)))
    BY <2>1, SameFails
  <2>4. Probe!ReadMeasures
    BY <1>7, <2>2, <2>3 DEF Measures, Probe!ReadMeasures
  <2>5. QED
    BY <2>4 DEF Probe!Next, Probe!Probe
<1>8. CASE NoAnswer \/ Tick
  BY <1>8 DEF NoAnswer, Tick
<1>9. CASE SonarCloud
  <2>1. CASE TaskProceeds
    BY <2>1 DEF TaskProceeds
  <2>2. CASE TaskSucceeds /\ pullRequest
    BY <2>2 DEF TaskSucceeds
  <2>3. CASE (TaskSucceeds /\ ~pullRequest) \/ ProjectChanges
    <3>1. asking <=> verdict = "none"
      BY DEF asking
    <3>2. /\ Probe!Analysis(verdict = "none") \/ Probe!Edit(verdict = "none")
                \/ Probe!Assignment(verdict = "none")
          /\ UNCHANGED script
      BY <2>3, <3>1, SameProject DEF TaskSucceeds, ProjectChanges, asking
    <3>3. Probe!Project
      BY <1>9, <3>2 DEF SonarCloud, Probe!Project, Probe!FinishAnalysis, Probe!EditGate,
                        Probe!AssignGate
    <3>4. QED
      BY <3>3 DEF Probe!Next
  <2>4. QED
    BY <1>9, <2>1, <2>2, <2>3 DEF SonarCloud
<1>10. CASE UNCHANGED vars
  BY <1>10 DEF vars
<1>11. QED
  BY <1>1, <1>2, <1>3, <1>4, <1>5, <1>6, <1>7, <1>8, <1>9, <1>10 DEF Next, Script, Done

\* On sound gates the script is the gate part of the probe, whatever SonarCloud
\* does meanwhile: what is proved of the probe's verdicts holds for CI's.
THEOREM ReportImplementsProbe ==
    ASSUME Sound
    PROVE  Spec => SameFallback
<1>1. Inv /\ [Next]_vars => [Probe!Next]_(Probe!vars)
  BY ProbeStep
<1>2. QED
  BY ProbeInit, InitInv, NextInv, <1>1, PTL DEF Spec, SameFallback, Probe!Spec

-------------------------------------------------------------------------------
\* The script looks at a gate only once, and then at its measures.
SeenLate == pc \notin {"measures", "done"} => seen = {}

LEMMA SameVerdictInit == Init => SeenLate /\ SameVerdict
  BY DEF Init, SeenLate, SameVerdict

LEMMA SameVerdictStep ==
    ASSUME Sound, Inv, SeenLate, SameVerdict, [Next]_vars
    PROVE  SeenLate' /\ SameVerdict'
<1> USE DEF Inv, At, SeenLate, SameVerdict
<1>d. ASSUME UNCHANGED <<seen, actual>>
      PROVE  Probe!DefaultGateFails(seen, actual)' <=> Probe!DefaultGateFails(seen, actual)
  BY <1>d DEF Probe!DefaultGateFails
<1>1. CASE ReportTask \/ PollTask \/ TaskSucceeded \/ Sleep \/ Wake
  BY <1>1 DEF ReportTask, PollTask, TaskSucceeded, Unfinished, Sleep, Wake
<1>2. CASE TaskEnded \/ TimeOut \/ GateIsEmpty \/ RequestFails
  BY <1>2 DEF TaskEnded, TimeOut, Unfinished, GateIsEmpty, RequestFails, Exit, Requests
<1>3. CASE ProjectStatus
  BY <1>3 DEF ProjectStatus
<1>4. CASE ListGates
  BY <1>4 DEF ListGates
<1>5. CASE Measures
  <2>1. FallbackFails(seen, Answer(SourceMetricKeys(seen)))
            <=> Probe!DefaultGateFails(seen, Answer(SourceMetricKeys(seen)))
    BY <1>5, SameFails DEF Measures
  <2>2. /\ seen' = seen
        /\ actual' = Answer(SourceMetricKeys(seen))
        /\ verdict' = "failed" <=> FallbackFails(seen, actual')
        /\ pc' = "done"
    BY <1>5 DEF Measures
  <2>3. Probe!DefaultGateFails(seen, actual)' <=> Probe!DefaultGateFails(seen, actual')
    BY <2>2 DEF Probe!DefaultGateFails
  <2>4. QED
    BY <2>1, <2>2, <2>3
<1>6. CASE NoAnswer
  BY <1>6 DEF NoAnswer, Requests
<1>7. CASE Tick \/ SonarCloud \/ UNCHANGED vars
  <2>1. UNCHANGED <<pc, seen, actual, verdict>>
    BY <1>7 DEF Tick, SonarCloud, TaskProceeds, TaskSucceeds, ProjectChanges, vars, script
  <2>2. QED
    BY <2>1, <1>d
<1>8. QED
  BY <1>1, <1>2, <1>3, <1>4, <1>5, <1>6, <1>7 DEF Next, Script, Done

\* On gates and measures that both can read, awk and the probe never disagree on
\* what was listed and answered: what the run on odd gates refutes is the reading
\* of odd comparators and thresholds, and nothing else.
THEOREM SameVerdictOnSoundGates ==
    ASSUME Sound
    PROVE  Spec => []SameVerdict
<1>1. Inv /\ SeenLate /\ SameVerdict /\ [Next]_vars => SeenLate' /\ SameVerdict'
  BY SameVerdictStep
<1>2. QED
  BY <1>1, SameVerdictInit, InitInv, NextInv, PTL DEF Spec

-------------------------------------------------------------------------------
\* After the deadline

\* The deadline has passed, and steps of the script there may be from then on.
Expired == left = 0 /\ pc # "report_task"

StepsLeft ==
    IF unanswered THEN 0
    ELSE CASE pc = "asleep"         -> 6
           [] pc = "ce_task"        -> 5
           [] pc = "ce_check"       -> 4
           [] pc = "project_status" -> 3
           [] pc = "gates"          -> 2
           [] pc = "measures"       -> 1
           [] OTHER                 -> 0

\* The deadline is never set anew, no step but the script's own gives it more to
\* do, and each of its own leaves it less.
FewStepsAfterDeadline ==
    [][Expired => /\ Expired'
                  /\ StepsLeft' \in 0..StepsLeft
                  /\ Script => StepsLeft' < StepsLeft]_vars

\* Behind the deadline the script takes six steps at most, if every request is
\* answered and whatever the answers are; there it cannot go back to sleep.
THEOREM EndsAfterDeadline == Spec => FewStepsAfterDeadline
<1>1. ASSUME Inv, Expired, [Next]_vars
      PROVE  /\ Expired'
             /\ StepsLeft' \in 0..StepsLeft
             /\ Script => StepsLeft' < StepsLeft
  <2> USE <1>1 DEF Inv, TypeOK, Requests, At, Expired, StepsLeft
  <2>1. CASE Script
    <3> SUFFICES Expired' /\ StepsLeft' \in 0..StepsLeft /\ StepsLeft' < StepsLeft
      OBVIOUS
    <3>1. CASE ReportTask \/ PollTask \/ TaskSucceeded \/ Sleep \/ Wake
      BY <3>1 DEF ReportTask, PollTask, TaskSucceeded, Unfinished, Sleep, Wake
    <3>2. CASE TaskEnded \/ TimeOut \/ GateIsEmpty \/ RequestFails
      BY <3>2 DEF TaskEnded, TimeOut, Unfinished, GateIsEmpty, RequestFails, Exit
    <3>3. CASE ProjectStatus \/ ListGates \/ Measures
      BY <3>3 DEF ProjectStatus, ListGates, Measures
    <3>4. CASE NoAnswer
      BY <3>4 DEF NoAnswer
    <3>5. QED
      BY <2>1, <3>1, <3>2, <3>3, <3>4 DEF Script
  <2>2. CASE ~Script
    <3>1. Tick \/ SonarCloud \/ UNCHANGED vars
      BY <2>2 DEF Next, Done
    <3>2. UNCHANGED <<pc, unanswered>> /\ left' = 0
      BY <3>1 DEF Tick, SonarCloud, TaskProceeds, TaskSucceeds, ProjectChanges, vars, script
    <3>3. QED
      BY <2>2, <3>2
  <2>3. QED
    BY <2>1, <2>2
<1>2. QED
  BY <1>1, InitInv, NextInv, PTL DEF Spec, FewStepsAfterDeadline

=================================================================================
