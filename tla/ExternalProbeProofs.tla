-------------------------- MODULE ExternalProbeProofs --------------------------
(***************************************************************************)
(* Theorems about ExternalProbe, for any metrics, numbers and gates, and   *)
(* for any number of analyses, edits and assignments during the poll.      *)
(***************************************************************************)
EXTENDS ExternalProbe, TLAPS

Values == Numbers \cup {Missing, Unparsable}

\* SonarCloud's view of one condition and the code's view agree.
LEMMA ConditionExact ==
    ASSUME NEW c \in Conditions, NEW v \in Values
    PROVE  Meets(v, c) <=> v # Missing /\ ~ConditionFails(v, c)
<1> USE ProjectAssumption DEF Conditions, Values, Meets, ConditionFails
<1>1. CASE v = Missing \/ v = Unparsable \/ c.error = Unparsable
  BY <1>1
<1>2. CASE v \in Numbers /\ c.error \in Numbers
  <2>1. v \in Int /\ c.error \in Int /\ v # Missing /\ v # Unparsable /\ c.error # Unparsable
    BY <1>2
  <2>2. c.op \in {"LT", "GT", "EQ", "NE", "other"}
    OBVIOUS
  <2>3. CASE c.op = "LT"
    BY <1>2, <2>1, <2>3
  <2>4. CASE c.op = "GT"
    BY <1>2, <2>1, <2>4
  <2>5. CASE c.op = "EQ"
    BY <1>2, <2>1, <2>5
  <2>6. CASE c.op = "NE"
    BY <1>2, <2>1, <2>6
  <2>7. CASE c.op = "other"
    BY <1>2, <2>1, <2>7
  <2>8. QED
    BY <2>2, <2>3, <2>4, <2>5, <2>6, <2>7
<1>3. QED
  BY <1>1, <1>2

\* The fallback asks for all the measures it needs, and fails exactly when the
\* project does not meet the gate.
LEMMA FallbackExact ==
    ASSUME TypeOK, NEW gate \in Gates
    PROVE  DefaultGateFails(gate, Answer(SourceMetricKeys(gate)))
             <=> \E c \in gate : ~Meets(measures[Source[c.metric]], c)
<1> DEFINE answer == Answer(SourceMetricKeys(gate))
<1>1. ASSUME NEW c \in gate
      PROVE  /\ c \in Conditions
             /\ Source[c.metric] \in SourceMetricKeys(gate) \cap Sources
             /\ measures[Source[c.metric]] \in Values
  <2>1. c \in Conditions
    BY ProjectAssumption
  <2>2. c.metric \in Metrics
    BY <2>1 DEF Conditions
  <2>3. Source[c.metric] \in Sources
    BY <2>2 DEF Sources
  <2>4. QED
    BY <2>1, <2>3, ProjectAssumption DEF SourceMetricKeys, TypeOK, ProjectTypeOK, Values
<1>2. ASSUME NEW c \in gate
      PROVE  Source[c.metric] \notin DOMAIN answer \/ ConditionFails(answer[Source[c.metric]], c)
               <=> ~Meets(measures[Source[c.metric]], c)
  <2> DEFINE k == Source[c.metric]
  <2>1. k \in DOMAIN answer <=> measures[k] # Missing
    BY <1>1 DEF Answer
  <2>2. k \in DOMAIN answer => answer[k] = measures[k]
    BY DEF Answer
  <2>3. Meets(measures[k], c) <=> measures[k] # Missing /\ ~ConditionFails(measures[k], c)
    BY <1>1, ConditionExact
  <2> HIDE DEF answer
  <2>4. CASE k \in DOMAIN answer
    BY <2>1, <2>2, <2>3, <2>4
  <2>5. CASE k \notin DOMAIN answer
    BY <2>1, <2>3, <2>5
  <2>6. QED
    BY <2>4, <2>5
<1>3. QED
  BY <1>2 DEF DefaultGateFails

-------------------------------------------------------------------------------
\* While the fallback is under way there is no verdict yet.
Undecided == pc \in Requests \ {"issues"} => verdict = "none"

\* The standing of the project is recorded, and it is the default gate's as long
\* as no assignment and analysis together have made it another.
Recorded ==
    pc \in {"gates", "measures"} =>
        /\ Standing(status, conditions, measures) \in standings
        /\ "assignment" \notin changes => ~assigned
        /\ "analysis" \notin changes \/ changes = {"analysis"} => status = "NONE"

\* The conditions the fallback has seen are still those of the gate, or it was
\* edited; what they say of the measures was the standing then, or the measures
\* are new.
SeenWas ==
    pc = "measures" =>
        /\ seen \in Gates /\ seen # {}
        /\ "edit" \notin changes => seen = conditions
        /\ "analysis" \notin changes => Standing("NONE", seen, measures) \in standings

Inv ==
    /\ TypeOK
    /\ Undecided
    /\ Recorded
    /\ SeenWas
    /\ VerdictWasTrue

LEMMA StandingType ==
    ASSUME NEW st, NEW gate, NEW values
    PROVE  Standing(st, gate, values) \in Verdicts \cup {"undecided"}
  BY DEF Standing, Verdicts

LEMMA InitInv == Init => Inv
  BY DEF Init, ProjectInit, Statuses, Inv, TypeOK, ProjectTypeOK, Undecided, Recorded,
         SeenWas, VerdictWasTrue, Requests, Verdicts

LEMMA TypeStep == TypeOK /\ [Next]_vars => TypeOK'
<1> SUFFICES ASSUME TypeOK, [Next]_vars PROVE TypeOK'
  OBVIOUS
<1> USE DEF TypeOK, ProjectTypeOK, Requests, Verdicts, project, history, probe
<1>1. CASE ReadRepository \/ ReadPullRequest \/ ListCheckRuns \/ SearchOpenIssues
  BY <1>1 DEF ReadRepository, ReadPullRequest, ListCheckRuns, SearchOpenIssues
<1>2. CASE PollQualityGate
  <2>1. standings' \in SUBSET (Verdicts \cup {"undecided"})
    BY <1>2, StandingType DEF PollQualityGate, Asked
  <2>2. verdict' \in Verdicts \cup {"none"}
    BY <1>2 DEF PollQualityGate
  <2>3. QED
    BY <1>2, <2>1, <2>2 DEF PollQualityGate, Asked
<1>3. CASE ListGates
  BY <1>3 DEF ListGates
<1>4. CASE GateIsEmpty \/ RequestFails
  BY <1>4 DEF GateIsEmpty, RequestFails, Fail
<1>5. CASE ReadMeasures
  BY <1>5 DEF ReadMeasures
<1>6. CASE FinishAnalysis
  <2>1. standings' \in SUBSET (Verdicts \cup {"undecided"})
    BY <1>6, StandingType DEF FinishAnalysis, Analysis, Observe
  <2>2. QED
    BY <1>6, <2>1 DEF FinishAnalysis, Analysis, Observe, Statuses
<1>7. CASE EditGate
  <2>1. standings' \in SUBSET (Verdicts \cup {"undecided"})
    BY <1>7, StandingType DEF EditGate, Edit, Observe
  <2>2. QED
    BY <1>7, <2>1 DEF EditGate, Edit, Observe
<1>8. CASE AssignGate
  <2>1. standings' \in SUBSET (Verdicts \cup {"undecided"})
    BY <1>8, StandingType DEF AssignGate, Assignment, Observe
  <2>2. QED
    BY <1>8, <2>1 DEF AssignGate, Assignment, Observe
<1>9. CASE UNCHANGED vars
  BY <1>9 DEF vars
<1>10. QED
  BY <1>1, <1>2, <1>3, <1>4, <1>5, <1>6, <1>7, <1>8, <1>9 DEF Next, Probe, Project, Done

\* The verdict of the fallback is the gate's as it was seen, on the measures now.
LEMMA FallbackVerdict ==
    ASSUME TypeOK, SeenWas, ReadMeasures
    PROVE  verdict' = Standing("NONE", seen, measures)
<1>1. seen \in Gates /\ seen # {}
  BY DEF SeenWas, ReadMeasures
<1>2. QED
  BY <1>1, FallbackExact DEF ReadMeasures, Standing

LEMMA NextInv == Inv /\ [Next]_vars => Inv'
<1> SUFFICES ASSUME Inv, [Next]_vars PROVE Inv'
  OBVIOUS
<1> USE DEF Inv, project, history, probe, Requests
<1>0. TypeOK'
  BY TypeStep
<1>1. CASE ReadRepository \/ ReadPullRequest \/ ListCheckRuns \/ SearchOpenIssues
  BY <1>0, <1>1 DEF ReadRepository, ReadPullRequest, ListCheckRuns, SearchOpenIssues,
                    Undecided, Recorded, SeenWas, VerdictWasTrue
<1>2. CASE PollQualityGate
  <2>1. Undecided' /\ SeenWas'
    BY <1>2 DEF PollQualityGate, Undecided, SeenWas
  <2>2. Recorded'
    BY <1>2 DEF PollQualityGate, Asked, Recorded, TypeOK, ProjectTypeOK
  <2>3. VerdictWasTrue'
    BY <1>2 DEF PollQualityGate, Asked, VerdictWasTrue, Standing, Statuses,
                TypeOK, ProjectTypeOK
  <2>4. QED
    BY <1>0, <2>1, <2>2, <2>3
<1>3. CASE ListGates
  <2>1. Undecided' /\ Recorded' /\ VerdictWasTrue'
    BY <1>3 DEF ListGates, Undecided, Recorded, VerdictWasTrue
  <2>2. SeenWas'
    BY <1>3 DEF ListGates, Recorded, SeenWas, TypeOK, ProjectTypeOK
  <2>3. QED
    BY <1>0, <2>1, <2>2
<1>4. CASE GateIsEmpty \/ RequestFails
  BY <1>0, <1>4 DEF GateIsEmpty, RequestFails, Fail, Undecided, Recorded, SeenWas,
                    VerdictWasTrue
<1>5. CASE ReadMeasures
  <2>1. Undecided' /\ Recorded' /\ SeenWas'
    BY <1>5 DEF ReadMeasures, Undecided, Recorded, SeenWas
  <2>2. verdict' = Standing("NONE", seen, measures)
    BY <1>5, FallbackVerdict
  <2>3. CASE "analysis" \notin changes
    BY <1>0, <1>5, <2>1, <2>2, <2>3 DEF ReadMeasures, SeenWas, VerdictWasTrue
  <2>4. CASE changes = {"analysis"}
    BY <1>0, <1>5, <2>1, <2>2, <2>4 DEF ReadMeasures, Recorded, SeenWas, VerdictWasTrue
  <2>5. CASE "analysis" \in changes /\ changes # {"analysis"}
    BY <1>0, <1>5, <2>1, <2>5 DEF ReadMeasures, VerdictWasTrue
  <2>6. QED
    BY <2>3, <2>4, <2>5
<1>6. CASE FinishAnalysis
  <2>1. pc' = pc /\ verdict' = verdict /\ seen' = seen
    BY <1>6 DEF FinishAnalysis
  <2>2. Undecided'
    BY <2>1 DEF Undecided
  <2>3. CASE verdict = "none"
    <3>1. Standing(status', conditions', measures') \in standings' /\ standings \subseteq standings'
      BY <1>6, <2>3 DEF FinishAnalysis, Analysis, Observe
    <3>2. changes' = changes \cup {"analysis"}
      BY <1>6, <2>3 DEF FinishAnalysis, Analysis, Observe
    <3>3. Recorded'
      BY <1>6, <2>1, <3>1, <3>2 DEF FinishAnalysis, Analysis, Recorded, Standing
    <3>4. SeenWas'
      BY <1>6, <2>1, <3>1, <3>2 DEF FinishAnalysis, Analysis, SeenWas
    <3>5. VerdictWasTrue'
      BY <2>1, <2>3 DEF VerdictWasTrue
    <3>6. QED
      BY <1>0, <2>2, <3>3, <3>4, <3>5
  <2>4. CASE verdict # "none"
    <3>1. pc' \notin {"gates", "measures"}
      BY <2>1, <2>4 DEF Undecided
    <3>2. UNCHANGED history
      BY <1>6, <2>4 DEF FinishAnalysis, Analysis, Observe
    <3>3. QED
      BY <1>0, <2>1, <2>2, <3>1, <3>2 DEF Recorded, SeenWas, VerdictWasTrue
  <2>5. QED
    BY <2>3, <2>4
<1>7. CASE EditGate
  <2>1. pc' = pc /\ verdict' = verdict /\ seen' = seen
    BY <1>7 DEF EditGate
  <2>2. Undecided'
    BY <2>1 DEF Undecided
  <2>3. CASE verdict = "none"
    <3>1. Standing(status', conditions', measures') \in standings' /\ standings \subseteq standings'
      BY <1>7, <2>3 DEF EditGate, Edit, Observe
    <3>2. changes' = changes \cup {"edit"}
      BY <1>7, <2>3 DEF EditGate, Edit, Observe
    <3>3. Recorded'
      BY <1>7, <2>1, <3>1, <3>2 DEF EditGate, Edit, Recorded, Standing
    <3>4. SeenWas'
      BY <1>7, <2>1, <3>1, <3>2 DEF EditGate, Edit, SeenWas
    <3>5. VerdictWasTrue'
      BY <2>1, <2>3 DEF VerdictWasTrue
    <3>6. QED
      BY <1>0, <2>2, <3>3, <3>4, <3>5
  <2>4. CASE verdict # "none"
    <3>1. pc' \notin {"gates", "measures"}
      BY <2>1, <2>4 DEF Undecided
    <3>2. UNCHANGED history
      BY <1>7, <2>4 DEF EditGate, Edit, Observe
    <3>3. QED
      BY <1>0, <2>1, <2>2, <3>1, <3>2 DEF Recorded, SeenWas, VerdictWasTrue
  <2>5. QED
    BY <2>3, <2>4
<1>8. CASE AssignGate
  <2>1. pc' = pc /\ verdict' = verdict /\ seen' = seen
    BY <1>8 DEF AssignGate
  <2>2. Undecided'
    BY <2>1 DEF Undecided
  <2>3. CASE verdict = "none"
    <3>1. Standing(status', conditions', measures') \in standings' /\ standings \subseteq standings'
      BY <1>8, <2>3 DEF AssignGate, Assignment, Observe
    <3>2. changes' = changes \cup {"assignment"}
      BY <1>8, <2>3 DEF AssignGate, Assignment, Observe
    <3>3. Recorded'
      BY <1>8, <2>1, <3>1, <3>2 DEF AssignGate, Assignment, Recorded, Standing
    <3>4. SeenWas'
      BY <1>8, <2>1, <3>1, <3>2 DEF AssignGate, Assignment, SeenWas
    <3>5. VerdictWasTrue'
      BY <2>1, <2>3 DEF VerdictWasTrue
    <3>6. QED
      BY <1>0, <2>2, <3>3, <3>4, <3>5
  <2>4. CASE verdict # "none"
    <3>1. pc' \notin {"gates", "measures"}
      BY <2>1, <2>4 DEF Undecided
    <3>2. UNCHANGED history
      BY <1>8, <2>4 DEF AssignGate, Assignment, Observe
    <3>3. QED
      BY <1>0, <2>1, <2>2, <3>1, <3>2 DEF Recorded, SeenWas, VerdictWasTrue
  <2>5. QED
    BY <2>3, <2>4
<1>9. CASE UNCHANGED vars
  BY <1>0, <1>9 DEF vars, Undecided, Recorded, SeenWas, VerdictWasTrue
<1>10. QED
  BY <1>1, <1>2, <1>3, <1>4, <1>5, <1>6, <1>7, <1>8, <1>9 DEF Next, Probe, Project, Done

-------------------------------------------------------------------------------
\* Every variable of the probe keeps its type.
THEOREM TypeCorrect == Spec => []TypeOK
<1>1. Init => TypeOK
  BY InitInv DEF Inv
<1>2. QED
  BY <1>1, TypeStep, PTL DEF Spec

\* Whatever the gates, measures and changes during the poll: a verdict was true at
\* some moment of it, unless an analysis and a change of the gate met in it.
THEOREM VerdictTrue == Spec => []VerdictWasTrue
<1>1. Inv => VerdictWasTrue
  BY DEF Inv
<1>2. QED
  BY <1>1, InitInv, NextInv, PTL DEF Spec

\* Only poll_quality_gate and its fallback come to a verdict, and with the gate
\* unchanged it is the standing of the project they find.
LEMMA CurrentStep ==
    ASSUME Inv, Next, verdict' \in Verdicts \ {verdict}, changes' \subseteq {"analysis"}
    PROVE  verdict' = Standing(status, conditions, measures)
<1> USE DEF Inv
<1>1. PollQualityGate \/ ReadMeasures
  BY DEF Next, Probe, Project, Done, ReadRepository, ReadPullRequest, ListCheckRuns,
         ListGates, GateIsEmpty, SearchOpenIssues, RequestFails, Fail, FinishAnalysis,
         EditGate, AssignGate, probe, vars, Verdicts
<1>2. CASE PollQualityGate
  BY <1>2 DEF PollQualityGate, Asked, Standing, Verdicts, Statuses, TypeOK, ProjectTypeOK
<1>3. CASE ReadMeasures
  <2>1. verdict' = Standing("NONE", seen, measures)
    BY <1>3, FallbackVerdict
  <2>2. changes \subseteq {"analysis"} /\ changes \in SUBSET {"analysis", "edit", "assignment"}
    BY <1>3 DEF ReadMeasures, history, TypeOK, ProjectTypeOK
  <2>3. status = "NONE" /\ seen = conditions
    BY <1>3, <2>2 DEF ReadMeasures, Recorded, SeenWas
  <2>4. QED
    BY <2>1, <2>3
<1>4. QED
  BY <1>1, <1>2, <1>3

\* With the gate unchanged the verdict is never that of an analysis which has been
\* replaced: the measures are read last.
THEOREM VerdictCurrent == Spec => VerdictIsCurrent
<1>1. Inv /\ [Next]_vars =>
        [verdict' \in Verdicts \ {verdict} /\ changes' \subseteq {"analysis"} =>
           verdict' = Standing(status, conditions, measures)]_vars
  BY CurrentStep
<1>2. QED
  BY <1>1, InitInv, NextInv, PTL DEF Spec, VerdictIsCurrent

===============================================================================
