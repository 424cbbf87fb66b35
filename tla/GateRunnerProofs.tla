--------------------------- MODULE GateRunnerProofs ---------------------------
(***************************************************************************)
(* Theorems about GateRunner, for every number of streams, every pipe      *)
(* capacity, every amount of output and every timeout, with commands that  *)
(* hang, die or leave a process behind and system calls that fail.         *)
(***************************************************************************)
EXTENDS GateRunner, TLAPS

\* Nothing the command writes is lost or duplicated on its way.
Flow == \A s \in Streams : captured[s] + pipe[s] + todo[s] = output[s]

\* What the runner knows about its child at each point of run_command.
ChildKnown ==
    /\ pc = "start" => child = "none" /\ result = "none"
    /\ pc \in {"poll", "deadline", "kill"} => child \in {"running", "zombie"}
    /\ pc = "wait" => child = "zombie"
    /\ pc = "collect" => child = "reaped"
    /\ pc = "returned" <=> result # "none"

\* How a child ended is known exactly when it has ended, and one that exited
\* had nothing left to write.
StatusKnown ==
    /\ child \in {"none", "running"} => status = "none"
    /\ child \in {"zombie", "reaped"} => status # "none"
    /\ status \in {"success", "failure"} => \A s \in Streams : todo[s] = 0

\* The runner only gets to the kill once the clock has run out.
DeadlinePassed == pc \in {"kill", "wait"} => left = 0

Inv ==
    /\ TypeOK
    /\ Flow
    /\ ChildKnown
    /\ StatusKnown
    /\ DeadlinePassed
    /\ VerdictIsTheCommands
    /\ NoChildLeft
    /\ TimeoutIsDue

-------------------------------------------------------------------------------
LEMMA InitInv == Init => Inv
<1> SUFFICES ASSUME Init PROVE Inv
  OBVIOUS
<1> USE RunnerAssumption DEF Init
<1>1. TypeOK
  <2>1. 0 \in 0..Capacity /\ 0 \in 0..MaxOutput /\ Timeout \in 0..Timeout
    OBVIOUS
  <2>2. QED
    BY <2>1 DEF TypeOK, Labels, ChildStates, Statuses, Results
<1>2. Flow
  <2>1. ASSUME NEW s \in Streams PROVE 0 + 0 + output[s] = output[s]
    OBVIOUS
  <2>2. QED
    BY <2>1 DEF Flow
<1>3. ChildKnown /\ StatusKnown /\ DeadlinePassed
  BY DEF ChildKnown, StatusKnown, DeadlinePassed
<1>4. VerdictIsTheCommands /\ NoChildLeft /\ TimeoutIsDue
  BY DEF VerdictIsTheCommands, NoChildLeft, TimeoutIsDue
<1>5. QED
  BY <1>1, <1>2, <1>3, <1>4 DEF Inv

\* Reading a pipe to the end moves its content, whatever that is.
LEMMA ReadInv ==
    ASSUME Inv, NEW s \in Streams, Read(s)
    PROVE  Inv'
<1> USE DEF Inv, Read
<1>1. Flow'
  BY DEF Flow, TypeOK
<1>2. TypeOK'
  <2>1. captured[s] + pipe[s] \in 0..MaxOutput
    BY RunnerAssumption DEF TypeOK, Flow
  <2>2. QED
    BY <2>1, RunnerAssumption DEF TypeOK
<1>3. (ChildKnown /\ StatusKnown /\ DeadlinePassed)'
  BY DEF ChildKnown, StatusKnown, DeadlinePassed
<1>4. (VerdictIsTheCommands /\ NoChildLeft /\ TimeoutIsDue)'
  BY DEF VerdictIsTheCommands, NoChildLeft, TimeoutIsDue, ChildKnown
<1>5. QED
  BY <1>1, <1>2, <1>3, <1>4

\* A running command writes one unit to a pipe that has room.
LEMMA WriteInv ==
    ASSUME Inv, NEW s \in Streams, Write(s)
    PROVE  Inv'
<1> USE DEF Inv, Write
<1>1. Flow'
  BY DEF Flow, TypeOK
<1>2. TypeOK'
  BY RunnerAssumption DEF TypeOK
<1>3. (ChildKnown /\ DeadlinePassed)'
  BY DEF ChildKnown, DeadlinePassed
<1>4. StatusKnown'
  BY DEF StatusKnown
<1>5. (VerdictIsTheCommands /\ NoChildLeft /\ TimeoutIsDue)'
  BY DEF VerdictIsTheCommands, NoChildLeft, TimeoutIsDue, StatusKnown
<1>6. QED
  BY <1>1, <1>2, <1>3, <1>4, <1>5

\* When the pipes are drained and the child had nothing more to say, all of its
\* output is captured: the verdict can be given.
LEMMA CollectedInv ==
    ASSUME Inv, Collected
    PROVE  Inv'
<1> USE DEF Inv, Collected, Return, streams
<1>1. status # "signal" => captured = output
  <2>1. SUFFICES ASSUME status # "signal" PROVE captured = output
    OBVIOUS
  <2>2. status \in {"success", "failure"}
    BY <2>1 DEF ChildKnown, StatusKnown, TypeOK, Statuses
  <2>3. \A s \in Streams : captured[s] = output[s]
    BY <2>2 DEF StatusKnown, Flow, TypeOK
  <2>4. QED
    BY <2>3 DEF TypeOK
<1>2. status # "none"
  BY DEF ChildKnown, StatusKnown
<1>3. VerdictIsTheCommands'
  BY <1>1, <1>2 DEF VerdictIsTheCommands
<1>4. (TypeOK /\ Flow)'
  BY DEF TypeOK, Flow, Labels, Results
<1>5. (ChildKnown /\ StatusKnown /\ DeadlinePassed)'
  BY DEF ChildKnown, StatusKnown, DeadlinePassed
<1>6. (NoChildLeft /\ TimeoutIsDue)'
  BY DEF NoChildLeft, TimeoutIsDue, ChildKnown
<1>7. QED
  BY <1>3, <1>4, <1>5, <1>6

-------------------------------------------------------------------------------
LEMMA NextInv == Inv /\ [Next]_vars => Inv'
<1> SUFFICES ASSUME Inv, [Next]_vars PROVE Inv'
  OBVIOUS
<1> USE RunnerAssumption DEF Inv, streams, Return
<1> DEFINE Known == ChildKnown /\ StatusKnown /\ DeadlinePassed
           Promised == VerdictIsTheCommands /\ NoChildLeft /\ TimeoutIsDue
<1>a. TypeOK /\ Flow /\ Known /\ Promised
  OBVIOUS
<1>1. ASSUME NotAllowed \/ SpawnFails PROVE Inv'
  <2>1. (TypeOK /\ Flow)'
    BY <1>1 DEF NotAllowed, SpawnFails, TypeOK, Flow, Labels, Results
  <2>2. Known'
    BY <1>1 DEF NotAllowed, SpawnFails, ChildKnown, StatusKnown, DeadlinePassed
  <2>3. Promised'
    BY <1>1 DEF NotAllowed, SpawnFails, ChildKnown, VerdictIsTheCommands,
                NoChildLeft, TimeoutIsDue
  <2>4. QED
    BY <2>1, <2>2, <2>3
<1>2. ASSUME Spawn PROVE Inv'
  <2>1. (TypeOK /\ Flow)'
    BY <1>2 DEF Spawn, TypeOK, Flow, Labels, ChildStates
  <2>2. Known'
    BY <1>2 DEF Spawn, ChildKnown, StatusKnown, DeadlinePassed
  <2>3. Promised'
    BY <1>2 DEF Spawn, ChildKnown, VerdictIsTheCommands, NoChildLeft, TimeoutIsDue
  <2>4. QED
    BY <2>1, <2>2, <2>3
<1>3. ASSUME TryWaitExited \/ TryWaitRunning PROVE Inv'
  <2>1. (TypeOK /\ Flow)'
    BY <1>3 DEF TryWaitExited, TryWaitRunning, TypeOK, Flow, Labels, ChildStates
  <2>2. Known'
    BY <1>3 DEF TryWaitExited, TryWaitRunning, ChildKnown, StatusKnown, DeadlinePassed
  <2>3. Promised'
    BY <1>3 DEF TryWaitExited, TryWaitRunning, ChildKnown, VerdictIsTheCommands,
                NoChildLeft, TimeoutIsDue
  <2>4. QED
    BY <2>1, <2>2, <2>3
<1>4. ASSUME CallFails PROVE Inv'
  <2> USE DEF CallFails
  <2>1. (TypeOK /\ Flow)'
    BY <1>4 DEF TryWaitFails, KillFails, WaitFails, CollectFails, TypeOK, Flow,
                Labels, Results
  <2>2. Known'
    BY <1>4 DEF TryWaitFails, KillFails, WaitFails, CollectFails, ChildKnown,
                StatusKnown, DeadlinePassed
  <2>3. Promised'
    BY <1>4 DEF TryWaitFails, KillFails, WaitFails, CollectFails, ChildKnown,
                DeadlinePassed, VerdictIsTheCommands, NoChildLeft, TimeoutIsDue
  <2>4. QED
    BY <2>1, <2>2, <2>3
<1>5. ASSUME Deadline PROVE Inv'
  <2>1. (TypeOK /\ Flow)'
    BY <1>5 DEF Deadline, TypeOK, Flow, Labels
  <2>2. Known'
    BY <1>5 DEF Deadline, ChildKnown, StatusKnown, DeadlinePassed
  <2>3. Promised'
    BY <1>5 DEF Deadline, ChildKnown, VerdictIsTheCommands, NoChildLeft, TimeoutIsDue
  <2>4. QED
    BY <2>1, <2>2, <2>3
<1>6. ASSUME Kill PROVE Inv'
  <2>1. (TypeOK /\ Flow)'
    BY <1>6 DEF Kill, TypeOK, Flow, Labels, ChildStates, Statuses
  <2>2. Known'
    BY <1>6 DEF Kill, ChildKnown, StatusKnown, DeadlinePassed
  <2>3. Promised'
    BY <1>6 DEF Kill, ChildKnown, VerdictIsTheCommands, NoChildLeft, TimeoutIsDue
  <2>4. QED
    BY <2>1, <2>2, <2>3
<1>7. ASSUME Wait PROVE Inv'
  <2>1. (TypeOK /\ Flow)'
    BY <1>7 DEF Wait, TypeOK, Flow, Labels, ChildStates, Results
  <2>2. Known'
    BY <1>7 DEF Wait, ChildKnown, StatusKnown, DeadlinePassed
  <2>3. Promised'
    BY <1>7 DEF Wait, DeadlinePassed, VerdictIsTheCommands, NoChildLeft, TimeoutIsDue
  <2>4. QED
    BY <2>1, <2>2, <2>3
<1>8. ASSUME NEW st \in {"success", "failure", "signal"}, Exit(st) PROVE Inv'
  <2>1. (TypeOK /\ Flow)'
    BY <1>8 DEF Exit, TypeOK, Flow, ChildStates, Statuses
  <2>2. Known'
    BY <1>8 DEF Exit, ChildKnown, StatusKnown, DeadlinePassed
  <2>3. Promised'
    BY <1>8 DEF Exit, ChildKnown, StatusKnown, VerdictIsTheCommands, NoChildLeft,
                TimeoutIsDue
  <2>4. QED
    BY <2>1, <2>2, <2>3
<1>9. ASSUME LeaveBehind \/ HeirEnds PROVE Inv'
  <2>1. (TypeOK /\ Flow)'
    BY <1>9 DEF LeaveBehind, HeirEnds, TypeOK, Flow
  <2>2. Known'
    BY <1>9 DEF LeaveBehind, HeirEnds, ChildKnown, StatusKnown, DeadlinePassed
  <2>3. Promised'
    BY <1>9 DEF LeaveBehind, HeirEnds, VerdictIsTheCommands, NoChildLeft, TimeoutIsDue
  <2>4. QED
    BY <2>1, <2>2, <2>3
<1>10. ASSUME Tick PROVE Inv'
  <2>1. (TypeOK /\ Flow)'
    BY <1>10 DEF Tick, TypeOK, Flow
  <2>2. Known'
    BY <1>10 DEF Tick, ChildKnown, StatusKnown, DeadlinePassed
  <2>3. Promised'
    BY <1>10 DEF Tick, ChildKnown, VerdictIsTheCommands, NoChildLeft, TimeoutIsDue
  <2>4. QED
    BY <2>1, <2>2, <2>3
<1>11. CASE UNCHANGED vars
  <2>1. (TypeOK /\ Flow)'
    BY <1>11 DEF vars, TypeOK, Flow
  <2>2. (Known /\ Promised)'
    BY <1>11 DEF vars, ChildKnown, StatusKnown, DeadlinePassed, VerdictIsTheCommands,
                 NoChildLeft, TimeoutIsDue
  <2>3. QED
    BY <2>1, <2>2
<1>12. CASE RunGate
  BY <1>12, <1>1, <1>2, <1>3, <1>5, <1>6, <1>7, ReadInv, CollectedInv DEF RunGate
<1>13. CASE Command
  BY <1>13, <1>8, <1>9, WriteInv DEF Command
<1>14. QED
  BY <1>4, <1>10, <1>11, <1>12, <1>13 DEF Next, Done

LEMMA Invariance == Spec => []Inv
  BY InitInv, NextInv, PTL DEF Spec

-------------------------------------------------------------------------------
\* Every variable of the gate runner keeps its type: in particular no pipe ever
\* holds more than its capacity.
THEOREM TypeCorrect == Spec => []TypeOK
  BY Invariance, PTL DEF Inv

\* A gate is Passed only if the command exited successfully and all it wrote was
\* captured, and Failed by verdict only if it did not.
THEOREM VerdictCorrect == Spec => []VerdictIsTheCommands
  BY Invariance, PTL DEF Inv

\* run_command returns while its command runs on only when the kernel would not
\* kill it or report on it, and leaves a zombie only when a call has failed.
THEOREM ChildAccountedFor == Spec => []NoChildLeft
  BY Invariance, PTL DEF Inv

\* No gate is timed out before its deadline.
THEOREM TimeoutCorrect == Spec => []TimeoutIsDue
  BY Invariance, PTL DEF Inv

-------------------------------------------------------------------------------
\* Output and the capacity of a pipe

\* Nobody reads before the child is reaped, so what a command said before it exited
\* fits the pipes.
CapacityInv ==
    /\ Inv
    /\ child # "reaped" => \A s \in Streams : captured[s] = 0
    /\ status \in {"success", "failure"} => \A s \in Streams : output[s] <= Capacity

LEMMA NextCapacity == CapacityInv /\ [Next]_vars => CapacityInv'
<1> SUFFICES ASSUME CapacityInv, [Next]_vars PROVE CapacityInv'
  OBVIOUS
<1> USE DEF streams
<1>a. Inv /\ Inv' /\ TypeOK /\ ChildKnown
  BY NextInv DEF CapacityInv, Inv
<1> DEFINE Unread == child # "reaped" => \A s \in Streams : captured[s] = 0
<1> DEFINE Fits == status \in {"success", "failure"} => \A s \in Streams : output[s] <= Capacity
<1> SUFFICES Unread' /\ Fits'
  BY <1>a DEF CapacityInv
<1>b. Unread /\ Fits
  BY DEF CapacityInv
<1>1. ASSUME NEW s \in Streams, Read(s) PROVE Unread' /\ Fits'
  BY <1>1, <1>a, <1>b DEF Read, ChildKnown
<1>2. ASSUME NEW st \in {"success", "failure", "signal"}, Exit(st) PROVE Unread' /\ Fits'
  <2>1. Unread'
    BY <1>2, <1>b DEF Exit
  <2>2. ASSUME st # "signal", NEW s \in Streams PROVE output[s] <= Capacity
    <3>1. captured[s] = 0 /\ todo[s] = 0
      BY <1>2, <1>b, <2>2 DEF Exit
    <3>2. /\ captured[s] + pipe[s] + todo[s] = output[s]
          /\ pipe[s] \in Nat /\ pipe[s] <= Capacity /\ output[s] \in Nat
      BY <1>a, RunnerAssumption DEF Inv, Flow, TypeOK
    <3>3. QED
      BY <3>1, <3>2
  <2>3. Fits'
    BY <1>2, <2>2 DEF Exit
  <2>4. QED
    BY <2>1, <2>3
<1>3. CASE \/ NotAllowed \/ SpawnFails \/ Spawn \/ TryWaitExited \/ TryWaitRunning
           \/ Deadline \/ Kill \/ Wait \/ Collected \/ CallFails
  BY <1>3, <1>a, <1>b
     DEF NotAllowed, SpawnFails, Spawn, TryWaitExited, TryWaitRunning, Deadline, Kill, Wait,
         Collected, CallFails, TryWaitFails, KillFails, WaitFails, CollectFails, ChildKnown
<1>4. CASE (\E s \in Streams : Write(s)) \/ LeaveBehind \/ HeirEnds \/ Tick \/ UNCHANGED vars
  BY <1>4, <1>b DEF Write, LeaveBehind, HeirEnds, Tick, vars
<1>5. QED
  BY <1>1, <1>2, <1>3, <1>4 DEF Next, RunGate, Command, Done

LEMMA CapacityInvariance == Spec => []CapacityInv
<1>1. Init => CapacityInv
  BY InitInv DEF Init, CapacityInv
<1>2. QED
  BY <1>1, NextCapacity, PTL DEF Spec

\* A command that writes more to a stream than its pipe holds gets no verdict,
\* whatever it would have exited with: neither Passed nor Failed for what it did
\* unless a signal ended it, whatever the deadline.
THEOREM TooMuchOutputIsNotJudged ==
    Spec => [](\A s \in Streams : output[s] > Capacity =>
                  result # "passed" /\ status \notin {"success", "failure"})
<1>1. CapacityInv => \A s \in Streams : output[s] > Capacity =>
                        result # "passed" /\ status \notin {"success", "failure"}
  <2> SUFFICES ASSUME CapacityInv, NEW s \in Streams, output[s] > Capacity
               PROVE  result # "passed" /\ status \notin {"success", "failure"}
    OBVIOUS
  <2>1. output[s] \in Nat /\ Capacity \in Nat
    BY RunnerAssumption DEF CapacityInv, Inv, TypeOK
  <2>2. status \notin {"success", "failure"}
    BY <2>1 DEF CapacityInv
  <2>3. QED
    BY <2>2 DEF CapacityInv, Inv, VerdictIsTheCommands
<1>2. QED
  BY CapacityInvariance, <1>1, PTL

\* That is the only output that can cost a command its verdict: as long as what a
\* command writes fits the pipes, no timeout is due to output.
THEOREM OutputThatFits ==
    ASSUME MaxOutput <= Capacity
    PROVE  Spec => []NotTimedOutForOutput
<1>1. Inv => NotTimedOutForOutput
  <2> SUFFICES ASSUME Inv, NEW s \in Streams, todo[s] > 0 PROVE pipe[s] < Capacity
    BY DEF NotTimedOutForOutput
  <2>1. /\ captured[s] + pipe[s] + todo[s] = output[s]
        /\ captured[s] \in Nat /\ pipe[s] \in Nat /\ todo[s] \in Nat
        /\ output[s] \in Nat /\ output[s] <= MaxOutput /\ MaxOutput \in Nat /\ Capacity \in Nat
    BY RunnerAssumption DEF Inv, Flow, TypeOK
  <2>2. QED
    BY <2>1
<1>2. QED
  BY Invariance, <1>1, PTL

-------------------------------------------------------------------------------
\* What is left to do after the deadline

\* Steps that remain when the clock has run out, the reads not counted.
Remaining ==
    CASE pc = "start" -> 6
      [] pc = "poll" -> 5
      [] pc = "deadline" -> 4
      [] pc = "kill" -> 3
      [] pc = "wait" -> 2
      [] pc = "collect" -> 1
      [] pc = "returned" -> 0

NonEmpty == {s \in Streams : pipe[s] > 0}

\* After the deadline every step of run_command brings its return nearer, and no
\* step of the command, of what it left behind or of the kernel takes it away:
\* there is at most one more round of the poll loop, and pipes that are being
\* drained are not filled again.
BoundedAfterDeadline ==
    [][left = 0 =>
         /\ Remaining' <= Remaining
         /\ pc = "collect" => NonEmpty' \subseteq NonEmpty
         /\ RunGate =>
              Remaining' < Remaining \/ (pc = "collect" /\ NonEmpty' # NonEmpty)]_vars

THEOREM ReturnsAfterDeadline == Spec => BoundedAfterDeadline
<1> DEFINE Nearer ==
        left = 0 =>
          /\ Remaining' <= Remaining
          /\ pc = "collect" => NonEmpty' \subseteq NonEmpty
          /\ RunGate => Remaining' < Remaining \/ (pc = "collect" /\ NonEmpty' # NonEmpty)
<1>1. Inv /\ [Next]_vars => [Nearer]_vars
  <2> SUFFICES ASSUME Inv, Next, left = 0
               PROVE  /\ Remaining' <= Remaining
                      /\ pc = "collect" => NonEmpty' \subseteq NonEmpty
                      /\ RunGate => Remaining' < Remaining \/ (pc = "collect" /\ NonEmpty' # NonEmpty)
    BY DEF vars
  <2> USE DEF streams, Return
  <2>a. TypeOK /\ ChildKnown
    BY DEF Inv
  <2>b. Remaining \in Nat
    BY <2>a DEF Remaining, TypeOK, Labels
  <2>1. CASE RunGate /\ ~ \E s \in Streams : Read(s)
    <3>1. Remaining' < Remaining
      BY <2>1, <2>a
         DEF RunGate, NotAllowed, SpawnFails, Spawn, TryWaitExited, TryWaitRunning,
             Deadline, Kill, Wait, Collected, Remaining
    <3>2. pc = "collect" => UNCHANGED pipe
      BY <2>1 DEF RunGate, NotAllowed, SpawnFails, Spawn, TryWaitExited, TryWaitRunning,
                  Deadline, Kill, Wait, Collected
    <3>3. Remaining' \in Nat
      BY <2>1, <2>a
         DEF RunGate, NotAllowed, SpawnFails, Spawn, TryWaitExited, TryWaitRunning,
             Deadline, Kill, Wait, Collected, Remaining
    <3>4. QED
      BY <2>b, <3>1, <3>2, <3>3 DEF NonEmpty
  <2>2. ASSUME NEW s \in Streams, Read(s)
        PROVE  /\ Remaining' <= Remaining
               /\ NonEmpty' \subseteq NonEmpty
               /\ pc = "collect" /\ NonEmpty' # NonEmpty
    <3>1. pc = "collect" /\ UNCHANGED pc
      BY <2>2 DEF Read
    <3>2. pipe[s] > 0 /\ pipe' = [pipe EXCEPT ![s] = 0] /\ pipe \in [Streams -> 0..Capacity]
      BY <2>2, <2>a DEF Read, TypeOK
    <3>3. s \in NonEmpty /\ s \notin NonEmpty' /\ NonEmpty' \subseteq NonEmpty
      BY <3>2 DEF NonEmpty
    <3>4. QED
      BY <2>b, <3>1, <3>3 DEF Remaining
  <2>3. CASE ~RunGate
    <3>1. CASE CallFails
      <4>1. UNCHANGED pipe /\ Remaining' = 0
        BY <3>1 DEF CallFails, TryWaitFails, KillFails, WaitFails, CollectFails, Remaining
      <4>2. QED
        BY <2>3, <2>b, <4>1 DEF NonEmpty
    <3>2. CASE Command \/ Tick \/ Done
      <4>1. UNCHANGED pc
        BY <3>2 DEF Command, Write, Exit, LeaveBehind, HeirEnds, Tick, Done, vars
      <4>2. pc = "collect" => UNCHANGED pipe
        BY <3>2, <2>a
           DEF Command, Write, Exit, LeaveBehind, HeirEnds, Tick, Done, vars, ChildKnown
      <4>3. Remaining' = Remaining
        BY <4>1 DEF Remaining
      <4>4. QED
        BY <2>3, <2>b, <4>2, <4>3 DEF NonEmpty
    <3>3. QED
      BY <2>3, <3>1, <3>2 DEF Next
  <2>4. QED
    BY <2>1, <2>2, <2>3
<1>2. QED
  BY Invariance, <1>1, PTL DEF Spec, BoundedAfterDeadline

===============================================================================
