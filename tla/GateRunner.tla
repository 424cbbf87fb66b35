------------------------------ MODULE GateRunner ------------------------------
(***************************************************************************)
(* CommandGateExecutor of ironloom-gates: one gate command, from the       *)
(* allow-list lookup to the GateResult.  run_command starts the child with *)
(* both streams on pipes and polls: try_wait first, then the clock.  The   *)
(* pipes are read only after the child has exited.  Beside the runner move *)
(* the child, which blocks when it writes to a full pipe, the clock, and   *)
(* possibly a background process the command left behind, which inherited  *)
(* the write ends of the pipes.                                            *)
(*                                                                         *)
(* The clock counts down the ticks that are left until the deadline; the   *)
(* sleep of the poll loop is the time that passes between two polls.       *)
(***************************************************************************)
EXTENDS Naturals

CONSTANTS
    Streams,        \* the piped streams of the child
    Capacity,       \* what a pipe holds before a write to it blocks
    MaxOutput,      \* bound: what a command writes to one stream
    Timeout,        \* ticks from the start of the command to its deadline
    Background,     \* whether a command may leave a process behind
    Faults          \* whether try_wait, kill, wait and read may fail

ASSUME RunnerAssumption ==
    /\ Capacity \in Nat \ {0}
    /\ MaxOutput \in Nat
    /\ Timeout \in Nat
    /\ Background \in BOOLEAN
    /\ Faults \in BOOLEAN

VARIABLES
    pc,             \* where run_command is
    child,          \* the child process, as the kernel sees it
    status,         \* how the child ended
    output,         \* what the command writes to each stream, in all
    todo,           \* what it has still to write
    pipe,           \* what is in each pipe
    captured,       \* what wait_with_output has read
    heir,           \* whether a background process holds the write ends
    left,           \* ticks left until the deadline
    result          \* the GateResult that was returned

streams == <<output, todo, pipe, captured>>
vars == <<pc, child, status, streams, heir, left, result>>

Labels == {"start", "poll", "deadline", "kill", "wait", "collect", "returned"}
ChildStates == {"none", "running", "zombie", "reaped"}
Statuses == {"none", "success", "failure", "signal"}

\* GateStatus::Passed is "passed"; each of the others is GateStatus::Failed
\* with the exit code and the stderr text of one return statement.
Results == {"none", "passed", "failed", "not_allowed", "not_started",
            "timed_out", "not_killed", "wait_error", "capture_error"}

TypeOK ==
    /\ pc \in Labels
    /\ child \in ChildStates
    /\ status \in Statuses
    /\ output \in [Streams -> 0..MaxOutput]
    /\ todo \in [Streams -> 0..MaxOutput]
    /\ pipe \in [Streams -> 0..Capacity]
    /\ captured \in [Streams -> 0..MaxOutput]
    /\ heir \in BOOLEAN
    /\ left \in 0..Timeout
    /\ result \in Results

Init ==
    /\ pc = "start"
    /\ child = "none"
    /\ status = "none"
    /\ output \in [Streams -> 0..MaxOutput]
    /\ todo = output
    /\ pipe = [s \in Streams |-> 0]
    /\ captured = [s \in Streams |-> 0]
    /\ heir = FALSE
    /\ left = Timeout
    /\ result = "none"

Return(r) == pc' = "returned" /\ result' = r

-------------------------------------------------------------------------------
\* run_gate and run_command

\* The name is not in the allow-list.
NotAllowed ==
    /\ pc = "start"
    /\ Return("not_allowed")
    /\ UNCHANGED <<child, status, streams, heir, left>>

SpawnFails ==
    /\ pc = "start"
    /\ Return("not_started")
    /\ UNCHANGED <<child, status, streams, heir, left>>

Spawn ==
    /\ pc = "start"
    /\ child' = "running"
    /\ pc' = "poll"
    /\ UNCHANGED <<status, streams, heir, left, result>>

\* try_wait finds the child ended and reaps it.
TryWaitExited ==
    /\ pc = "poll"
    /\ child = "zombie"
    /\ child' = "reaped"
    /\ pc' = "collect"
    /\ UNCHANGED <<status, streams, heir, left, result>>

\* Seeded fault: the clock is read before try_wait.
TryWaitAfterClock ==
    /\ pc = "poll"
    /\ child = "running" \/ left = 0
    /\ pc' = "deadline"
    /\ UNCHANGED <<child, status, streams, heir, left, result>>

TryWaitRunning ==
    /\ pc = "poll"
    /\ child = "running"
    /\ pc' = "deadline"
    /\ UNCHANGED <<child, status, streams, heir, left, result>>

TryWaitFails ==
    /\ Faults
    /\ pc = "poll"
    /\ Return("wait_error")
    /\ UNCHANGED <<child, status, streams, heir, left>>

\* Seeded fault: the comparison with the deadline is the wrong way round.
DeadlineInverted ==
    /\ pc = "deadline"
    /\ pc' = IF left = 0 THEN "poll" ELSE "kill"
    /\ UNCHANGED <<child, status, streams, heir, left, result>>

\* Seeded fault: the loop goes on polling whatever the clock says.
DeadlineIgnored ==
    /\ pc = "deadline"
    /\ pc' = "poll"
    /\ UNCHANGED <<child, status, streams, heir, left, result>>

\* The clock is read after try_wait said that the child is running.
Deadline ==
    /\ pc = "deadline"
    /\ pc' = IF left = 0 THEN "kill" ELSE "poll"
    /\ UNCHANGED <<child, status, streams, heir, left, result>>

\* Seeded fault: the handle of the child is dropped, which does not kill it.
KillByDrop ==
    /\ pc = "kill"
    /\ Return("timed_out")
    /\ UNCHANGED <<child, status, streams, heir, left>>

\* A child that has ended meanwhile is still a process that can be signalled.
Kill ==
    /\ pc = "kill"
    /\ child' = "zombie"
    /\ status' = IF child = "running" THEN "signal" ELSE status
    /\ pc' = "wait"
    /\ UNCHANGED <<streams, heir, left, result>>

KillFails ==
    /\ Faults
    /\ pc = "kill"
    /\ Return("not_killed")
    /\ UNCHANGED <<child, status, streams, heir, left>>

\* The status wait returns is dropped.
Wait ==
    /\ pc = "wait"
    /\ child = "zombie"
    /\ child' = "reaped"
    /\ Return("timed_out")
    /\ UNCHANGED <<status, streams, heir, left>>

\* Its error too: the child is then left to init.
WaitFails ==
    /\ Faults
    /\ pc = "wait"
    /\ Return("timed_out")
    /\ UNCHANGED <<child, status, streams, heir, left>>

\* collect_output: wait_with_output reads both pipes until nobody holds their
\* write ends; the exit status was taken by try_wait.
Read(s) ==
    /\ pc = "collect"
    /\ pipe[s] > 0
    /\ captured' = [captured EXCEPT ![s] = @ + pipe[s]]
    /\ pipe' = [pipe EXCEPT ![s] = 0]
    /\ UNCHANGED <<pc, child, status, output, todo, heir, left, result>>

\* Seeded fault: the status is returned without draining the pipes.
CollectedUnread ==
    /\ pc = "collect"
    /\ Return(IF status = "success" THEN "passed" ELSE "failed")
    /\ UNCHANGED <<child, status, streams, heir, left>>

Collected ==
    /\ pc = "collect"
    /\ ~heir
    /\ \A s \in Streams : pipe[s] = 0
    /\ Return(IF status = "success" THEN "passed" ELSE "failed")
    /\ UNCHANGED <<child, status, streams, heir, left>>

CollectFails ==
    /\ Faults
    /\ pc = "collect"
    /\ Return("capture_error")
    /\ UNCHANGED <<child, status, streams, heir, left>>

-------------------------------------------------------------------------------
\* The command, what it leaves behind, and the clock

\* Seeded fault: a pipe takes whatever is written to it.
WriteUnblocked(s) ==
    /\ child = "running"
    /\ todo[s] > 0
    /\ todo' = [todo EXCEPT ![s] = @ - 1]
    /\ pipe' = [pipe EXCEPT ![s] = @ + 1]
    /\ UNCHANGED <<pc, child, status, output, captured, heir, left, result>>

Write(s) ==
    /\ child = "running"
    /\ todo[s] > 0
    /\ pipe[s] < Capacity
    /\ todo' = [todo EXCEPT ![s] = @ - 1]
    /\ pipe' = [pipe EXCEPT ![s] = @ + 1]
    /\ UNCHANGED <<pc, child, status, output, captured, heir, left, result>>

\* The command exits once it has written all it has to say; a signal may end it
\* before.
Exit(st) ==
    /\ child = "running"
    /\ (\A s \in Streams : todo[s] = 0) \/ st = "signal"
    /\ child' = "zombie"
    /\ status' = st
    /\ UNCHANGED <<pc, streams, heir, left, result>>

LeaveBehind ==
    /\ Background
    /\ child = "running"
    /\ heir' = TRUE
    /\ UNCHANGED <<pc, child, status, streams, left, result>>

HeirEnds ==
    /\ heir
    /\ heir' = FALSE
    /\ UNCHANGED <<pc, child, status, streams, left, result>>

Tick ==
    /\ pc \notin {"start", "returned"}
    /\ left > 0
    /\ left' = left - 1
    /\ UNCHANGED <<pc, child, status, streams, heir, result>>

-------------------------------------------------------------------------------
RunGate ==
    \/ NotAllowed \/ SpawnFails \/ Spawn
    \/ TryWaitExited \/ TryWaitRunning
    \/ Deadline
    \/ Kill \/ Wait
    \/ \E s \in Streams : Read(s)
    \/ Collected

CallFails == TryWaitFails \/ KillFails \/ WaitFails \/ CollectFails

Command ==
    \/ \E s \in Streams : Write(s)
    \/ \E st \in {"success", "failure", "signal"} : Exit(st)
    \/ LeaveBehind
    \/ HeirEnds

Done == pc = "returned" /\ UNCHANGED vars

Next == RunGate \/ CallFails \/ Command \/ Tick \/ Done

Spec == Init /\ [][Next]_vars

\* The runner's thread is scheduled and time passes; no call has to fail, and
\* nothing is assumed of the command, which may hang.
FairSpec == Spec /\ WF_vars(RunGate) /\ WF_vars(Tick)

-------------------------------------------------------------------------------
\* Properties

\* A verdict is the command's own: Passed only after it exited successfully,
\* the other verdict only after it did not, and unless it died of a signal its
\* streams were captured to the last byte.
VerdictIsTheCommands ==
    result \in {"passed", "failed"} =>
        /\ result = "passed" <=> status = "success"
        /\ status # "none"
        /\ status # "signal" => captured = output

\* When run_command has returned, its command is not running any more unless
\* the kernel refused to kill it or to report on it, and it has been reaped
\* unless the kernel refused that or the error of the last wait was dropped.
NoChildLeft ==
    pc = "returned" =>
        /\ child = "running" => result \in {"not_killed", "wait_error"}
        /\ child = "zombie" => result \in {"not_killed", "wait_error", "timed_out"}

\* Only a command that outlived its deadline is reported as timed out.
TimeoutIsDue == result \in {"timed_out", "not_killed"} => left = 0

\* A command that has ended when the loop comes back to try_wait gets the
\* verdict it earned, or the error that kept it from being read, but no timeout,
\* even if the deadline has passed while the loop slept; unless a process it left
\* behind holds its streams.
EndedCommandIsJudged ==
    (pc = "poll" /\ child = "zombie") ~>
        (heir \/ result \in {"passed", "failed", "wait_error", "capture_error"})

\* Every gate returns a structured result, whatever its command does, unless a
\* process the command left behind holds the streams for ever.
GateReturns == <>(pc = "returned") \/ <>[]heir

\* Output is captured, so having much to say is no reason to be timed out.
NotTimedOutForOutput ==
    result = "timed_out" => \A s \in Streams : todo[s] > 0 => pipe[s] < Capacity

===============================================================================
