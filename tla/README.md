# Verification of ironloom

TLA+ specifications of ironloom's own logic, TLC configurations that check them
on small instances, and TLAPS proofs of the theorems that matter most. Paths
below are relative to the repository; `storage:198` means line 198 of
`crates/ironloom-storage/src/lib.rs`, and likewise for the other crates.

    tlc -workers 2 -config StoreConcurrent.cfg MCFilesystemStore
    tlapm FilesystemStoreProofs.tla

## 1. Inventory

ironloom is an operator-controlled gate runner. A signed Discord interaction
reaches the HTTP port of the runtime; the runtime finds the work item its thread
is bound to, asks policy and process graph, lets the gate worker run an
allow-listed command, stores the result as an immutable artifact and answers. A
runtime without configuration serves a setup page instead.

| Component | State it keeps | Operations | Talks to |
| --- | --- | --- | --- |
| artifact store (`storage:176-333`) | `.ironloom/{tmp,artifacts,indexes}` | `write_artifact`, listing by thread and by work item | called by the supervisor and by `ironloom proof`, in several processes |
| thread bindings (`storage:223-258`, `discord:108-148`) | `indexes/thread-bindings/*.binding`; a list in memory | bind, resolve | runtime; seeded from outside by `scripts/k3s-acceptance.sh` |
| setup config store (`storage:92-173`) | `setup/config.enc.json` and its temporary file | `read`, `write` | runtime, every request |
| configuration (`ironloom-config`) | none: environment and stored setup in, resolved configuration out | `RuntimeConfig::resolve`, `SetupEnvironment` | runtime |
| setup surface (`runtime:678-817`, `1168-1225`, `1288-1394`) | the page in an installer's browser | `GET /setup`, `POST /setup`, two links for OAuth | setup config store, configuration |
| runtime server (`runtime:905-1096`) | the listen queue and the one connection in progress | accept, respond, reply | Discord, the kubelet, supervisor |
| supervisor (`ironloom-supervisor`), policy, process graph, worker registry | none between two calls | `run_gate_work` | gate runner, artifact store |
| gate runner (`gates:122-247`) | one child process, two pipes, a deadline | `run_gate` | the operating system |
| queue (`ironloom-queue`) | the state of a work item | `transition` | not called by the runtime yet |
| SonarCloud and GitHub adapters | none | poll, search, read, list | HTTP services; called by `external-probe` |
| quality gate report (`scripts/sonarcloud-quality-gate-report.sh`) | a deadline, the last answers | wait for the scan's task, read the gate, evaluate the default gate | SonarCloud; called by CI after each scan |
| observability, schemas, worktrees, core | none | types and validation | everyone |
| scripts, chart, image, site | deployments | acceptance, bootstrap | the built runtime |

**What is hard here.** There is no lock in the program. Several processes share
one state root: the server, `ironloom proof` run in the same container, and the
two pods of a rolling update. A process dies at any system call: the kubelet
kills the container when probes go unanswered, and any error of any connection
ends the server (`runtime:908`). The gate runner races a child, a clock and two
pipes. The setup file is read anew for each request while installers replace it
and deployments change the environment and the key that go with it. Exactly
these are the hazards listed in `PROJECT.json`.

**What makes each component correct.**

- Artifact store: an artifact is published whole or not at all and never changes;
  an index lists only artifacts that exist; what was acknowledged stays listed.
- Setup config store: it is a register. A crash or power loss brings back a
  whole value, and a read never sees a torn one.
- Gate runner: the verdict is the command's own, a timeout is never early, no
  child is left behind, and every run ends.
- Server: "completed" means persisted; the server recovers from every fault;
  commands are served.
- Setup: the page asks for what readiness lacks, and a form that supplies it
  makes the runtime ready.
- Thread bindings: one binding resolves, none or several fail closed, and binding
  again changes nothing.
- Supervisor: a gate runs only for the work item its thread is bound to, on an
  allowed decision, by the worker of the requested version.
- External probe: its verdict is one the project really had, although its
  requests are answered at different moments.
- Quality gate report: after a push to the main branch it judges that push's scan;
  it comes to an end, and evaluates a default gate as the probe does.

## 2. Modules

| Module | What it is | Configurations | Proofs |
| --- | --- | --- | --- |
| `ArtifactLog` | abstract: artifacts are persisted, then listed under thread and work item, then acknowledged | | |
| `FilesystemStore` | the artifact store, one action per system call | `Store*.cfg` on `MCFilesystemStore` | `FilesystemStoreProofs` |
| `SetupRegister` | abstract: a register whose replacements reach the disk later | | |
| `SetupConfigStore` | the setup store, one action per system call, with inodes | `SetupStore*.cfg` on `MCSetupConfigStore` | `SetupConfigStoreProofs` |
| `GateRunner` | one gate command from allow-list to `GateResult` | `Gate*.cfg` on `MCGateRunner` | `GateRunnerProofs` |
| `RuntimeServer` | the accept loop, Discord and the kubelet | `Server*.cfg` on `MCRuntimeServer` | `RuntimeServerProofs` |
| `RuntimeSetup` | readiness, the setup page and its form over deployments | other `Setup*.cfg` on `MCRuntimeSetup` | `RuntimeSetupProofs` |
| `ProcessGraph` | `validate` and `next_node`: pure, no state | assumptions of `MCGateWork` | `ValidatedRoutes` in `GateWorkProofs` |
| `GateWork` | bindings, their resolution, policy, route, worker and artifact of a command | `GateWork.cfg` on `MCGateWork` | `GateWorkProofs` |
| `SonarProject` | the SonarCloud project both ask about: analyses, edits and assignments of gates | part of the next two | |
| `ExternalProbe` | the requests of `external-probe` to GitHub and SonarCloud | `ExternalProbe.cfg` on `MCExternalProbe` | `ExternalProbeProofs` |
| `GateReport` | CI's report script: the wait for the scan's task, then the gate | `GateReport*.cfg` on `MCGateReport` | `GateReportProofs` |

The modules compose by abstraction. `RuntimeServer` takes a gate as a step that
lasts some number of probe periods, which is what `GateRunner` shows of it, and
`write_artifact` as one step that succeeds or fails, which is what
`FilesystemStore` implements of `ArtifactLog`. `RuntimeSetup` takes the setup
file as the register that `SetupConfigStore` implements. `GateWork` opens up what
is one interaction of `RuntimeServer`: whom the gate is run for, and by which
route; gate and `write_artifact` are single steps there as well. `GateReport` and
`ExternalProbe` share `SonarProject`, and with its waiting hidden the first
implements the gate part of the second.

Each model also holds a few operators marked *Seeded fault*. They are no part of
`Next`. Each one is the action or helper before it with a plausible mistake, and
`PROJECT.json` pairs it with the property that must catch it: replacing the
definition by the fault and running the same configuration makes TLC report
that property as violated, so none of the properties holds vacuously.

### FilesystemStore

`tmp`, `final` and `index` are the directories; per process, `pc` is the next
system call of `write_artifact` and `fd`, `path`, `values` are its locals. The
actions follow `storage:196-208` and `append_index` (`storage:313-320`):
`OpenTmp` (create and truncate), `WriteTmp`, `Rename` (`RenameMissing` when
another writer of the same id has renamed the file away), then twice
`ReadIndex`, `OpenIndex` (truncates) and the write, for the thread
(`WriteThreadIndex`) and for the work item (`WriteWorkIndex`, which returns Ok).
`Fail` is an I/O error or a kill at any of them. A descriptor follows its inode:
a writer whose temporary file was renamed writes into the final one. The bytes
of an artifact are a function of its id, so a file is absent, partial or
complete. Index lines keep their order and an overwrite of a longer file keeps
its tail: artifact ids are all `artifact-` and sixteen hexadecimal digits (`ironloom-artifacts/src/lib.rs:50`),
so whole lists line up (`Overlay`). A write of an index that breaks off leaves any prefix
of the list (`Prefixes`, `CutIndex`), the last line of it cut short perhaps. Such a line is
`Torn`: later appends read it as an id and keep it, and since it has another length,
lists that are written over it or with it may be spliced in any place (`Overlays`,
`Spliced`). The history variable `torn` holds the indexes a write of which broke off.

The code has no lock, so what it promises depends on what met. Two history
variables say what did: `disturbed` are the index files where two appends
overlapped or one broke off after the truncation, `contested` the
artifacts that two processes were writing at once. Everything else (a crash at
any other call, a write repeated after any crash, appends to other files, any
number of processes) keeps the promises, and the properties and theorems say so
without a bound on processes or failures. `ArtifactLog` has the same exception
as an action of its own, `Spoil`.

### SetupConfigStore

Files are inodes here because one temporary name serves all writers and the
content differs from save to save. `Open` creates or truncates (`storage:365-373`),
`Write`, `Sync` (`sync_all`, then the descriptor is closed), `Rename`; `Stop` is
an error or a kill in between, after which the temporary file is left for the
next save to truncate. A configuration has a size: writing a short one over a
long one leaves a tail, and the result does not decrypt. The directory is not
synced by the code, so `Flush` lets the kernel write it back whenever it likes,
and `PowerLoss` returns to the name on the disk and loses any unsynced content.
A reader opens (`OpenFinal`) and reads (`Decrypt`) in two steps.

There is no lock here either. The history variable `contested` holds the inodes that
a save opened while another save was in progress (`Contest`); a file among them may
have any content, and what is promised of all others is promised for any number of
writers. The abstract
register has the same exception as an action of its own, `Contend`, after which its
value is `Unknown`.

### GateRunner

`pc` is the place in `run_command` (`gates:170-225`) and `collect_output`.
`child` is what the kernel has of the child process (running, zombie, reaped),
`left` the ticks to the deadline. A poll is two steps: `try_wait`
(`TryWaitExited`, `TryWaitRunning`, `TryWaitFails`), then the clock
(`Deadline`), then `Kill` and `Wait`. `Tick` may happen anywhere, which covers
the 10 ms sleep. The command writes to its pipes and blocks when one is full
(`Write`), exits (`Exit`) when it has written everything or dies of a signal at
any time, or just hangs; it may leave a process behind that holds the pipes
(`LeaveBehind`). `Read` and `Collected` are `wait_with_output`. Output is a
number of units per stream; its text is left out.

### RuntimeServer

`queue` is the listen backlog, `serving` the accepted connection. A client connects
(`Ask`) with all, a part or none of its request, sends more of it later (`Send`)
or never, gives up (`GiveUp`), which the server's write does not notice, or breaks
its connection (`Reset`), which it does. `arrived` is how much of a request has
come. The server's one `read` (`runtime:915`) returns with whatever is there
(`ReadReturns`) and blocks, with the only thread, on a client that sends nothing
(`Silent`). The signature is over the whole body, so a part is refused. An
interaction is refused, a ping or work: the six refusals of `runtime:1035-1078`
have the same effect. Work runs `StartGate`, `EndGate`, `WriteArtifact`, `Reply` in
its connection. `Exit` is the end of the process by `?` or by a kill: the queue and
the gate in progress are lost and the clients' connections are reset.
`SendProbe`, `ProbeTimesOut`, `Kill` and `Restart` are the kubelet with the chart's
liveness probe (`deployment.yaml:104-109`; the failure threshold is Kubernetes'
default of three). A probe period is the unit of time, and a probe can only time
out while a gate or a silent client keeps the server busy.

### RuntimeSetup

`env` is the environment of the running process (which variables have a value,
which are blank, whether key, token and state root are usable), `file` the setup
file of the configured and of the default root, `page` what each installer has
open. `Ready` follows `RuntimeConfig::resolve` (`config:284-458`), `Source`
follows `field_model` (`runtime:1376-1394`): two pieces of code that look up the
same fields. `Save` replaces the file by what `submit_setup_form` keeps of the
form; `Redeploy` starts the process in another environment.

### GateWork and ProcessGraph

`binding` holds the lines of each `.binding` file. A binder runs
`bind_thread_to_work_item` (`storage:224-236`): `ReadBinding`, `OpenBinding`, which
truncates, `WriteBinding`. `BindFails` is an error or a kill before the write; the write
itself may break off between two lines (`BindBreaksOff`) or inside one (`BindTears`). A
work-item id is any text that is not blank (`core:129`), so ids have different lengths:
a list written over a longer one, by binds that overlap, may splice two lines into a third
(`Overlays`), `work-1` over `item-1234` into `work-1234`, and so may a line cut short read as
another id. `Garbled` stands for every such id that is none of the items; a spliced or cut
line may be another item's id as well. A file cut inside a UTF-8 character is no text, and
`ResolveFails` and `BindFails` are what its readers do. A
command goes through `handle_discord_interaction_post_with_work` from
`resolve_thread_binding` on (`runtime:1073-1095`): `Resolve` wants exactly one line, `RunGate`
needs the route of the default graph, an allowed decision and a worker of the
requested version (`Dispatches`), otherwise `RouteFails`; `WriteArtifact` or
`WriteArtifactFails` end it. A file name is given by `BindingFile`; thread ids of
Discord are digits, so two threads have two files. `asked`, `bound`, `cut`, `torn` and
`view` are history: bindings that were requested and acknowledged, threads whose
binds overlapped or broke off in the write, threads a bind of which broke off inside a
line, and what a command was resolved against.

### ExternalProbe

`SonarProject` holds the project: `Analysis` renews status and measures, `Edit`
changes the default gate, `Assignment` gives the project a gate of its own or
takes it away. `Standing` is how the project stands by SonarCloud's rules, and
`standings` and `changes` are the history of it while somebody asks.

`pc` is the next request of the probe (`runtime:593-608`). `PollQualityGate`
reads the status; NONE leads to the fallback (`sonarcloud:287-324`), `ListGates`
for the conditions of the default gate and `ReadMeasures` for the measures they
need. `RequestFails` is `?` at any of them. The project changes in between.
`DefaultGateFails` is how the code evaluates the gate on what it was told.

### GateReport

`pc` is the place in `scripts/sonarcloud-quality-gate-report.sh`: `ReportTask`
reads the task id the scanner left (without one the script does not wait),
`PollTask`, `TaskSucceeded`, `TaskEnded`, `TimeOut`, `Sleep` and `Wake` are the loop
of lines 91-137, `ProjectStatus`, `ListGates` and `Measures` the requests after it.
`left` are the seconds to the deadline, `rest` those of the sleep, `Tick` the clock.
`RequestFails` is a failing curl, an answer that is no success or that jq cannot read, or a
task in a state the script does not know; `NoAnswer` is a
request that is never answered, since curl has no time limit. `FallbackFails` is the
gate as jq and awk evaluate it: awk takes text for 0, and a comparator it does not
know ends it with a status that the script takes for passing. The task moves as
SonarCloud likes. CI runs the script after the scan of a push to the main branch and after
that of a pull request (`.github/workflows/ci.yml:10`, `150-165`), and the script asks for the
main branch in both (lines 282 and 330). `pullRequest` says which it is: the success of
a push's task is an analysis of what the script asks for, that of a pull request's
changes nothing of it. `renewed` is the history of the first. `SameFallback`
maps the script to `ExternalProbe`: all that waits is "before the gate".

## 3. What the runs show

Passing runs:

| Run | Instance | Shows |
| --- | --- | --- |
| `store_concurrent` | 2 processes, 2 artifacts of one thread and one work item, each write requested twice, 2 failures, fair | an index names an id without its artifact only where a write of that index broke off; only two writers of one artifact can publish a part of it or damage it; an index loses an acknowledged id only by an overlapped or broken-off append to it; the files implement `ArtifactLog`; racing writers of an artifact never all give up, and it is acknowledged to someone |
| `setup_store` | 2 writers, 2 readers, 2 sizes, 3 inodes, 1 power loss; writers and inodes are symmetric | the setup file is a register, whole at every moment and for every read, unless the saves that made the file overlapped |
| `gate_runs` | 2 streams, pipes of 2, up to 3 units each, 3 ticks, background process, failing system calls, fair | verdict, timeout and child are accounted for; an ended command is judged; every gate returns unless its streams are held open for ever |
| `server_faults` | 2 commands, arriving whole, in parts or never, gates of 0 to 3 periods, a kubelet that gives up after 3, 2 faults, fair | completed means persisted; half a request runs no gate; the server recovers, from silent clients too; while it is up, every command that arrived whole is told what it asked for, however long the gates before it take |
| `setup_two_installers` | 2 installers, 7 environments, one of them with a blank variable, 2 keys | without blank variables page and readiness agree, a full form makes ready however old the page, and so does the first form with what the page calls missing |
| `gate_work` | 2 binders, 2 threads, 2 work items and an id of neither, 4 binds, 1 command, 3 registries; threads, items and binders are symmetric | a gate runs only for a thread and an item that were asked to be bound, but after an overlapped or broken-off bind of different items, or one that left half a line; without those only for the one item bound; refusals are due; repeated binds are harmless |
| `external_probe` | 3 metrics over 2 sources, 2 numbers, 6 gates, any number of analyses, edits and assignments | the verdict was the project's standing at some moment of the poll, and is the current one when the gate does not change |
| `gate_report` | 2 metrics over 1 source, 2 numbers, 2 sound gates, a push or a pull request, a deadline of 2 s and sleeps of 1 s, any request failing or unanswered, any changes meanwhile, fair | after a push the gate is judged on its scan's analysis or a later one; the script ends; its fallback is the probe's, step by step |

Violation runs. Each checks one sentence that the documentation or a comment
says of the program and that the code does not keep; the `findings` of
`PROJECT.json` quote the sentence and tell the counterexample.

| Run | What happens |
| --- | --- |
| `store_crash_wipes_index` | killed between truncation and write: the index is empty |
| `gate_pipe_full` | a talkative command blocks on its pipe until it is killed |
| `setup_again` | submitting only the missing values wipes the stored ones |
| `gate_report_odd_gates` | an unknown comparator passes in CI's script and fails in the probe, on the same answers |

**What a change of constants or premises shows.** Some restrictions of the passing
runs are there because the code needs them; lifting one makes TLC report the
property:

- The exception `torn` of `IndexNeverDangles`: on a full disk, or killed within the
  write of a long index, `fs::write` leaves a prefix of it. Its last line may be half an id, and
  the next append takes that for an id, as does whoever lists the thread.
- The exception `disturbed` of `UndisturbedKeepsAcked`: two appends to one index read
  the same list and the later write drops an acknowledged id, and an append that
  dies in its write leaves nothing (`store_crash_wipes_index`).
- The exception `contested` of `PartialIsContested` and `UncontestedIsImmutable`: the
  rename of one writer publishes the file that the other has just truncated.
- The exception `contested` of `StoredIsWhole` and `ReadsAreWhole`: the same through the
  one temporary file of the setup store, and the setup file is empty.
- The disjunct `<>[]heir` of `GateReturns` is needed: `wait_with_output` has no
  timeout, and a process the command left behind keeps it reading. So is `heir`
  in `EndedCommandIsJudged`.
- The premise of `CommandIsServed`, that the server is not stopped, is needed as
  well. A gate that takes three probe periods, a minute of the five its own
  timeout allows, keeps the loop from answering `/healthz` and is killed with its
  container; missed probes also add up over gates that are queued one behind the
  other, and what is in the queue is lost with the container. A gate of one period or two
  is waited for, and what is queued behind it is served; two such gates in a row are
  served or killed, as the probes come to lie.
- The premise `arrived[c] = "all"` of `CommandIsServed`: a command whose end comes in a
  second segment after the read is refused as badly signed.
- A setup form is not signed. If it comes in two segments, `runtime:1205` parses what
  the first read got: the installer token is its first field, so a form without
  its last fields replaces the file. In `RuntimeSetup` that is a form with fewer
  fields filled in, and its properties speak of forms as they arrive.
- The premises of `VerdictIsOfTheScan`. `ceTaskId`: without the scanner's report file, or
  the id in it, the script does not wait at all and judges whatever analysis is
  there. `~pullRequest`: the script waits for the analysis of the pull request and then
  asks for the gate of the main branch, which that analysis does not touch; the verdict
  on a pull request is one on the main branch as it was before. The disjunct `unanswered` of `ReportEnds`: no deadline ends a curl.
- The premise `env.blank = {}` of the setup properties: for a variable that is set
  but blank the page shows the field as missing and stores the value it is given,
  but `resolve_field` (`config:413`) looks at the variable first and fails on it.
- The premise `state # "cut"` of `AmbiguityIsRefused`: two binds that overlap lose
  one of two acknowledged items, and a bind that dies after the truncation loses
  those acknowledged before. What should be an ambiguous thread then resolves to
  one item and its gate runs, where `site/guide-docs/api/storage.md:11` has
  ambiguous bindings fail closed.
- The exception of `WorkIsBound`, a command resolved while its thread is `cut` and not
  `Plain`: one process binds the thread to `item-1234`, another to `work-1`, both have truncated
  the file, and the second write over the first leaves the one line `work-1234`. The thread
  resolves, and the gate runs for an item that nobody asked for. A write that breaks off inside its
  only line does the same. As long as only one item was asked for and no line was
  torn (`Plain`), no overlap makes up another one; `RetryIsHarmless` has that premise.
- The premise `state = "quiet"` in `RefusalIsDue`: a command that reads while its
  thread is bound again finds the file truncated, and the operator of a bound
  thread is told that the binding is missing.
- The exception of `VerdictWasTrue`: an analysis and an edit of the gate, both
  between two requests of the fallback, mix conditions and measures that never
  belonged together.
- A command that ends by itself between the last `try_wait` and the kill is
  recorded as timed out even if it succeeded; `EndedCommandIsJudged` therefore
  speaks of a command that is found ended when the loop polls.

**Bounds and why they are enough.** The store needs two processes
for a race and two artifacts that share both indexes, so that every append finds
another one's lines; two requests per artifact make the repeated write happen, a
second failure hits the recovery from the first. In the setup store two writers share the temporary file or follow one another, and a
second reader still holds an older file; three inodes hold the temporary, the final
and either the on-disk or a read file. Its symmetry is sound: writers and inodes are
model values that occur in no constant, the readers are kept apart, and the run checks
safety properties only. A pipe of two units and three units of output fill it and
leave something to write; a third tick lets the deadline pass before, during and
after a poll. A gate of one period or two makes the kubelet wait, two of them in a row
make its missed probes add up, one of three reaches its threshold, and one that
takes none ends before any probe is missed; a request in two segments has every
order of its arrival with the read. In the setup one field stands for
the eight fields that `resolve_field` treats alike, and both alternatives of
`openai_auth` are there; the seven environments have nothing, a part and everything
set, a blank variable, a rotated key, an unusable key, and neither token nor state
root. Four binds of two binders repeat a bind after it broke off and still leave
one for the other item; the second thread shows that its file is left alone. The
symmetry of `gate_work` is sound: threads are exchanged with their files, items and binders occur in no
constant but their own set, and the run checks safety only. Each
comparator, an unknown one and a threshold that is no number occur in the six
gates of `external_probe`, and two metrics share a source; the one sound gate of
`gate_report` that is not empty has two comparators, and its theorem covers them all. Two seconds and sleeps of one let the report
poll before, at and after its deadline. All bounds are constants (`Deliveries`,
`MaxFailures`, `MaxPowerLosses`, `MaxOutput`, `Timeout`, `PollInterval`, `MaxFaults`,
`MaxBinds`)
and the theorems hold for every value of them. The process graph is checked on
all graphs of up to two nodes and two transitions over three names, duplicates
and unknown names included (the assumptions of `MCGateWork`).

**Fairness.** `FilesystemStore` and `GateRunner` assume that a scheduled thread
goes on to its next system call (weak fairness of the process's step) and, in
the latter, that time passes; no call is assumed to fail, and nothing is assumed
of the command, which may hang. `RuntimeServer` assumes the same of the server's
thread, and that the kubelet probes, waits, kills and restarts; nothing is
assumed of Discord, which need not send what it began. `GateReport` assumes that the
shell goes on and the clock runs, and nothing of SonarCloud. The code justifies these: all its loops are sequential code
of one thread or shell, and the rest is the contract of the kernel and of Kubernetes.
`SetupConfigStore`, `RuntimeSetup`, `GateWork` and `ExternalProbe` have safety
properties only and assume no fairness.

## 4. What is proved

All theorems are for arbitrary constants: any number of processes, artifacts,
installers, commands, inodes, any capacity, timeout or threshold.

- `FilesystemStoreProofs`, all for any number of processes, crashes and repeated
  writes: `TypeCorrect`, `IndexSoundness` (`IndexNeverDangles`, torn lines included), `PartialIsTransient`,
  `AtomicPublish` (`PartialIsContested`), `Immutability` (`UncontestedIsImmutable`),
  `AcknowledgedListed` (`UndisturbedKeepsAcked`), `RacersDoNotAllGiveUp` (`NotAllGiveUp`),
  `StoreImplementsLog`. The invariant
  behind the indexes (`DangleInv`) adds that a process in an append has renamed its
  artifact, and that the list it carries has what may be listed only: ids of existing
  artifacts and, once a write of that index broke off, a torn line. Splicing lists never
  makes a third id of them.
  `PublishInv` adds that a temporary file with one writer is as far as that writer,
  and `LogInv` that as long as an index is not disturbed at most one process appends
  to it, the list it carries is that of the file and, in the write, the file is empty.
  `OneProcessKeepsAcked` draws the line of the violation run: with one process, until
  something fails, `AckedStayListed` holds as the specification words it. `CarryInv`
  says who carries an artifact that was requested and not yet acknowledged: a writer
  past its rename, or one whose temporary file is still there, so that the last of the
  racers cannot find it gone.
- `SetupConfigStoreProofs`, all for any number of writers and readers: `TypeCorrect`,
  `StoredWhole` (`StoredIsWhole`), `ReadsWhole` (`ReadsAreWhole`), `StoreImplementsRegister`; and
  `OneWriterWhole`, that with one writer nothing is ever contested. `StoredIsWhole` is
  not inductive. `StoreInv` adds that the files that can be read
  or brought back are synced (`PublishedInv`, or a power loss would tear them), that
  the temporary file is none of them (`PrivateInv`, or a save would write into them),
  that whoever has an uncontested file open has the temporary one (`DescriptorInv`), and
  how far its one save has come with it (`ProgressInv`).
- `GateRunnerProofs`. `TypeCorrect`, `VerdictCorrect`, `ChildAccountedFor`,
  `TimeoutCorrect`. The verdict rests on the conservation of output: what a
  command wrote is captured, in the pipe or still to be written. Two theorems say
  exactly which output costs a command its verdict: more than a pipe holds
  always does (`TooMuchOutputIsNotJudged`), for the command cannot exit by itself before
  the reads begin, and what fits never does (`OutputThatFits`, `NotTimedOutForOutput`).
  `ReturnsAfterDeadline` is a measure: after the deadline every step of the runner
  brings its return nearer or empties a pipe, and nobody fills it again.
- `RuntimeServerProofs`. `TypeCorrect`, `CompletionIsRecorded`, `GatesRunWholeRequests`
  (`WorkIsWhole`): what is being served as work has arrived to its end. `HeldInv` follows
  a connection: it is in one place, once in the queue or accepted, for as long as its
  client waits, and it has no answer before the reply. From it come `WaitingIsHeld` and
  `AnswersAreFinal` (a command is answered once, and if it arrived whole with what is
  due). `ServedInTurn` is the measure of the queue: what the server has to do before
  it accepts a command shrinks with each of its steps, and nobody adds to it.
- `RuntimeSetupProofs`. `TypeCorrect`, `PageCorrect`, `FullFormCorrect`,
  `FirstFormCorrect`. The page rests on `LookUpsAgree`: without blank variables both
  look-ups ask whether a field is set or stored. A first form is a full one, since
  with nothing stored the page calls missing what the environment does not set.
- `GateWorkProofs`, for ids of any length and spelling: `TypeCorrect`; `WorkBound`
  (`WorkIsBound`), from `Origin`, which says of whatever is on its way to a gate that its thread was
  asked to be bound, and its item too unless the thread is not `Plain` any more; and
  `RetryHarmless`, from the part of it about files (`FilesShort`): while a thread is `Plain`, its
  file and the lists of its binders hold the one id that was asked for or nothing, and
  laying the one over the other makes nothing else. That a command was resolved after
  an overlap or a torn line comes from `Views` below.
  `CommandsKeptApart`, for any number of commands at once: one gate
  per command, and "completed" exactly with its artifact. `AmbiguityRefused` and `RefusalDue` are by
  `FilesSettled`: a thread that is not `cut` has at most one binder, its file
  holds exactly the acknowledged items, each once, unless that binder has
  truncated it, and then the binder's list does; and by `Views`, which keeps this
  of the moment a command was resolved. `ValidatedRoutes` is about graphs of any
  length: the first wrong transition exists because the positions are well founded.
- `ExternalProbeProofs`. `TypeCorrect`, `VerdictTrue`, `VerdictCurrent`, all
  without restriction. The heart is `FallbackExact`: on the measures it asks for,
  `DefaultGateFails` is true exactly if the project does not meet the gate. The
  invariant adds that until the verdict the history holds the standing of now,
  and while the measures are still to be read, whether the conditions that were
  listed are those of now or a change was recorded.
- `GateReportProofs`. `TypeCorrect` and `ReportIsOfTheScan` (`VerdictIsOfTheScan`, which is
  about pushes to the main branch) for any gates and measures; `ReportImplementsProbe` (`SameFallback`) for sound gates, those whose
  comparators are known and whose thresholds are numbers, and measures that are
  numbers or missing: there `FallbackFails` and `DefaultGateFails` are the same, each
  step of the script is one of the probe or a stutter, and what is proved of the
  probe's verdicts holds for CI's. `SameVerdictOnSoundGates` says the same of one
  report's end: the verdict is what the probe makes of the conditions and measures the
  script was told. `gate_report_odd_gates` shows that the restriction is needed.
  `EndsAfterDeadline`, without restriction: behind the deadline each step of the
  script leaves it fewer of at most six, and it cannot sleep any more.

Only model-checked: `EventuallyAcked`, `EndedCommandIsJudged`, `GateReturns`,
`ServerRecovers`, `CommandIsServed` and `ReportEnds`, since liveness under fairness is
out of the prover's reach. What they rest on is proved where it is a matter of safety:
`RacersDoNotAllGiveUp` for `EventuallyAcked` (when everybody is done, somebody was told
so), `ReturnsAfterDeadline` for `GateReturns`, `WaitingIsHeld`, `AnswersAreFinal` and
`ServedInTurn` for `CommandIsServed`, `EndsAfterDeadline` for `ReportEnds`: a loop cannot go
round without end, nothing that waits is forgotten, and the answer is the right one.
What fairness adds, that an enabled step is taken at last, is TLC's part. Every safety
property of the passing runs is a theorem.

The assumptions of the proofs are the named `ASSUME`s of the models: the
constants have their types, index files of threads and work items are distinct
(they are in two directories), configurations are not empty files, a key is not
the mark of a missing key, what is no number is told apart from the numbers. TLC evaluates them in every run.

## 5. What is not modelled

- `queue`: a table of transitions on one value in memory, which no other crate
  calls. There are no claimants and no store of items yet; a model would repeat
  the table.
- The in-memory `ThreadBindingRegistry` of the local harness and of `ironloom proof`: a
  list in one process that is filled once. It calls a thread ambiguous that
  was bound twice to the same item, where the store does not (`RetryIsHarmless`).
- `ironloom proof` around its artifact: it writes through the modelled store
  and then a fixed set of files that nothing in the program reads again.
- Core identifiers, artifact envelope, schemas, observability and worktree requests:
  types, validation and text without state.
- HTML and CSS; signature and encryption algorithms, of which only the outcome
  matters; what GitHub returns and the texts of issues, which pass through
  `ExternalProbe` unseen.
- The scripts other than the gate report, the chart and the image beyond the probe and the
  environment they give the process: sequences of calls to other programs that
  stop at the first failure.
- Work-item ids with a line break in them, which the type of an id allows: a binding
  file would list such an id as two.
- Answers of GitHub and SonarCloud that are JSON of another shape than theirs. Script and probe
  take a measures answer without measures for one in which every measure is
  missing, and both fail closed on it.
- How long a setup request takes to arrive (see section 3), and requests of more
  than the 16 KiB of the buffer beyond their being cut.

## 6. How the project grew, and what could follow

In this order, the core of the system first: artifact store, gate runner,
server, setup, setup store, thread bindings with supervisor, policy and process
graph, external probe; then slow and cut requests in the server, the store's
promises for any number of processes and crashes in place of one writer, CI's
gate report on top of the probe, and the proofs that go with them; then the setup
store for any number of writers, the measures behind the liveness properties, and
the premises of the violation runs as theorems. What could follow:

1. `RuntimeServer` over `ArtifactLog`, the server's `persisted` being the log's
   acknowledged artifacts; `GateWork` over `RuntimeServer`'s connection, so that
   two commands of one thread are handled one behind the other.
2. More theorems: that a busy server is served or killed within `Threshold` probes, the
   measure of `ServerRecovers`; the first polls after a command has ended, that of
   `EndedCommandIsJudged`.
3. `Queue`, when something claims work items.
