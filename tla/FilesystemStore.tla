---------------------------- MODULE FilesystemStore ----------------------------
(***************************************************************************)
(* The artifact side of ironloom-storage's FilesystemStore, one action per *)
(* system call another process or a crash can observe.  Several processes  *)
(* share one state root: the serving runtime, `ironloom proof` started in  *)
(* the same container, and the old and new pod of a rolling restart.  None *)
(* of them takes a lock.                                                   *)
(*                                                                         *)
(* write_artifact creates tmp/<id>.json.tmp, fills it, renames it to       *)
(* artifacts/<id>.json, then appends the id to the thread index and to the *)
(* work-item index; an append reads the whole file, truncates it and       *)
(* writes it back.  The bytes of an artifact are a function of its id (the *)
(* id is a digest of them), so a file is described by how much of it is    *)
(* there.  An open descriptor follows its inode, not its path.             *)
(*                                                                         *)
(* Ids are "artifact-" and sixteen hexadecimal digits, so whole lines line *)
(* up when one list is written over another.  A write that breaks off may  *)
(* leave a line cut short, and no later append repairs it: such a line, or *)
(* one spliced from two others, is Torn, and is never taken for a third id.*)
(***************************************************************************)
EXTENDS Naturals, Sequences, Functions

CONSTANTS
    Procs,          \* operating-system processes sharing the state root
    Artifacts,      \* artifact identifiers, all of the same length
    Torn,           \* a line of an index that is no artifact identifier
    IndexFiles,     \* index files, after safe_file_component
    ThreadFile,     \* indexes/threads/<thread>.index of each artifact
    WorkFile,       \* indexes/work-items/<work item>.index of each artifact
    Deliveries,     \* bound: how often each artifact's write is requested
    MaxFailures     \* bound: crashes and I/O errors in one behaviour

\* The two kinds of index live in different directories.
ASSUME StoreAssumption ==
    /\ Artifacts # {}
    /\ Torn \notin Artifacts
    /\ ThreadFile \in [Artifacts -> IndexFiles]
    /\ WorkFile \in [Artifacts -> IndexFiles]
    /\ \A a, b \in Artifacts : ThreadFile[a] # WorkFile[b]
    /\ Deliveries \in Nat
    /\ MaxFailures \in Nat

VARIABLES
    tmp,            \* content of tmp/<id>.json.tmp
    final,          \* content of artifacts/<id>.json
    index,          \* the lines of each index file
    pc,             \* the next system call of each process
    job,            \* the artifact each process is writing
    fd,             \* the name of the file the descriptor of write_tmp is on
    path,           \* the index file each process is appending to
    values,         \* the lines each process read from that file
    acked,          \* artifacts for which some write_artifact returned Ok
    pending,        \* writes of each artifact still to be requested
    failures,       \* crashes and I/O errors so far
    torn,           \* history: index files a write of theirs broke off in
    disturbed,      \* history: index files with an append broken off or overlapped
    contested       \* history: artifacts written by two processes at once

files == <<tmp, final, index>>
locals == <<job, fd, path, values>>
vars == <<files, pc, locals, acked, pending, failures, torn, disturbed, contested>>

-------------------------------------------------------------------------------
\* Values

Lines == Artifacts \cup {Torn}
Contents == {"absent", "partial", "complete"}
Descriptors == {"none", "tmp", "final", "unlinked"}
Labels == {"idle", "write_tmp", "rename", "read_index", "open_index", "write_index"}

TypeOK ==
    /\ tmp \in [Artifacts -> Contents]
    /\ final \in [Artifacts -> Contents]
    /\ index \in [IndexFiles -> Seq(Lines)]
    /\ pc \in [Procs -> Labels]
    /\ job \in [Procs -> Artifacts]
    /\ fd \in [Procs -> Descriptors]
    /\ path \in [Procs -> IndexFiles]
    /\ values \in [Procs -> Seq(Lines)]
    /\ acked \in SUBSET Artifacts
    /\ pending \in [Artifacts -> 0..Deliveries]
    /\ failures \in 0..MaxFailures
    /\ torn \in SUBSET IndexFiles
    /\ disturbed \in SUBSET IndexFiles
    /\ contested \in SUBSET Artifacts

Init ==
    /\ tmp = [a \in Artifacts |-> "absent"]
    /\ final = [a \in Artifacts |-> "absent"]
    /\ index = [f \in IndexFiles |-> <<>>]
    /\ pc = [p \in Procs |-> "idle"]
    /\ job = [p \in Procs |-> CHOOSE a \in Artifacts : TRUE]
    /\ fd = [p \in Procs |-> "none"]
    /\ path = [p \in Procs |-> CHOOSE f \in IndexFiles : TRUE]
    /\ values = [p \in Procs |-> <<>>]
    /\ acked = {}
    /\ pending = [a \in Artifacts |-> Deliveries]
    /\ failures = 0
    /\ torn = {}
    /\ disturbed = {}
    /\ contested = {}

Goto(p, label) == pc' = [pc EXCEPT ![p] = label]

\* Writing new from offset 0 into a file that holds old leaves old's tail: with
\* whole ids on both sides, old's lines from there on.
Overlay(old, new) ==
    IF Len(old) <= Len(new) THEN new
    ELSE [i \in 1..Len(old) |-> IF i <= Len(new) THEN new[i] ELSE old[i]]

\* With a torn line on either side the lengths no longer match: the last line that
\* was written may run into the line of old that it ends in.
Seams(old, new) ==
    {new[Len(new)], Torn} \cup (IF new[Len(new)] = Torn THEN Range(old) ELSE {})

Tails(old) == {SubSeq(old, k, Len(old)) : k \in 2..(Len(old) + 1)}

Spliced(old, new) ==
    UNION {{SubSeq(new, 1, Len(new) - 1) \o <<seam>> \o tail : tail \in Tails(old)} :
               seam \in Seams(old, new)}

Overlays(old, new) ==
    IF new = <<>> THEN {old}
    ELSE IF Torn \notin Range(old) \cup Range(new) THEN {Overlay(old, new)}
    ELSE {new} \cup Spliced(old, new)

\* What can have been written of new when its write breaks off: whole lines, and
\* perhaps the beginning of the next one.
Prefixes(new) ==
    {SubSeq(new, 1, n) : n \in 0..Len(new)} \cup
    {Append(SubSeq(new, 1, n), Torn) : n \in 0..(Len(new) - 1)}

\* Seeded fault: the list that was read is not carried over.
WithIdForgetful(ids, a) == IF a \in Range(ids) THEN ids ELSE <<a>>

\* Seeded fault: the id is pushed without looking whether it is there.
WithIdRepeated(ids, a) == Append(ids, a)

\* The list append_index writes back: the id is pushed unless it is there.
WithId(ids, a) == IF a \in Range(ids) THEN ids ELSE Append(ids, a)

-------------------------------------------------------------------------------
\* write_artifact: the artifact file

\* Between the truncation of a temporary file and its rename.
Writing(p, a) == pc[p] \in {"write_tmp", "rename"} /\ job[p] = a

Contest(a) ==
    contested' = IF \E q \in Procs : Writing(q, a) THEN contested \cup {a} ELSE contested

\* Seeded fault: the final name is opened and truncated in place.
OpenTmpInPlace(p, a) ==
    /\ pc[p] = "idle"
    /\ pending[a] > 0
    /\ pending' = [pending EXCEPT ![a] = @ - 1]
    /\ job' = [job EXCEPT ![p] = a]
    /\ final' = [final EXCEPT ![a] = "partial"]
    /\ fd' = [fd EXCEPT ![p] = "final"]
    /\ Goto(p, "write_tmp")
    /\ Contest(a)
    /\ UNCHANGED <<tmp, index, path, values, acked, failures, torn, disturbed>>

\* Seeded fault: a write is begun that nobody asked for.
OpenTmpUnasked(p, a) ==
    /\ pc[p] = "idle"
    /\ pending' = [pending EXCEPT ![a] = @ - 1]
    /\ job' = [job EXCEPT ![p] = a]
    /\ tmp' = [tmp EXCEPT ![a] = "partial"]
    /\ fd' = [fd EXCEPT ![p] = "tmp"]
    /\ Goto(p, "write_tmp")
    /\ Contest(a)
    /\ UNCHANGED <<final, index, path, values, acked, failures, torn, disturbed>>

\* fs::write opens the temporary file, creating or truncating it.
OpenTmp(p, a) ==
    /\ pc[p] = "idle"
    /\ pending[a] > 0
    /\ pending' = [pending EXCEPT ![a] = @ - 1]
    /\ job' = [job EXCEPT ![p] = a]
    /\ tmp' = [tmp EXCEPT ![a] = "partial"]
    /\ fd' = [fd EXCEPT ![p] = "tmp"]
    /\ Goto(p, "write_tmp")
    /\ Contest(a)
    /\ UNCHANGED <<final, index, path, values, acked, failures, torn, disturbed>>

\* Seeded fault: the bytes stay in a buffer that is never flushed.
WriteTmpUnflushed(p) ==
    /\ pc[p] = "write_tmp"
    /\ fd' = [fd EXCEPT ![p] = "none"]
    /\ Goto(p, "rename")
    /\ UNCHANGED <<tmp, final, index, job, path, values, acked, pending, failures, torn, disturbed, contested>>

\* Seeded fault: the temporary file is opened again by name to be written.
WriteTmpByName(p) ==
    /\ pc[p] = "write_tmp"
    /\ tmp' = [tmp EXCEPT ![job[p]] = "complete"]
    /\ fd' = [fd EXCEPT ![p] = "none"]
    /\ Goto(p, "rename")
    /\ UNCHANGED <<final, index, job, path, values, acked, pending, failures, torn, disturbed, contested>>

\* Seeded fault: the id is appended to the indexes before the rename.
WriteTmpThenIndex(p) ==
    /\ pc[p] = "write_tmp"
    /\ tmp' = IF fd[p] = "tmp" THEN [tmp EXCEPT ![job[p]] = "complete"] ELSE tmp
    /\ fd' = [fd EXCEPT ![p] = "none"]
    /\ path' = [path EXCEPT ![p] = ThreadFile[job[p]]]
    /\ Goto(p, "read_index")
    /\ UNCHANGED <<final, index, job, values, acked, pending, failures, torn, disturbed, contested>>

\* The bytes go to the inode the descriptor is on, whatever its name by now.
WriteTmp(p) ==
    /\ pc[p] = "write_tmp"
    /\ tmp' = IF fd[p] = "tmp" THEN [tmp EXCEPT ![job[p]] = "complete"] ELSE tmp
    /\ final' = IF fd[p] = "final" THEN [final EXCEPT ![job[p]] = "complete"] ELSE final
    /\ fd' = [fd EXCEPT ![p] = "none"]
    /\ Goto(p, "rename")
    /\ UNCHANGED <<index, job, path, values, acked, pending, failures, torn, disturbed, contested>>

\* What a rename of a's temporary file does to a descriptor held on it.
Moved(q, a) ==
    IF pc[q] # "write_tmp" \/ job[q] # a \/ fd[q] = "none" THEN fd[q]
    ELSE IF fd[q] = "tmp" THEN "final" ELSE "unlinked"

Rename(p) ==
    LET a == job[p] IN
    /\ pc[p] = "rename"
    /\ tmp[a] # "absent"
    /\ final' = [final EXCEPT ![a] = tmp[a]]
    /\ tmp' = [tmp EXCEPT ![a] = "absent"]
    /\ fd' = [q \in Procs |-> Moved(q, a)]
    /\ path' = [path EXCEPT ![p] = ThreadFile[a]]
    /\ Goto(p, "read_index")
    /\ UNCHANGED <<index, job, values, acked, pending, failures, torn, disturbed, contested>>

\* Another writer of the same id renamed the file away: write_artifact is Err.
RenameMissing(p) ==
    /\ pc[p] = "rename"
    /\ tmp[job[p]] = "absent"
    /\ Goto(p, "idle")
    /\ UNCHANGED <<files, locals, acked, pending, failures, torn, disturbed, contested>>

-------------------------------------------------------------------------------
\* append_index, for the thread index and then for the work-item index

\* Between the read of an index and its write, another read of it, or the write
\* of another process, meets a list that is about to be replaced.
Within(q, f) == pc[q] \in {"open_index", "write_index"} /\ path[q] = f

ReadIndex(p) ==
    /\ pc[p] = "read_index"
    /\ values' = [values EXCEPT ![p] = index[path[p]]]
    /\ disturbed' = IF \E q \in Procs : Within(q, path[p])
                    THEN disturbed \cup {path[p]} ELSE disturbed
    /\ Goto(p, "open_index")
    /\ UNCHANGED <<files, job, fd, path, acked, pending, failures, torn, contested>>

OpenIndex(p) ==
    /\ pc[p] = "open_index"
    /\ index' = [index EXCEPT ![path[p]] = <<>>]
    /\ Goto(p, "write_index")
    /\ UNCHANGED <<tmp, final, locals, acked, pending, failures, torn, disturbed, contested>>

Written(p) == WithId(values[p], job[p])

FlushIndex(p) ==
    \E lines \in Overlays(index[path[p]], Written(p)) :
        index' = [index EXCEPT ![path[p]] = lines]

\* Seeded fault: write_artifact returns after the first append.
WriteThreadIndexOnly(p) ==
    /\ pc[p] = "write_index"
    /\ path[p] = ThreadFile[job[p]]
    /\ FlushIndex(p)
    /\ values' = [values EXCEPT ![p] = <<>>]
    /\ Goto(p, "idle")
    /\ UNCHANGED <<tmp, final, job, fd, path, acked, pending, failures, torn, disturbed, contested>>

WriteThreadIndex(p) ==
    /\ pc[p] = "write_index"
    /\ path[p] = ThreadFile[job[p]]
    /\ FlushIndex(p)
    /\ values' = [values EXCEPT ![p] = <<>>]
    /\ path' = [path EXCEPT ![p] = WorkFile[job[p]]]
    /\ Goto(p, "read_index")
    /\ UNCHANGED <<tmp, final, job, fd, acked, pending, failures, torn, disturbed, contested>>

\* The last call of write_artifact, which then returns Ok.
WriteWorkIndex(p) ==
    /\ pc[p] = "write_index"
    /\ path[p] = WorkFile[job[p]]
    /\ FlushIndex(p)
    /\ values' = [values EXCEPT ![p] = <<>>]
    /\ acked' = acked \cup {job[p]}
    /\ Goto(p, "idle")
    /\ UNCHANGED <<tmp, final, job, fd, path, pending, failures, torn, disturbed, contested>>

-------------------------------------------------------------------------------
\* The write of an index breaks off: a disk that is full, or a kill between two
\* write(2) of fs::write, leaves any prefix of it.
CutIndex(p) ==
    /\ \E part \in Prefixes(Written(p)) :
         \E lines \in Overlays(index[path[p]], part) :
             index' = [index EXCEPT ![path[p]] = lines]
    /\ torn' = torn \cup {path[p]}
    /\ disturbed' = disturbed \cup {path[p]}

\* The process is killed, or a system call fails and `?` returns the error:
\* nothing is undone, and but for a write of an index the files stay as they are.
Fail(p) ==
    /\ pc[p] # "idle"
    /\ failures < MaxFailures
    /\ failures' = failures + 1
    /\ fd' = [fd EXCEPT ![p] = "none"]
    /\ values' = [values EXCEPT ![p] = <<>>]
    /\ \/ pc[p] = "write_index" /\ CutIndex(p)
       \/ pc[p] # "write_index" /\ UNCHANGED <<index, torn, disturbed>>
    /\ Goto(p, "idle")
    /\ UNCHANGED <<tmp, final, job, path, acked, pending, contested>>

Step(p) ==
    \/ \E a \in Artifacts : OpenTmp(p, a)
    \/ WriteTmp(p)
    \/ Rename(p)
    \/ RenameMissing(p)
    \/ ReadIndex(p)
    \/ OpenIndex(p)
    \/ WriteThreadIndex(p)
    \/ WriteWorkIndex(p)

\* Every requested write has been made and has ended.
Done ==
    /\ \A p \in Procs : pc[p] = "idle"
    /\ \A a \in Artifacts : pending[a] = 0
    /\ UNCHANGED vars

Next == (\E p \in Procs : Step(p) \/ Fail(p)) \/ Done

Spec == Init /\ [][Next]_vars

\* A process that is scheduled makes its next system call, and the callers that
\* were counted in Deliveries do call.
FairSpec == Spec /\ \A p \in Procs : WF_vars(Step(p))

-------------------------------------------------------------------------------
\* Properties of any number of processes, crashes included

\* What may be listed in f: an artifact whose file is in place and that belongs
\* there, or a line that a broken-off write of f left torn.
Filed(line, f) ==
    IF line = Torn THEN f \in torn
    ELSE final[line] # "absent" /\ f \in {ThreadFile[line], WorkFile[line]}

\* An id listed in an index names an artifact file that exists and that belongs
\* to that index: write_artifact renames before it appends.  However appends
\* overlap and whatever crashed in between, an operator who follows an index meets
\* an id without its file only where a write of that index broke off; overlapping
\* appends lose ids, but never make up one.
IndexNeverDangles ==
    \A f \in IndexFiles : \A line \in Range(index[f]) : Filed(line, f)

\* Writers of the same id share one temporary path, so one can rename a file
\* the other has just truncated.  As long as nothing failed, a truncated
\* artifact file is always about to be completed by the writer holding it open.
PartialIsBeingWritten ==
    failures = 0 =>
        \A a \in Artifacts : final[a] = "partial" =>
            \E p \in Procs : pc[p] = "write_tmp" /\ job[p] = a /\ fd[p] = "final"

\* The rename publishes the whole artifact or nothing, whatever crashes; only two
\* writers of the same id at once can make it publish a part.
PartialIsContested == \A a \in Artifacts : final[a] = "partial" => a \in contested

\* However often its write is repeated and wherever that breaks off, a complete
\* artifact file is never removed, truncated or replaced by less, unless two
\* writers of it met.
UncontestedIsImmutable ==
    [][\A a \in Artifacts \ contested' : final[a] = "complete" => final'[a] = "complete"]_vars

\* Every requested artifact is eventually acknowledged to some caller, even
\* when racing writers of the same id make each other's rename fail; a write
\* that failed otherwise is not repeated by anyone.
EventuallyAcked ==
    \A a \in Artifacts : (pending[a] > 0) ~> (a \in acked \/ failures > 0)

\* Racing writers of one id share its temporary file, and whoever finds it renamed
\* away gives up: but they never all give up.  Once nobody is busy, every artifact
\* whose write was requested was acknowledged to some caller, if nothing failed.
NotAllGiveUp ==
    failures = 0 /\ (\A p \in Procs : pc[p] = "idle") =>
        \A a \in Artifacts : pending[a] < Deliveries => a \in acked

\* What an index will hold once the append in progress has been written.
InAppend(p, f) == pc[p] = "write_index" /\ path[p] = f

Holds(f, a) ==
    \/ a \in Range(index[f])
    \/ \E p \in Procs : InAppend(p, f) /\ a \in Range(values[p])

\* An acknowledged artifact is lost from an index only if two appends to that
\* index overlapped or one broke off in its write: an append elsewhere, a crash
\* at any other call, a repeated write or any number of later ones keep it.
UndisturbedKeepsAcked ==
    \A a \in acked : \A f \in {ThreadFile[a], WorkFile[a]} \ disturbed : Holds(f, a)

\* The store implements the abstract log, an append in progress being invisible
\* until its bytes are written.
VisibleLines(f) ==
    IF \E p \in Procs : InAppend(p, f)
    THEN values[CHOOSE p \in Procs : InAppend(p, f)]
    ELSE index[f]

Listing(f) == IF f \in disturbed THEN <<>> ELSE VisibleLines(f)

Log == INSTANCE ArtifactLog WITH
    persisted <- {a \in Artifacts : final[a] # "absent"},
    listing <- [f \in IndexFiles |-> Listing(f)],
    spoiled <- disturbed,
    acknowledged <- acked

\* For any number of processes, and whatever fails.
ImplementsLog == Log!Spec

-------------------------------------------------------------------------------
\* What the specification asks of a write that was acknowledged

\* Once write_artifact has returned Ok, both indexes list the artifact, whatever
\* fails later.
AckedStayListed ==
    \A a \in acked : Holds(ThreadFile[a], a) /\ Holds(WorkFile[a], a)

===============================================================================
