---------------------------- MODULE SetupConfigStore ----------------------------
(***************************************************************************)
(* SetupConfigStore of ironloom-storage at the grain of system calls.      *)
(* write opens (creating or truncating) the one temporary file of the      *)
(* setup directory, writes it, syncs it and renames it over the setup      *)
(* file; read opens the setup file and reads it.  Processes that share a   *)
(* state root share both names.                                            *)
(*                                                                         *)
(* A file is an inode: a descriptor keeps its inode across a rename.  An   *)
(* encrypted configuration is one value of some size; a shorter one        *)
(* written over a longer one leaves the tail of the longer one behind, and *)
(* nobody can decrypt that.  Nothing syncs the directory, so a rename      *)
(* reaches the disk at a moment of the kernel's choice.                    *)
(***************************************************************************)
EXTENDS Naturals

CONSTANTS
    Writers,        \* processes that save the setup
    Readers,        \* processes that read it
    Configs,        \* encrypted configurations
    Size,           \* the size of each
    Inodes,         \* bound: files that exist at a time
    None,           \* no inode, or no configuration
    Unknown,        \* what a file holds that two saves wrote
    MaxPowerLosses  \* bound: power losses

ASSUME StoreAssumption ==
    /\ Size \in [Configs -> Nat \ {0}]
    /\ None \notin Configs
    /\ None \notin Inodes
    /\ "torn" \notin Configs \cup {None}
    /\ Unknown \notin Configs \cup {None}
    /\ MaxPowerLosses \in Nat

VARIABLES
    pc,             \* where each writer is in write
    want,           \* the configuration it has yet to write
    fd,             \* the inode of its descriptor
    look,           \* the inode of each reader's descriptor
    tmp,            \* the inode under the temporary name
    final,          \* the inode under the final name
    onDisk,         \* the inode under the final name on the disk
    data,           \* the content of each inode
    synced,         \* inodes whose content is on the disk
    powerLosses,    \* power losses so far
    contested       \* history: files that a save opened while another was in progress

writing == <<pc, want, fd>>
directory == <<tmp, final>>
vars == <<writing, look, directory, onDisk, data, synced, powerLosses, contested>>

\* What a file holds: so many bytes, which decrypt to a configuration or to none.
Contents == [size : Nat, config : Configs \cup {"torn"}]
Empty == [size |-> 0, config |-> "torn"]

TypeOK ==
    /\ pc \in [Writers -> {"idle", "opened", "written", "synced"}]
    /\ want \in [Writers -> Configs \cup {None}]
    /\ \A w \in Writers : want[w] # None <=> pc[w] = "opened"
    /\ fd \in [Writers -> Inodes \cup {None}]
    /\ \A w \in Writers : fd[w] # None <=> pc[w] \in {"opened", "written"}
    /\ look \in [Readers -> Inodes \cup {None}]
    /\ tmp \in Inodes \cup {None}
    /\ final \in Inodes \cup {None}
    /\ onDisk \in Inodes \cup {None}
    /\ data \in [Inodes -> Contents]
    /\ synced \in SUBSET Inodes
    /\ powerLosses \in 0..MaxPowerLosses
    /\ contested \in SUBSET Inodes

Init ==
    /\ pc = [w \in Writers |-> "idle"]
    /\ want = [w \in Writers |-> None]
    /\ fd = [w \in Writers |-> None]
    /\ look = [r \in Readers |-> None]
    /\ tmp = None
    /\ final = None
    /\ onDisk = None
    /\ data = [i \in Inodes |-> Empty]
    /\ synced = {}
    /\ powerLosses = 0
    /\ contested = {}

-------------------------------------------------------------------------------
\* write

Held(i) == (\E w \in Writers : fd[w] = i) \/ (\E r \in Readers : look[r] = i)

Free(i) == i \notin {tmp, final, onDisk} /\ ~Held(i)

Saving(w) == pc[w] # "idle"

\* A save that begins while another is in progress contests the file it opens.
Contest(i) ==
    contested' = IF \E w \in Writers : Saving(w) THEN contested \cup {i} ELSE contested \ {i}

\* Seeded fault: the setup file is opened in place of the temporary one.
OpenInPlace(w, c, i) ==
    /\ pc[w] = "idle"
    /\ IF final = None THEN Free(i) ELSE i = final
    /\ final' = i
    /\ fd' = [fd EXCEPT ![w] = i]
    /\ want' = [want EXCEPT ![w] = c]
    /\ data' = [data EXCEPT ![i] = Empty]
    /\ synced' = synced \ {i}
    /\ pc' = [pc EXCEPT ![w] = "opened"]
    /\ Contest(i)
    /\ UNCHANGED <<look, tmp, onDisk, powerLosses>>

\* create and truncate: a left-over temporary file is emptied and used again.
Open(w, c, i) ==
    /\ pc[w] = "idle"
    /\ IF tmp = None THEN Free(i) ELSE i = tmp
    /\ tmp' = i
    /\ fd' = [fd EXCEPT ![w] = i]
    /\ want' = [want EXCEPT ![w] = c]
    /\ data' = [data EXCEPT ![i] = Empty]
    /\ synced' = synced \ {i}
    /\ pc' = [pc EXCEPT ![w] = "opened"]
    /\ Contest(i)
    /\ UNCHANGED <<look, final, onDisk, powerLosses>>

\* What an inode holds after c is written from its first byte on.
Overwritten(i, c) ==
    IF data[i].size <= Size[c] THEN [size |-> Size[c], config |-> c]
    ELSE [size |-> data[i].size, config |-> "torn"]

\* write_all: the bytes are in the kernel's cache.
Write(w) ==
    /\ pc[w] = "opened"
    /\ data' = [data EXCEPT ![fd[w]] = Overwritten(fd[w], want[w])]
    /\ synced' = synced \ {fd[w]}
    /\ want' = [want EXCEPT ![w] = None]
    /\ pc' = [pc EXCEPT ![w] = "written"]
    /\ UNCHANGED <<fd, look, directory, onDisk, powerLosses, contested>>

\* Seeded fault: the descriptor is closed without being synced.
CloseUnsynced(w) ==
    /\ pc[w] = "written"
    /\ fd' = [fd EXCEPT ![w] = None]
    /\ pc' = [pc EXCEPT ![w] = "synced"]
    /\ UNCHANGED <<want, look, directory, onDisk, data, synced, powerLosses, contested>>

\* sync_all; the descriptor is closed on return.
Sync(w) ==
    /\ pc[w] = "written"
    /\ synced' = synced \cup {fd[w]}
    /\ fd' = [fd EXCEPT ![w] = None]
    /\ pc' = [pc EXCEPT ![w] = "synced"]
    /\ UNCHANGED <<want, look, directory, onDisk, data, powerLosses, contested>>

\* Seeded fault: the file that is replaced is removed first.
RenameAfterRemove(w) ==
    /\ pc[w] = "synced"
    /\ tmp # None
    /\ final' = IF final = None THEN tmp ELSE None
    /\ tmp' = IF final = None THEN None ELSE tmp
    /\ pc' = [pc EXCEPT ![w] = IF final = None THEN "idle" ELSE "synced"]
    /\ UNCHANGED <<want, fd, look, onDisk, data, synced, powerLosses, contested>>

\* rename, whatever inode is under the temporary name by now.
Rename(w) ==
    /\ pc[w] = "synced"
    /\ tmp # None
    /\ final' = tmp
    /\ tmp' = None
    /\ pc' = [pc EXCEPT ![w] = "idle"]
    /\ UNCHANGED <<want, fd, look, onDisk, data, synced, powerLosses, contested>>

\* Seeded fault: the descriptor is not closed when a call fails.
StopLeaking(w) ==
    /\ pc[w] # "idle"
    /\ want' = [want EXCEPT ![w] = None]
    /\ pc' = [pc EXCEPT ![w] = "idle"]
    /\ UNCHANGED <<fd, look, directory, onDisk, data, synced, powerLosses, contested>>

\* One of the calls returns an error, the rename if another process has renamed
\* the file away, or the process is killed: the temporary file stays as it is.
Stop(w) ==
    /\ pc[w] # "idle"
    /\ fd' = [fd EXCEPT ![w] = None]
    /\ want' = [want EXCEPT ![w] = None]
    /\ pc' = [pc EXCEPT ![w] = "idle"]
    /\ UNCHANGED <<look, directory, onDisk, data, synced, powerLosses, contested>>

-------------------------------------------------------------------------------
\* read; without a setup file it returns None and changes nothing.

OpenFinal(r) ==
    /\ look[r] = None
    /\ final # None
    /\ look' = [look EXCEPT ![r] = final]
    /\ UNCHANGED <<writing, directory, onDisk, data, synced, powerLosses, contested>>

\* read_to_string, and c is what it returned decrypts to.
Decrypt(r, c) ==
    /\ look[r] # None
    /\ c = data[look[r]].config
    /\ look' = [look EXCEPT ![r] = None]
    /\ UNCHANGED <<writing, directory, onDisk, data, synced, powerLosses, contested>>

-------------------------------------------------------------------------------
\* The kernel and the power supply

\* The kernel writes the directory back.
Flush ==
    /\ onDisk' = final
    /\ UNCHANGED <<writing, look, directory, data, synced, powerLosses, contested>>

\* All processes are gone, and what was not synced may be; some file or other may
\* be left under the temporary name.
PowerLoss ==
    /\ powerLosses < MaxPowerLosses
    /\ powerLosses' = powerLosses + 1
    /\ pc' = [w \in Writers |-> "idle"]
    /\ want' = [w \in Writers |-> None]
    /\ fd' = [w \in Writers |-> None]
    /\ look' = [r \in Readers |-> None]
    /\ final' = onDisk
    /\ tmp' \in (Inodes \cup {None}) \ {onDisk}
    /\ \E lost \in SUBSET (Inodes \ synced) :
        data' = [i \in Inodes |-> IF i \in lost THEN Empty ELSE data[i]]
    /\ synced' = Inodes
    /\ UNCHANGED <<onDisk, contested>>

-------------------------------------------------------------------------------
Writer(w) ==
    \/ \E c \in Configs, i \in Inodes : Open(w, c, i)
    \/ Write(w) \/ Sync(w) \/ Rename(w) \/ Stop(w)

Reader(r) == OpenFinal(r) \/ \E c \in Configs \cup {"torn"} : Decrypt(r, c)

Next ==
    \/ \E w \in Writers : Writer(w)
    \/ \E r \in Readers : Reader(r)
    \/ Flush \/ PowerLoss

Spec == Init /\ [][Next]_vars

-------------------------------------------------------------------------------
\* Properties

\* Under the final name there is a whole configuration or no file, also after a
\* crash or a power loss in the middle of a write: unless two saves overlapped,
\* and then only until the next one that has the file to itself.
StoredIsWhole == final \notin contested \cup {None} => data[final].config \in Configs

\* A read that overlaps any number of saves returns a configuration that was saved,
\* and bytes that do not decrypt only from a file that two saves had opened.
ReadsAreWhole ==
    [][\A r \in Readers, c \in Configs \cup {"torn"} :
        Decrypt(r, c) /\ look[r] \notin contested => c \in Configs]_vars

\* The configuration an inode stands for.
ConfigOf(i) ==
    IF i = None THEN None ELSE IF i \in contested THEN Unknown ELSE data[i].config

Register == INSTANCE SetupRegister WITH
    value <- ConfigOf(final),
    durable <- ConfigOf(onDisk)

\* The system calls of any number of processes implement the register that the
\* setup relies on.
ImplementsRegister == Register!Spec

===============================================================================
