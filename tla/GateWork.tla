-------------------------------- MODULE GateWork --------------------------------
(***************************************************************************)
(* From a Discord command to a gate result: the thread is resolved to the  *)
(* one work item it is bound to, the supervisor asks the process graph and *)
(* the policy, dispatches to the registered worker and persists the        *)
(* artifact.  Meanwhile other processes bind threads to work items.        *)
(*                                                                         *)
(* A binding file is read, truncated and written in three steps, at the    *)
(* grain of FilesystemStore's indexes; the gate is a step of its own here  *)
(* (GateRunner has its inside), and so is write_artifact.                  *)
(*                                                                         *)
(* Work-item ids are lines of any length, so a list written over another,  *)
(* or cut short, may read as an id that nobody asked for: Garbled stands   *)
(* for all of those, and a line may become another item's id by accident.  *)
(* A file cut inside a character is no text any more: every read of it     *)
(* fails then, which ResolveFails and BindFails allow for at any time.     *)
(***************************************************************************)
EXTENDS ProcessGraph

CONSTANTS
    Threads,        \* Discord threads
    Items,          \* work items
    Garbled,        \* an id of no work item
    Files,          \* binding files
    BindingFile,    \* the file of each thread
    Binders,        \* processes that call bind_thread_to_work_item
    Commands,       \* commands that arrive, one of each
    Registries,     \* worker registries: versions by name
    GateVersion,    \* the version the supervisor asks for
    None,           \* no item, no thread
    MaxBinds        \* bound on the calls of bind_thread_to_work_item

\* The ids of Discord threads are digits, which safe_file_component keeps.
ASSUME WorkAssumption ==
    /\ BindingFile \in [Threads -> Files]
    /\ \A t, u \in Threads : BindingFile[t] = BindingFile[u] => t = u
    /\ Garbled \notin Items
    /\ None \notin Items \cup {Garbled} \cup Threads \cup (Threads \X Items)
    /\ MaxBinds \in Nat

VARIABLES
    binding,    \* the lines of each file
    bpc,        \* next step of a binder
    request,    \* the thread and the item it binds
    values,     \* the lines it has read
    registry,   \* the worker registry of the runtime
    thread,     \* the thread of a command
    cpc,        \* next step of a command
    item,       \* the work item it was resolved to
    reply,      \* what the operator is told
    ran,        \* gates that ran, by command
    artifacts,  \* artifacts, by command
    binds,      \* calls of bind_thread_to_work_item so far
    asked,      \* history: bindings that were asked for
    bound,      \* history: bindings that were acknowledged
    cut,        \* history: threads whose binds overlapped, or broke off in the write
    torn,       \* history: threads a bind of which left a line cut short
    view        \* history: what a command was resolved against

binders == <<bpc, request, values, binds, asked, bound, cut, torn>>
commands == <<registry, thread, cpc, item, reply, ran, artifacts, view>>
vars == <<binding, binders, commands>>

Ids == Items \cup {Garbled}
Bindings == Threads \X Items
Replies == {"none", "missing", "ambiguous", "lookup_failed", "completed", "failed"}
States == {"quiet", "rewriting", "cut"}
Work == [command : Commands, thread : Threads, item : Ids]

TypeOK ==
    /\ binding \in [Files -> Seq(Ids)]
    /\ bpc \in [Binders -> {"idle", "open", "write"}]
    /\ request \in [Binders -> asked \cup {None}]
    /\ values \in [Binders -> Seq(Ids)]
    /\ registry \in Registries
    /\ thread \in [Commands -> Threads]
    /\ cpc \in [Commands -> {"resolve", "route", "persist", "done"}]
    /\ item \in [Commands -> Ids \cup {None}]
    /\ reply \in [Commands -> Replies]
    /\ ran \subseteq Work /\ artifacts \subseteq Work
    /\ binds \in 0..MaxBinds
    /\ bound \subseteq asked /\ asked \subseteq Bindings
    /\ cut \subseteq Threads /\ torn \subseteq Threads
    /\ view \in [Commands -> [bound : SUBSET Items, state : States]]
    /\ \A b \in Binders : bpc[b] = "idle" <=> request[b] = None
    /\ \A c \in Commands : cpc[c] \in {"route", "persist"} => item[c] # None

-------------------------------------------------------------------------------
\* Bindings

\* Seeded fault: all threads share a file.
PathShared(t) == CHOOSE f \in Files : TRUE

Path(t) == BindingFile[t]

\* Seeded fault: an empty file is read as one blank line.
LinesUnfiltered(f) == IF binding[f] = <<>> THEN <<None>> ELSE binding[f]

\* read_index; a file that is missing and one that is empty are the same.
Lines(f) == binding[f]

\* Writing new from offset 0 into a file that holds old leaves old's tail: where
\* old is the longer one, the last line written runs into the line of old that it
\* ends in, and the lines of old after that one stay.
Tails(old) == {SubSeq(old, k, Len(old)) : k \in 2..(Len(old) + 1)}

Spliced(old, new) ==
    UNION {{SubSeq(new, 1, Len(new) - 1) \o <<seam>> \o tail : tail \in Tails(old)} :
               seam \in Ids}

Overlays(old, new) ==
    IF new = <<>> THEN {old}
    ELSE IF old \in {<<>>, new} THEN {new}
    ELSE {new} \cup Spliced(old, new)

\* Seeded fault: the item is pushed without looking whether it is there.
WithItemRepeated(lines, i) == Append(lines, i)

WithItem(lines, i) ==
    IF \E n \in DOMAIN lines : lines[n] = i THEN lines ELSE Append(lines, i)

Init ==
    /\ binding = [f \in Files |-> <<>>]
    /\ bpc = [b \in Binders |-> "idle"]
    /\ request = [b \in Binders |-> None]
    /\ values = [b \in Binders |-> <<>>]
    /\ registry \in Registries
    /\ thread \in [Commands -> Threads]
    /\ cpc = [c \in Commands |-> "resolve"]
    /\ item = [c \in Commands |-> None]
    /\ reply = [c \in Commands |-> "none"]
    /\ ran = {} /\ artifacts = {}
    /\ binds = 0
    /\ asked = {} /\ bound = {} /\ cut = {} /\ torn = {}
    /\ view = [c \in Commands |-> [bound |-> {}, state |-> "quiet"]]

\* Binders that are about to rewrite the file of a thread.
Binding(t) == {b \in Binders : bpc[b] # "idle" /\ request[b][1] = t}

ReadBinding(b, t, i) ==
    /\ bpc[b] = "idle"
    /\ binds < MaxBinds
    /\ bpc' = [bpc EXCEPT ![b] = "open"]
    /\ request' = [request EXCEPT ![b] = <<t, i>>]
    /\ values' = [values EXCEPT ![b] = Lines(Path(t))]
    /\ binds' = binds + 1
    /\ asked' = asked \cup {<<t, i>>}
    /\ cut' = IF Binding(t) # {} THEN cut \cup {t} ELSE cut
    /\ UNCHANGED <<binding, bound, torn, commands>>

\* fs::write opens the file and truncates it ...
OpenBinding(b) ==
    /\ bpc[b] = "open"
    /\ binding' = [binding EXCEPT ![Path(request[b][1])] = <<>>]
    /\ bpc' = [bpc EXCEPT ![b] = "write"]
    /\ UNCHANGED <<request, values, binds, asked, bound, cut, torn, commands>>

\* Seeded fault: the file is opened for appending.
WriteBindingAtEnd(b) ==
    /\ bpc[b] = "write"
    /\ binding' = [binding EXCEPT ![Path(request[b][1])] =
                     @ \o WithItem(values[b], request[b][2])]
    /\ bpc' = [bpc EXCEPT ![b] = "idle"]
    /\ request' = [request EXCEPT ![b] = None]
    /\ values' = [values EXCEPT ![b] = <<>>]
    /\ bound' = bound \cup {request[b]}
    /\ UNCHANGED <<binds, asked, cut, torn, commands>>

\* What b writes, and where.
File(b) == Path(request[b][1])
New(b) == WithItem(values[b], request[b][2])

\* Writes lines over whatever the file holds by now.
WriteLines(b, lines) ==
    \E outcome \in Overlays(binding[File(b)], lines) :
        binding' = [binding EXCEPT ![File(b)] = outcome]

EndBind(b) ==
    /\ bpc' = [bpc EXCEPT ![b] = "idle"]
    /\ request' = [request EXCEPT ![b] = None]
    /\ values' = [values EXCEPT ![b] = <<>>]
    /\ UNCHANGED <<binds, asked, commands>>

\* ... and writes it, and the binding is acknowledged.
WriteBinding(b) ==
    /\ bpc[b] = "write"
    /\ WriteLines(b, New(b))
    /\ bound' = bound \cup {request[b]}
    /\ EndBind(b)
    /\ UNCHANGED <<cut, torn>>

\* The read or the open fails, or the process dies before them.
BindFails(b) ==
    /\ bpc[b] = "open"
    /\ EndBind(b)
    /\ UNCHANGED <<binding, bound, cut, torn>>

\* The write breaks off after some lines, ...
BindBreaksOff(b) ==
    /\ bpc[b] = "write"
    /\ \E n \in 0..Len(New(b)) : WriteLines(b, SubSeq(New(b), 1, n))
    /\ cut' = cut \cup {request[b][1]}
    /\ EndBind(b)
    /\ UNCHANGED <<bound, torn>>

\* ... or inside of one, what there is of it being an id of its own.
BindTears(b) ==
    /\ bpc[b] = "write"
    /\ \E n \in 1..Len(New(b)) : \E rest \in Ids \ {New(b)[n]} :
           WriteLines(b, Append(SubSeq(New(b), 1, n - 1), rest))
    /\ cut' = cut \cup {request[b][1]}
    /\ torn' = torn \cup {request[b][1]}
    /\ EndBind(b)
    /\ UNCHANGED bound

-------------------------------------------------------------------------------
\* Commands

Answer(c, message) ==
    /\ cpc' = [cpc EXCEPT ![c] = "done"]
    /\ reply' = [reply EXCEPT ![c] = message]

\* What a command is resolved against, for the history.
Look(c) ==
    view' = [view EXCEPT ![c] =
               [bound |-> {i \in Items : <<thread[c], i>> \in bound},
                state |-> IF thread[c] \in cut THEN "cut"
                          ELSE IF Binding(thread[c]) # {} THEN "rewriting"
                          ELSE "quiet"]]

\* Seeded fault: the latest binding wins.
ResolveLatest(c) ==
    /\ cpc[c] = "resolve"
    /\ Look(c)
    /\ LET lines == Lines(Path(thread[c])) IN
         IF lines = <<>> THEN Answer(c, "missing") /\ UNCHANGED item
         ELSE /\ item' = [item EXCEPT ![c] = lines[Len(lines)]]
              /\ cpc' = [cpc EXCEPT ![c] = "route"]
              /\ UNCHANGED reply
    /\ UNCHANGED <<binding, binders, registry, thread, ran, artifacts>>

\* resolve_thread_binding wants exactly one line.
Resolve(c) ==
    /\ cpc[c] = "resolve"
    /\ Look(c)
    /\ LET lines == Lines(Path(thread[c])) IN
         \/ Len(lines) = 0 /\ Answer(c, "missing") /\ UNCHANGED item
         \/ Len(lines) > 1 /\ Answer(c, "ambiguous") /\ UNCHANGED item
         \/ /\ Len(lines) = 1
            /\ item' = [item EXCEPT ![c] = lines[1]]
            /\ cpc' = [cpc EXCEPT ![c] = "route"]
            /\ UNCHANGED reply
    /\ UNCHANGED <<binding, binders, registry, thread, ran, artifacts>>

ResolveFails(c) ==
    /\ cpc[c] = "resolve"
    /\ Answer(c, "lookup_failed")
    /\ UNCHANGED <<binding, binders, registry, thread, item, ran, artifacts, view>>

\* evaluate_policy
EvaluatePolicy(t, destructive) ==
    IF t = None THEN "denied"
    ELSE IF destructive THEN "requires_approval"
    ELSE "allowed"

Dispatches(c) ==
    LET node == NextNode(DefaultGateGraph, "discord_command_received") IN
    /\ node # NoNode
    /\ EvaluatePolicy(thread[c], FALSE) = "allowed"
    /\ node \in DOMAIN registry
    /\ registry[node] = GateVersion

WorkOf(c) == [command |-> c, thread |-> thread[c], item |-> item[c]]

RunGate(c) ==
    /\ cpc[c] = "route"
    /\ Dispatches(c)
    /\ ran' = ran \cup {WorkOf(c)}
    /\ cpc' = [cpc EXCEPT ![c] = "persist"]
    /\ UNCHANGED <<binding, binders, registry, thread, item, reply, artifacts, view>>

\* No route, a refusal, an unknown worker or another version of it.
RouteFails(c) ==
    /\ cpc[c] = "route"
    /\ ~Dispatches(c)
    /\ Answer(c, "failed")
    /\ UNCHANGED <<binding, binders, registry, thread, item, ran, artifacts, view>>

WriteArtifact(c) ==
    /\ cpc[c] = "persist"
    /\ artifacts' = artifacts \cup {WorkOf(c)}
    /\ Answer(c, "completed")
    /\ UNCHANGED <<binding, binders, registry, thread, item, ran, view>>

WriteArtifactFails(c) ==
    /\ cpc[c] = "persist"
    /\ Answer(c, "failed")
    /\ UNCHANGED <<binding, binders, registry, thread, item, ran, artifacts, view>>

-------------------------------------------------------------------------------
Binder(b) ==
    \/ \E t \in Threads, i \in Items : ReadBinding(b, t, i)
    \/ OpenBinding(b) \/ WriteBinding(b)
    \/ BindFails(b) \/ BindBreaksOff(b) \/ BindTears(b)

Command(c) ==
    \/ Resolve(c) \/ ResolveFails(c) \/ RunGate(c) \/ RouteFails(c)
    \/ WriteArtifact(c) \/ WriteArtifactFails(c)

Done ==
    /\ \A c \in Commands : cpc[c] = "done"
    /\ \A b \in Binders : bpc[b] = "idle"
    /\ binds = MaxBinds
    /\ UNCHANGED vars

Next ==
    \/ \E b \in Binders : Binder(b)
    \/ \E c \in Commands : Command(c)
    \/ Done

Spec == Init /\ [][Next]_vars

-------------------------------------------------------------------------------
\* Properties

\* The items that someone asked to be bound to a thread.
Asked(t) == {i \in Items : <<t, i>> \in asked}

\* Whatever its binds do, they have only ever written one id.
Plain(t) == t \notin torn /\ \A i, j \in Asked(t) : i = j

\* However binds race and break off: a gate only runs, and an artifact is only
\* filed, for a thread that someone asked to be bound, and for an item that was
\* asked for there.  Another item takes a bind that left half a line, or binds of
\* different items, and it takes an overlap or a broken-off write before the
\* command is resolved: binds that keep out of each other's way never make one up.
WorkIsBound ==
    \A w \in ran \cup artifacts :
        /\ Asked(w.thread) # {}
        /\ \/ w.item \in Asked(w.thread)
           \/ view[w.command].state = "cut" /\ ~Plain(w.thread)

\* Until binds of the thread overlap or one breaks off in its write, a gate runs
\* only for the one work item the thread is bound to: a second acknowledged
\* binding is never overlooked.
AmbiguityIsRefused ==
    \A w \in ran : view[w.command].state # "cut" => view[w.command].bound = {w.item}

\* Until then a refusal is due, too: a thread is called ambiguous if it was bound
\* to two items, and missing if it was bound to none or is just being rewritten.
RefusalIsDue ==
    \A c \in Commands : view[c].state # "cut" =>
        /\ reply[c] = "ambiguous" => \E i, j \in view[c].bound : i # j
        /\ reply[c] = "missing" /\ view[c].state = "quiet" => view[c].bound = {}

\* Binding a thread to the same item again, even at the same time or after a
\* bind that broke off between lines, never makes it ambiguous.
RetryIsHarmless ==
    \A t \in Threads : Plain(t) => Len(binding[Path(t)]) <= 1

===============================================================================
