------------------------------ MODULE ArtifactLog ------------------------------
(***************************************************************************)
(* What write_artifact promises its callers, without files: artifacts are  *)
(* persisted once and for ever, each is then listed under its thread and   *)
(* under its work item, and the write is acknowledged only after both.     *)
(* A listing that two writers append to at once, or that a writer breaks   *)
(* off in, is spoiled: nothing is promised about it any more.              *)
(***************************************************************************)
EXTENDS Naturals, Sequences, Functions

CONSTANTS
    Artifacts,      \* artifact identifiers
    IndexFiles,     \* names of listings, one per thread or work item
    ThreadFile,     \* the thread listing of an artifact
    WorkFile        \* the work-item listing of an artifact

VARIABLES
    persisted,      \* artifacts stored under their final name
    listing,        \* the identifiers in each listing, in order of appearance
    spoiled,        \* listings about which nothing is promised any more
    acknowledged    \* artifacts whose writer was told that the write succeeded

logVars == <<persisted, listing, spoiled, acknowledged>>

Init ==
    /\ persisted = {}
    /\ listing = [f \in IndexFiles |-> <<>>]
    /\ spoiled = {}
    /\ acknowledged = {}

Listed(a, f) == a \in Range(listing[f])

\* An identifier is listed once however often its write is repeated.
Enlist(a, f) ==
    listing' = IF Listed(a, f) \/ f \in spoiled THEN listing
               ELSE [listing EXCEPT ![f] = Append(@, a)]

Persist(a) ==
    /\ persisted' = persisted \cup {a}
    /\ UNCHANGED <<listing, spoiled, acknowledged>>

ListUnderThread(a) ==
    /\ a \in persisted
    /\ Enlist(a, ThreadFile[a])
    /\ UNCHANGED <<persisted, spoiled, acknowledged>>

ListUnderWorkItem(a) ==
    /\ Listed(a, ThreadFile[a]) \/ ThreadFile[a] \in spoiled
    /\ Enlist(a, WorkFile[a])
    /\ acknowledged' = acknowledged \cup {a}
    /\ UNCHANGED <<persisted, spoiled>>

Spoil(f) ==
    /\ spoiled' = spoiled \cup {f}
    /\ listing' = [listing EXCEPT ![f] = <<>>]
    /\ UNCHANGED <<persisted, acknowledged>>

Next ==
    \/ \E a \in Artifacts : Persist(a) \/ ListUnderThread(a) \/ ListUnderWorkItem(a)
    \/ \E f \in IndexFiles : Spoil(f)

Spec == Init /\ [][Next]_logVars

===============================================================================
