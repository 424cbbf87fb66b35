----------------------------- MODULE RuntimeServer -----------------------------
(***************************************************************************)
(* The serving runtime under Kubernetes.  run_health_server accepts one    *)
(* connection at a time and handles it to the end: a Discord command runs  *)
(* its gate inside its connection, and meanwhile all else, the kubelet's   *)
(* liveness probes included, waits in the listen queue.  The gate and the  *)
(* artifact store are modelled in GateRunner and FilesystemStore; here a   *)
(* gate takes some number of probe periods and write_artifact is one step. *)
(*                                                                         *)
(* The server reads each connection once, without a timeout: it waits for  *)
(* as long as a client sends nothing, and what has arrived when the read   *)
(* returns is the whole request to it.                                     *)
(*                                                                         *)
(* Any error on a connection ends run_health_server, hence the process;    *)
(* the kubelet restarts the container then, and also when too many probes  *)
(* in a row went unanswered.  Whatever was queued or in progress is lost.  *)
(***************************************************************************)
EXTENDS Naturals, Sequences, SequencesExt

CONSTANTS
    Commands,       \* Discord interactions, one connection each
    Durations,      \* how many probe periods a gate may take
    Threshold,      \* failureThreshold of the liveness probe
    MaxFaults       \* bound: broken connections and unusable state directories

ASSUME ServerAssumption ==
    /\ Durations \subseteq Nat
    /\ Threshold \in Nat \ {0}
    /\ MaxFaults \in Nat
    /\ Commands \cap {"nobody", "probe", "stale"} = {}

VARIABLES
    queue,          \* the listen queue
    pc,             \* where the server is
    serving,        \* whose connection it has accepted
    kind,           \* what the interaction of each command is
    client,         \* the client's side of each command's connection
    arrived,        \* how much of each command's request has arrived
    answer,         \* the response made up for each command
    persisted,      \* commands whose artifact is written and indexed
    gateLeft,       \* probe periods until the gate in progress ends
    prober,         \* the kubelet's probe
    misses,         \* liveness probes failed in a row
    faults          \* such faults so far

requests == <<kind, client, arrived, answer, persisted>>
kubelet == <<prober, misses>>
vars == <<queue, pc, serving, requests, gateLeft, kubelet, faults>>

\* "probe" is the probe the kubelet is waiting for, "stale" one it gave up on.
Connections == Commands \cup {"probe", "stale"}

\* An interaction is refused (setup missing, bad signature, not JSON, missing
\* field, no single binding), answered on the spot (a ping), or work.
Kinds == {"refused", "ping", "work"}
Answers == {"none", "refusal", "pong", "completed", "failed"}
Amounts == {"nothing", "part", "all"}

TypeOK ==
    /\ queue \in Seq(Connections)
    /\ pc \in {"down", "accept", "respond", "gate", "write_artifact", "reply"}
    /\ serving \in Connections \cup {"nobody"}
    /\ kind \in [Commands -> Kinds]
    /\ client \in [Commands -> {"new", "waiting", "gone", "reset", "answered"}]
    /\ arrived \in [Commands -> Amounts]
    /\ answer \in [Commands -> Answers]
    /\ persisted \in SUBSET Commands
    /\ gateLeft \in Nat
    /\ prober \in {"idle", "waiting"}
    /\ misses \in 0..Threshold
    /\ faults \in 0..MaxFaults

Init ==
    /\ queue = <<>>
    /\ pc = "accept"
    /\ serving = "nobody"
    /\ kind \in [Commands -> Kinds]
    /\ client = [c \in Commands |-> "new"]
    /\ arrived = [c \in Commands |-> "nothing"]
    /\ answer = [c \in Commands |-> "none"]
    /\ persisted = {}
    /\ gateLeft = 0
    /\ prober = "idle"
    /\ misses = 0
    /\ faults = 0

-------------------------------------------------------------------------------
\* The server

\* The process ends: the kernel resets the connections it held and queued.
Exit ==
    /\ pc' = "down"
    /\ serving' = "nobody"
    /\ queue' = <<>>
    /\ client' = [c \in Commands |->
                    IF client[c] \in {"waiting", "reset"} THEN "gone" ELSE client[c]]
    /\ prober' = "idle"
    /\ gateLeft' = 0

\* Seeded fault: a new connection is preferred to one that waited.
AcceptLast ==
    /\ pc = "accept"
    /\ queue # <<>>
    /\ serving' = Last(queue)
    /\ queue' = Front(queue)
    /\ pc' = "respond"
    /\ UNCHANGED <<requests, gateLeft, kubelet, faults>>

Accept ==
    /\ pc = "accept"
    /\ queue # <<>>
    /\ serving' = Head(queue)
    /\ queue' = Tail(queue)
    /\ pc' = "respond"
    /\ UNCHANGED <<requests, gateLeft, kubelet, faults>>

\* Seeded fault: the connection is kept alive for a next request.
RespondProbeKeptAlive ==
    /\ pc = "respond"
    /\ serving \in {"probe", "stale"}
    /\ prober' = IF serving = "probe" THEN "idle" ELSE prober
    /\ misses' = IF serving = "probe" THEN 0 ELSE misses
    /\ serving' = "stale"
    /\ UNCHANGED <<pc, queue, requests, gateLeft, faults>>

\* GET /healthz; a probe the kubelet gave up on is answered into the void.
RespondProbe ==
    /\ pc = "respond"
    /\ serving \in {"probe", "stale"}
    /\ prober' = IF serving = "probe" THEN "idle" ELSE prober
    /\ misses' = IF serving = "probe" THEN 0 ELSE misses
    /\ serving' = "nobody"
    /\ pc' = "accept"
    /\ UNCHANGED <<queue, requests, gateLeft, faults>>

\* The read returns what has arrived, and nothing from a client that has closed.
ReadReturns(c) ==
    /\ client[c] # "reset"
    /\ arrived[c] = "nothing" => client[c] = "gone"

\* The first read of a connection its client has reset fails.
ReadFails ==
    /\ pc = "respond"
    /\ serving \in Commands
    /\ client[serving] = "reset"
    /\ Exit
    /\ UNCHANGED <<kind, arrived, answer, persisted, misses, faults>>

\* FilesystemStore::new cannot create its directories: it is opened anew for
\* every request, a probe included, and the error ends the server.
OpenStoreFails ==
    /\ pc = "respond"
    /\ serving \in Commands => ReadReturns(serving)
    /\ faults < MaxFaults
    /\ faults' = faults + 1
    /\ Exit
    /\ UNCHANGED <<kind, arrived, answer, persisted, misses>>

\* handle_discord_interaction_post_with_work up to run_gate_work: one of its
\* early returns, or the pong.  The signature is over the whole body, so a
\* request of which only a part was read is refused, whatever it asked for.
RespondAtOnce ==
    /\ pc = "respond"
    /\ serving \in Commands
    /\ ReadReturns(serving)
    /\ arrived[serving] = "all" => kind[serving] # "work"
    /\ answer' = [answer EXCEPT ![serving] =
                    IF kind[serving] = "ping" /\ arrived[serving] = "all"
                    THEN "pong" ELSE "refusal"]
    /\ pc' = "reply"
    /\ UNCHANGED <<queue, serving, kind, client, arrived, persisted, gateLeft, kubelet, faults>>

\* Seeded fault: the signature of a request is checked after its gate has begun.
StartGateUnverified ==
    /\ pc = "respond"
    /\ serving \in Commands
    /\ ReadReturns(serving)
    /\ arrived[serving] # "nothing"
    /\ kind[serving] = "work"
    /\ gateLeft' \in Durations
    /\ pc' = "gate"
    /\ UNCHANGED <<queue, serving, requests, kubelet, faults>>

\* run_gate_work: policy and process graph let a thread-bound gate through, and
\* the registered gate worker runs the command.
StartGate ==
    /\ pc = "respond"
    /\ serving \in Commands
    /\ client[serving] # "reset"
    /\ arrived[serving] = "all"
    /\ kind[serving] = "work"
    /\ gateLeft' \in Durations
    /\ pc' = "gate"
    /\ UNCHANGED <<queue, serving, requests, kubelet, faults>>

\* Seeded fault: the connection is let go when its gate has ended.
EndGateForgetful ==
    /\ pc = "gate"
    /\ gateLeft = 0
    /\ serving' = "nobody"
    /\ pc' = "write_artifact"
    /\ UNCHANGED <<queue, requests, gateLeft, kubelet, faults>>

\* Seeded fault: the reply is made up before the artifact is written.
EndGateUnrecorded ==
    /\ pc = "gate"
    /\ gateLeft = 0
    /\ answer' = [answer EXCEPT ![serving] = "completed"]
    /\ pc' = "write_artifact"
    /\ UNCHANGED <<queue, serving, kind, client, arrived, persisted, gateLeft, kubelet, faults>>

EndGate ==
    /\ pc = "gate"
    /\ gateLeft = 0
    /\ pc' = "write_artifact"
    /\ UNCHANGED <<queue, serving, requests, gateLeft, kubelet, faults>>

WriteArtifact ==
    /\ pc = "write_artifact"
    /\ persisted' = persisted \cup {serving}
    /\ answer' = [answer EXCEPT ![serving] = "completed"]
    /\ pc' = "reply"
    /\ UNCHANGED <<queue, serving, kind, client, arrived, gateLeft, kubelet, faults>>

\* The gate has run, but its result is recorded nowhere.
WriteArtifactFails ==
    /\ pc = "write_artifact"
    /\ answer' = [answer EXCEPT ![serving] = "failed"]
    /\ pc' = "reply"
    /\ UNCHANGED <<queue, serving, kind, client, arrived, persisted, gateLeft, kubelet, faults>>

\* write_all succeeds, whether the client still listens or has just closed.
Reply ==
    /\ pc = "reply"
    /\ client[serving] # "reset"
    /\ client' = [client EXCEPT ![serving] = IF @ = "waiting" THEN "answered" ELSE @]
    /\ serving' = "nobody"
    /\ pc' = "accept"
    /\ UNCHANGED <<queue, kind, arrived, answer, persisted, gateLeft, kubelet, faults>>

\* `?` carries the error of write_all out of run_health_server.
ReplyFails ==
    /\ pc = "reply"
    /\ client[serving] = "reset"
    /\ Exit
    /\ UNCHANGED <<kind, arrived, answer, persisted, misses, faults>>

-------------------------------------------------------------------------------
\* Discord and the operator behind it

\* A connection is opened, with or without the request on its heels.
Ask(c) ==
    /\ pc # "down"
    /\ client[c] = "new"
    /\ client' = [client EXCEPT ![c] = "waiting"]
    /\ \E amount \in Amounts : arrived' = [arrived EXCEPT ![c] = amount]
    /\ queue' = Append(queue, c)
    /\ UNCHANGED <<pc, serving, kind, answer, persisted, gateLeft, kubelet, faults>>

\* The next segment arrives; a client need not ever send it.
Send(c) ==
    /\ client[c] = "waiting"
    /\ \/ arrived[c] = "nothing" /\ arrived' = [arrived EXCEPT ![c] = "part"]
       \/ arrived[c] # "all" /\ arrived' = [arrived EXCEPT ![c] = "all"]
    /\ UNCHANGED <<queue, pc, serving, kind, client, answer, persisted, gateLeft, kubelet, faults>>

\* Discord closes the connection after its three seconds.
GiveUp(c) ==
    /\ client[c] = "waiting"
    /\ client' = [client EXCEPT ![c] = "gone"]
    /\ UNCHANGED <<queue, pc, serving, kind, arrived, answer, persisted, gateLeft, kubelet, faults>>

\* The connection breaks: the server's next call on it returns an error.
Reset(c) ==
    /\ client[c] = "waiting"
    /\ faults < MaxFaults
    /\ faults' = faults + 1
    /\ client' = [client EXCEPT ![c] = "reset"]
    /\ UNCHANGED <<queue, pc, serving, kind, arrived, answer, persisted, gateLeft, kubelet>>

-------------------------------------------------------------------------------
\* The kubelet

\* The kubelet probes until the container is to be killed.
SendProbe ==
    /\ pc # "down"
    /\ prober = "idle"
    /\ misses < Threshold
    /\ prober' = "waiting"
    /\ queue' = Append(queue, "probe")
    /\ UNCHANGED <<pc, serving, requests, gateLeft, misses, faults>>

\* The server is busy for as long as a probe waits: with a gate, or with a
\* client that sends nothing.
Silent == pc = "respond" /\ serving \in Commands /\ client[serving] = "waiting"
                         /\ arrived[serving] = "nothing"

ProbeTimesOut ==
    /\ prober = "waiting"
    /\ \/ pc = "gate" /\ gateLeft > 0 /\ gateLeft' = gateLeft - 1
       \/ Silent /\ UNCHANGED gateLeft
    /\ prober' = "idle"
    /\ misses' = misses + 1
    /\ queue' = [i \in 1..Len(queue) |-> IF queue[i] = "probe" THEN "stale" ELSE queue[i]]
    /\ UNCHANGED <<pc, serving, requests, faults>>

\* The container is killed together with the gate it runs, unless that ends just
\* before.
Kill ==
    /\ pc # "down"
    /\ misses = Threshold
    /\ Exit
    /\ UNCHANGED <<kind, arrived, answer, persisted, misses, faults>>

Restart ==
    /\ pc = "down"
    /\ pc' = "accept"
    /\ misses' = 0
    /\ UNCHANGED <<queue, serving, requests, gateLeft, prober, faults>>

-------------------------------------------------------------------------------
Server ==
    \/ Accept \/ RespondProbe \/ ReadFails \/ OpenStoreFails \/ RespondAtOnce
    \/ StartGate \/ EndGate
    \/ WriteArtifact \/ WriteArtifactFails
    \/ Reply \/ ReplyFails

Client(c) == Ask(c) \/ Send(c) \/ GiveUp(c) \/ Reset(c)

Kubelet == SendProbe \/ ProbeTimesOut \/ Kill \/ Restart

Next == Server \/ Kubelet \/ \E c \in Commands : Client(c)

Spec == Init /\ [][Next]_vars

\* The server's thread is scheduled, probes are sent, waited for and acted upon,
\* and a container that ended is restarted.  Nothing is assumed of the clients.
FairSpec ==
    /\ Spec
    /\ WF_vars(Server)
    /\ WF_vars(SendProbe) /\ WF_vars(ProbeTimesOut)
    /\ WF_vars(Kill) /\ WF_vars(Restart)

-------------------------------------------------------------------------------
\* Properties

\* An operator is told that a gate completed only if its result is on disk under
\* the thread and the work item, whatever was killed or broke in between.
CompletedIsPersisted ==
    \A c \in Commands : answer[c] = "completed" => c \in persisted

\* Half a request never runs a gate: an operator finds an artifact only for a
\* command that was sent to its end, even if the rest arrives after the read.
WorkIsWhole ==
    \A c \in Commands :
        c \in persisted \/ answer[c] \in {"completed", "failed"} => arrived[c] = "all"

\* The server comes back from every kill, broken connection and unusable state
\* directory, and from clients that never send a request or never wait for the
\* reply: it is the kubelet that ends the read of a silent client.
ServerRecovers == []<>(pc = "accept")

\* What a command that arrived whole is told in the end.
Due(c) ==
    CASE kind[c] = "refused" -> {"refusal"}
      [] kind[c] = "ping" -> {"pong"}
      [] kind[c] = "work" -> {"completed", "failed"}

\* As long as the server is not stopped, every command that has arrived whole
\* before it is read is served what it asks for, however long the gates before
\* it take, however many probes arrive and however slow other clients are.
CommandIsServed ==
    [](pc # "down") =>
        \A c \in Commands :
            (client[c] = "waiting" /\ arrived[c] = "all" /\ answer[c] = "none")
                ~> (answer[c] \in Due(c))

===============================================================================
