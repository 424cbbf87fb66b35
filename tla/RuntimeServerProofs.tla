-------------------------- MODULE RuntimeServerProofs --------------------------
(***************************************************************************)
(* Theorems about RuntimeServer, for every set of commands, every set of   *)
(* gate durations, every failure threshold and any number of faults.       *)
(***************************************************************************)
EXTENDS RuntimeServer, TLAPS

Consistent ==
    \* Between the dispatch and the reply the server holds a command's connection.
    /\ pc \in {"gate", "write_artifact", "reply"} => serving \in Commands
    \* A gate runs only for a request that was read whole.
    /\ pc \in {"gate", "write_artifact"} => arrived[serving] = "all"
    /\ \A c \in Commands : client[c] = "new" => arrived[c] = "nothing"
    \* A probe is out only while the container is not yet to be killed.
    /\ prober = "waiting" => misses < Threshold

Inv ==
    /\ TypeOK
    /\ Consistent
    /\ CompletedIsPersisted
    /\ WorkIsWhole

LEMMA InitInv == Init => Inv
<1> SUFFICES ASSUME Init PROVE Inv
  OBVIOUS
<1>1. TypeOK
  BY ServerAssumption DEF Init, TypeOK, Connections, Kinds, Answers, Amounts
<1>2. Consistent /\ CompletedIsPersisted /\ WorkIsWhole
  BY DEF Init, Consistent, CompletedIsPersisted, WorkIsWhole
<1>3. QED
  BY <1>1, <1>2 DEF Inv

\* A process that ends leaves the record as it is.
LEMMA ExitInv ==
    ASSUME Inv, Exit, UNCHANGED <<kind, arrived, answer, persisted>>,
           misses' \in 0..Threshold, faults' \in 0..MaxFaults
    PROVE  Inv'
<1> USE DEF Inv, Exit
<1>1. TypeOK'
  BY DEF TypeOK
<1>2. (Consistent /\ CompletedIsPersisted /\ WorkIsWhole)'
  BY DEF Consistent, CompletedIsPersisted, WorkIsWhole
<1>3. QED
  BY <1>1, <1>2

\* What the server does with one connection.
LEMMA ServerInv == Inv /\ Server => Inv'
<1> SUFFICES ASSUME Inv, Server PROVE Inv'
  OBVIOUS
<1> USE ServerAssumption DEF Inv, requests, kubelet
<1>1. CASE Accept
  <2>1. Head(queue) \in Connections /\ Tail(queue) \in Seq(Connections)
    BY <1>1 DEF Accept, TypeOK
  <2>2. TypeOK'
    BY <1>1, <2>1 DEF Accept, TypeOK
  <2>3. QED
    BY <1>1, <2>2 DEF Accept, Consistent, CompletedIsPersisted, WorkIsWhole
<1>2. CASE RespondProbe
  <2>1. TypeOK'
    BY <1>2 DEF RespondProbe, TypeOK
  <2>2. QED
    BY <1>2, <2>1 DEF RespondProbe, Consistent, CompletedIsPersisted, WorkIsWhole
<1>3. CASE ReadFails \/ ReplyFails
  BY <1>3, ExitInv DEF ReadFails, ReplyFails, TypeOK
<1>4. CASE OpenStoreFails
  BY <1>4, ExitInv DEF OpenStoreFails, TypeOK
<1>5. CASE RespondAtOnce
  <2>1. TypeOK'
    BY <1>5 DEF RespondAtOnce, TypeOK, Answers
  <2>2. QED
    BY <1>5, <2>1 DEF RespondAtOnce, Consistent, CompletedIsPersisted, WorkIsWhole, TypeOK
<1>6. CASE StartGate
  <2>1. TypeOK'
    BY <1>6 DEF StartGate, TypeOK
  <2>2. QED
    BY <1>6, <2>1 DEF StartGate, Consistent, CompletedIsPersisted, WorkIsWhole
<1>7. CASE EndGate
  <2>1. TypeOK'
    BY <1>7 DEF EndGate, TypeOK
  <2>2. QED
    BY <1>7, <2>1 DEF EndGate, Consistent, CompletedIsPersisted, WorkIsWhole
<1>8. CASE WriteArtifact
  <2>1. serving \in Commands
    BY <1>8 DEF WriteArtifact, Consistent
  <2>2. TypeOK'
    BY <1>8, <2>1 DEF WriteArtifact, TypeOK, Answers
  <2>3. QED
    BY <1>8, <2>1, <2>2 DEF WriteArtifact, Consistent, CompletedIsPersisted, WorkIsWhole, TypeOK
<1>9. CASE WriteArtifactFails
  <2>1. TypeOK'
    BY <1>9 DEF WriteArtifactFails, TypeOK, Answers
  <2>2. QED
    BY <1>9, <2>1 DEF WriteArtifactFails, Consistent, CompletedIsPersisted, WorkIsWhole, TypeOK
<1>10. CASE Reply
  <2>1. TypeOK'
    BY <1>10 DEF Reply, TypeOK
  <2>2. QED
    BY <1>10, <2>1 DEF Reply, Consistent, CompletedIsPersisted, WorkIsWhole
<1>11. QED
  BY <1>1, <1>2, <1>3, <1>4, <1>5, <1>6, <1>7, <1>8, <1>9, <1>10 DEF Server

\* The kubelet touches the queue and the process, never the record.
LEMMA KubeletInv == Inv /\ Kubelet => Inv'
<1> SUFFICES ASSUME Inv, Kubelet PROVE Inv'
  OBVIOUS
<1> USE ServerAssumption DEF Inv, requests
<1>1. CASE SendProbe
  <2>1. Append(queue, "probe") \in Seq(Connections)
    BY DEF TypeOK, Connections
  <2>2. TypeOK'
    BY <1>1, <2>1 DEF SendProbe, TypeOK
  <2>3. QED
    BY <1>1, <2>2 DEF SendProbe, Consistent, CompletedIsPersisted, WorkIsWhole
<1>2. CASE ProbeTimesOut
  <2> DEFINE Marked(i) == IF queue[i] = "probe" THEN "stale" ELSE queue[i]
  <2>1. \A i \in 1..Len(queue) : Marked(i) \in Connections
    BY DEF TypeOK, Connections
  <2>2. [i \in 1..Len(queue) |-> Marked(i)] \in Seq(Connections)
    <3>1. Len(queue) \in Nat
      BY DEF TypeOK
    <3>2. QED
      BY <2>1, <3>1
  <2>3. queue' \in Seq(Connections)
    BY <1>2, <2>2 DEF ProbeTimesOut
  <2>4. TypeOK'
    BY <1>2, <2>3 DEF ProbeTimesOut, TypeOK, Consistent
  <2>5. QED
    BY <1>2, <2>4 DEF ProbeTimesOut, Consistent, CompletedIsPersisted, WorkIsWhole
<1>3. CASE Kill
  BY <1>3, ExitInv DEF Kill, TypeOK
<1>4. CASE Restart
  <2>1. TypeOK'
    BY <1>4 DEF Restart, TypeOK
  <2>2. QED
    BY <1>4, <2>1 DEF Restart, Consistent, CompletedIsPersisted, WorkIsWhole
<1>5. QED
  BY <1>1, <1>2, <1>3, <1>4 DEF Kubelet

LEMMA ClientInv ==
    ASSUME Inv, NEW c \in Commands, Client(c)
    PROVE  Inv'
<1> USE ServerAssumption DEF Inv, kubelet
<1>1. CASE Ask(c)
  <2>1. Append(queue, c) \in Seq(Connections)
    BY DEF TypeOK, Connections
  <2>2. TypeOK'
    BY <1>1, <2>1 DEF Ask, TypeOK, Amounts
  <2>3. QED
    BY <1>1, <2>2 DEF Ask, Consistent, CompletedIsPersisted, WorkIsWhole, TypeOK
<1>2. CASE Send(c)
  <2>1. TypeOK'
    BY <1>2 DEF Send, TypeOK, Amounts
  <2>2. QED
    BY <1>2, <2>1 DEF Send, Consistent, CompletedIsPersisted, WorkIsWhole, TypeOK
<1>3. CASE GiveUp(c)
  <2>1. TypeOK'
    BY <1>3 DEF GiveUp, TypeOK
  <2>2. QED
    BY <1>3, <2>1 DEF GiveUp, Consistent, CompletedIsPersisted, WorkIsWhole
<1>4. CASE Reset(c)
  <2>1. TypeOK'
    BY <1>4 DEF Reset, TypeOK
  <2>2. QED
    BY <1>4, <2>1 DEF Reset, Consistent, CompletedIsPersisted, WorkIsWhole
<1>5. QED
  BY <1>1, <1>2, <1>3, <1>4 DEF Client

LEMMA NextInv == Inv /\ [Next]_vars => Inv'
<1> SUFFICES ASSUME Inv, [Next]_vars PROVE Inv'
  OBVIOUS
<1>1. CASE UNCHANGED vars
  BY <1>1 DEF vars, requests, kubelet, Inv, TypeOK, Consistent, CompletedIsPersisted, WorkIsWhole
<1>2. QED
  BY <1>1, ServerInv, KubeletInv, ClientInv DEF Next

-------------------------------------------------------------------------------
\* Every variable of the server, its clients and the kubelet keeps its type.
THEOREM TypeCorrect == Spec => []TypeOK
  BY InitInv, NextInv, PTL DEF Spec, Inv

\* However long gates take, whatever is killed and whichever connection breaks,
\* "Gate completed" is only ever said of a gate whose artifact was written.
THEOREM CompletionIsRecorded == Spec => []CompletedIsPersisted
  BY InitInv, NextInv, PTL DEF Spec, Inv

\* Whatever the network cuts in two, an artifact or the result of a gate is only
\* ever there for a command that arrived to its end.
THEOREM GatesRunWholeRequests == Spec => []WorkIsWhole
  BY InitInv, NextInv, PTL DEF Spec, Inv

-------------------------------------------------------------------------------
\* No command is lost in the queue and none is served twice

Queued(c) == \E i \in DOMAIN queue : queue[i] = c

\* A connection is in one place: once in the queue, or accepted.
Placed(c) ==
    /\ \A i, j \in DOMAIN queue : queue[i] = c /\ queue[j] = c => i = j
    /\ serving = c => ~Queued(c)

\* What has become of a client and of its answer agrees with that place.
Followed(c) ==
    /\ client[c] \in {"waiting", "reset"} => Queued(c) \/ serving = c
    /\ client[c] = "new" => ~Queued(c) /\ serving # c /\ answer[c] = "none"
    /\ answer[c] # "none" => ~Queued(c) /\ (serving = c => pc = "reply")
    /\ client[c] = "answered" => answer[c] # "none"

HeldInv ==
    /\ Inv
    /\ \A c \in Commands : Placed(c) /\ Followed(c)
    /\ pc \in {"gate", "write_artifact"} => kind[serving] = "work"
    /\ pc = "reply" => answer[serving] # "none"
    /\ pc \in {"accept", "down"} => serving = "nobody"

LEMMA InitHeld == Init => HeldInv
<1> SUFFICES ASSUME Init PROVE HeldInv
  OBVIOUS
<1>1. Inv
  BY InitInv
<1>2. \A c \in Commands : serving # c /\ ~Queued(c)
  BY ServerAssumption DEF Init, Queued
<1>3. QED
  BY <1>1, <1>2 DEF Init, HeldInv, Placed, Followed

LEMMA QueueParts ==
    ASSUME NEW q \in Seq(Connections), q # <<>>
    PROVE  /\ Head(q) = q[1]
           /\ DOMAIN q = 1..Len(q) /\ Len(q) \in Nat /\ Len(q) > 0
           /\ DOMAIN Tail(q) = 1..(Len(q) - 1)
           /\ \A i \in 1..(Len(q) - 1) : Tail(q)[i] = q[i + 1]
  OBVIOUS

LEMMA QueueGrows ==
    ASSUME NEW q \in Seq(Connections), NEW d
    PROVE  /\ DOMAIN q = 1..Len(q) /\ Len(q) \in Nat
           /\ DOMAIN Append(q, d) = 1..(Len(q) + 1)
           /\ \A i \in 1..Len(q) : Append(q, d)[i] = q[i]
           /\ Append(q, d)[Len(q) + 1] = d
  OBVIOUS

\* What is appended to the queue concerns nobody else.
LEMMA OthersInQueue ==
    ASSUME TypeOK, NEW c \in Commands, NEW d, c # d, queue' = Append(queue, d), serving' = serving
    PROVE  (Queued(c)' <=> Queued(c)) /\ (Placed(c) => Placed(c)')
<1>1. queue \in Seq(Connections)
  BY DEF TypeOK
<1>2. QED
  BY <1>1, QueueGrows DEF Queued, Placed

\* The process ends: what was queued is gone, and so are those that waited.
LEMMA ExitHeld ==
    ASSUME HeldInv, Inv', Exit, UNCHANGED <<kind, arrived, answer, persisted>>
    PROVE  HeldInv'
<1>1. \A c \in Commands : serving' # c /\ ~Queued(c)'
  BY ServerAssumption DEF Exit, Queued
<1>2. \A c \in Commands :
          client'[c] = IF client[c] \in {"waiting", "reset"} THEN "gone" ELSE client[c]
  BY DEF Exit
<1>3. QED
  BY <1>1, <1>2 DEF Exit, HeldInv, Placed, Followed

LEMMA AcceptHeld ==
    ASSUME HeldInv, Inv', Accept
    PROVE  HeldInv'
<1> USE DEF requests
<1>1. queue \in Seq(Connections) /\ queue # <<>>
  BY DEF Accept, HeldInv, Inv, TypeOK
<1>2. serving' = queue[1] /\ queue' = Tail(queue)
  BY <1>1, QueueParts DEF Accept
<1> SUFFICES ASSUME NEW c \in Commands PROVE (Placed(c) /\ Followed(c))'
  BY DEF Accept, HeldInv
<1>3. Placed(c) /\ Followed(c)
  BY DEF HeldInv
<1>4. Queued(c)' <=> Queued(c) /\ queue[1] # c
  <2>1. \A i \in DOMAIN queue' : i \in Nat /\ i + 1 \in DOMAIN queue /\ queue'[i] = queue[i + 1]
    BY <1>1, <1>2, QueueParts
  <2>2. \A i \in DOMAIN queue : i # 1 => i - 1 \in DOMAIN queue' /\ queue'[i - 1] = queue[i]
    BY <1>1, <1>2, QueueParts
  <2>3. ASSUME Queued(c)' PROVE Queued(c) /\ queue[1] # c
    <3>1. PICK i \in DOMAIN queue' : queue'[i] = c
      BY <2>3 DEF Queued
    <3>2. i + 1 \in DOMAIN queue /\ queue[i + 1] = c /\ i + 1 # 1
      BY <1>1, <1>2, <2>1, <3>1, QueueParts
    <3>3. 1 \in DOMAIN queue
      BY <1>1, QueueParts
    <3>4. QED
      BY <1>3, <3>2, <3>3 DEF Queued, Placed
  <2>4. ASSUME Queued(c), queue[1] # c PROVE Queued(c)'
    BY <2>2, <2>4 DEF Queued
  <2>5. QED
    BY <2>3, <2>4
<1>5. Placed(c)'
  <2>1. \A i \in DOMAIN queue' : i + 1 \in DOMAIN queue /\ queue'[i] = queue[i + 1]
    BY <1>1, <1>2, QueueParts
  <2>2. \A i, j \in DOMAIN queue' : queue'[i] = c /\ queue'[j] = c => i = j
    <3> TAKE i, j \in DOMAIN queue'
    <3>1. i \in Nat /\ j \in Nat
      BY <1>1, <1>2, QueueParts
    <3>2. QED
      BY <1>3, <2>1, <3>1 DEF Placed
  <2>3. serving' = c => ~Queued(c)'
    BY <1>2, <1>4
  <2>4. QED
    BY <2>2, <2>3 DEF Placed
<1>6. Followed(c)'
  <2>1. pc = "accept" /\ UNCHANGED <<client, answer>>
    BY DEF Accept
  <2>2. Queued(c) => Queued(c)' \/ serving' = c
    BY <1>2, <1>4
  <2>3. serving' = c => Queued(c)
    <3>1. 1 \in DOMAIN queue
      BY <1>1, QueueParts
    <3>2. QED
      BY <1>2, <3>1 DEF Queued
  <2>4. serving # c \/ client[c] \notin {"waiting", "reset"}
    BY <2>1, ServerAssumption DEF HeldInv
  <2>5. QED
    BY <1>3, <1>4, <2>1, <2>2, <2>3, <2>4 DEF Followed
<1>7. QED
  BY <1>5, <1>6

\* The server works on the connection it has accepted.
LEMMA ServeHeld ==
    ASSUME HeldInv, Inv',
           \/ RespondProbe \/ RespondAtOnce \/ StartGate \/ EndGate
           \/ WriteArtifact \/ WriteArtifactFails \/ Reply
    PROVE  HeldInv'
<1> USE DEF requests, kubelet
<1>a. UNCHANGED queue /\ serving' \in {serving, "nobody"} /\ UNCHANGED kind
  BY DEF RespondProbe, RespondAtOnce, StartGate, EndGate, WriteArtifact, WriteArtifactFails, Reply
<1>b. \A c \in Commands : Placed(c)' /\ (Queued(c)' <=> Queued(c))
  BY <1>a, ServerAssumption DEF HeldInv, Placed, Queued
<1>c. answer \in [Commands -> Answers] /\ client \in [Commands -> {"new", "waiting", "gone", "reset", "answered"}]
  BY DEF HeldInv, Inv, TypeOK
<1>d. \A c \in Commands : Placed(c) /\ Followed(c)
  BY DEF HeldInv
<1>1. CASE RespondProbe
  <2>1. \A c \in Commands : Followed(c)'
    BY <1>1, <1>b, <1>d, ServerAssumption DEF RespondProbe, Followed
  <2>2. QED
    BY <1>1, <1>b, <2>1 DEF RespondProbe, HeldInv
<1>2. CASE RespondAtOnce \/ WriteArtifact \/ WriteArtifactFails
  <2>1. /\ serving \in Commands /\ pc \in {"respond", "write_artifact"} /\ pc' = "reply"
        /\ UNCHANGED <<client, serving>>
        /\ answer'[serving] # "none"
        /\ \A c \in Commands \ {serving} : answer'[c] = answer[c]
    BY <1>2, <1>c DEF RespondAtOnce, WriteArtifact, WriteArtifactFails, HeldInv, Inv, Consistent
  <2>2. client[serving] # "new" /\ ~Queued(serving)
    BY <1>d, <2>1 DEF Followed, Placed
  <2>3. \A c \in Commands : Followed(c)'
    BY <1>b, <1>d, <2>1, <2>2 DEF Followed
  <2>4. QED
    BY <1>b, <2>1, <2>3 DEF HeldInv
<1>3. CASE StartGate \/ EndGate
  <2>1. pc \in {"respond", "gate"} /\ pc' \in {"gate", "write_artifact"}
        /\ UNCHANGED <<client, answer, serving>> /\ kind[serving] = "work"
    BY <1>3 DEF StartGate, EndGate, HeldInv
  <2>2. \A c \in Commands : Followed(c)'
    BY <1>b, <1>d, <2>1 DEF Followed
  <2>3. QED
    BY <1>a, <1>b, <2>1, <2>2 DEF HeldInv
<1>4. CASE Reply
  <2>1. /\ serving \in Commands /\ pc = "reply" /\ pc' = "accept" /\ serving' = "nobody"
        /\ client[serving] # "reset" /\ answer[serving] # "none" /\ UNCHANGED answer
    BY <1>4 DEF Reply, HeldInv, Inv, Consistent
  <2>2. \A c \in Commands :
            client'[c] = IF c = serving /\ client[c] = "waiting" THEN "answered" ELSE client[c]
    BY <1>4, <1>c, <2>1 DEF Reply
  <2>3. \A c \in Commands : Followed(c)'
    BY <1>b, <1>d, <2>1, <2>2, ServerAssumption DEF Followed, Placed
  <2>4. QED
    BY <1>b, <2>1, <2>3 DEF HeldInv
<1>5. QED
  BY <1>1, <1>2, <1>3, <1>4

LEMMA KubeletHeld ==
    ASSUME HeldInv, Inv', SendProbe \/ ProbeTimesOut \/ Restart
    PROVE  HeldInv'
<1> USE DEF requests
<1>a. UNCHANGED <<serving, client, answer, kind>>
  BY DEF SendProbe, ProbeTimesOut, Restart
<1>b. \A c \in Commands : Placed(c) /\ Followed(c)
  BY DEF HeldInv
<1>c. \A c \in Commands : (Queued(c)' <=> Queued(c)) /\ Placed(c)'
  <2>1. CASE SendProbe
    BY <1>b, <2>1, ServerAssumption, OthersInQueue DEF SendProbe, HeldInv, Inv
  <2>2. CASE ProbeTimesOut
    <3>1. queue \in Seq(Connections)
      BY DEF HeldInv, Inv, TypeOK
    <3>2. DOMAIN queue = 1..Len(queue)
      BY <3>1
    <3>3. queue' = [i \in 1..Len(queue) |-> IF queue[i] = "probe" THEN "stale" ELSE queue[i]]
      BY <2>2 DEF ProbeTimesOut
    <3>4. DOMAIN queue' = DOMAIN queue
          /\ \A i \in DOMAIN queue, c \in Commands : queue'[i] = c <=> queue[i] = c
      BY <3>2, <3>3, ServerAssumption
    <3>5. QED
      BY <1>a, <1>b, <3>4 DEF Queued, Placed
  <2>3. CASE Restart
    BY <1>b, <2>3 DEF Restart, Queued, Placed
  <2>4. QED
    BY <2>1, <2>2, <2>3
<1>d. pc' = pc \/ (pc = "down" /\ pc' = "accept")
  BY DEF SendProbe, ProbeTimesOut, Restart
<1>e. \A c \in Commands : Followed(c)'
  BY <1>a, <1>b, <1>c, <1>d, ServerAssumption DEF Followed, HeldInv
<1>f. QED
  BY <1>a, <1>c, <1>d, <1>e DEF HeldInv

LEMMA ClientHeld ==
    ASSUME HeldInv, Inv', NEW c \in Commands, Client(c)
    PROVE  HeldInv'
<1> USE DEF kubelet
<1>a. /\ client \in [Commands -> {"new", "waiting", "gone", "reset", "answered"}]
      /\ queue \in Seq(Connections)
  BY DEF HeldInv, Inv, TypeOK
<1>b. \A d \in Commands : Placed(d) /\ Followed(d)
  BY DEF HeldInv
<1>c. UNCHANGED <<pc, serving, answer, kind>>
  BY DEF Client, Ask, Send, GiveUp, Reset
<1>1. CASE Ask(c)
  <2>1. \A d \in Commands \ {c} : (Queued(d)' <=> Queued(d)) /\ Placed(d)' /\ client'[d] = client[d]
    BY <1>1, <1>a, <1>b, OthersInQueue DEF Ask, HeldInv, Inv
  <2>2. client[c] = "new" /\ client'[c] = "waiting" /\ queue' = Append(queue, c)
    BY <1>1, <1>a DEF Ask
  <2>3. ~Queued(c) /\ serving # c /\ answer[c] = "none"
    BY <1>b, <2>2 DEF Followed
  <2>4. Queued(c)' /\ Placed(c)'
    BY <1>a, <1>c, <2>2, <2>3, QueueGrows DEF Queued, Placed
  <2>5. \A d \in Commands : Followed(d)'
    BY <1>b, <1>c, <2>1, <2>2, <2>3, <2>4 DEF Followed
  <2>6. QED
    BY <1>c, <2>1, <2>4, <2>5 DEF HeldInv
<1>2. CASE Send(c) \/ GiveUp(c) \/ Reset(c)
  <2>1. UNCHANGED queue /\ \A d \in Commands :
            client'[d] = client[d] \/ (client[d] = "waiting" /\ client'[d] \in {"gone", "reset"})
    BY <1>2, <1>a DEF Send, GiveUp, Reset
  <2>2. \A d \in Commands : Placed(d)' /\ (Queued(d)' <=> Queued(d))
    BY <1>b, <1>c, <2>1 DEF Placed, Queued
  <2>3. \A d \in Commands : Followed(d)'
    BY <1>b, <1>c, <2>1, <2>2 DEF Followed
  <2>4. QED
    BY <1>c, <2>2, <2>3 DEF HeldInv
<1>3. QED
  BY <1>1, <1>2 DEF Client

LEMMA NextHeld == HeldInv /\ [Next]_vars => HeldInv'
<1> SUFFICES ASSUME HeldInv, [Next]_vars PROVE HeldInv'
  OBVIOUS
<1>1. Inv'
  BY NextInv DEF HeldInv
<1>2. CASE UNCHANGED vars
  BY <1>1, <1>2 DEF vars, requests, kubelet, HeldInv, Placed, Followed, Queued
<1>3. CASE ReadFails \/ OpenStoreFails \/ ReplyFails \/ Kill
  BY <1>1, <1>3, ExitHeld DEF ReadFails, OpenStoreFails, ReplyFails, Kill
<1>4. CASE Accept
  BY <1>1, <1>4, AcceptHeld
<1>5. QED
  BY <1>1, <1>2, <1>3, <1>4, ServeHeld, KubeletHeld, ClientHeld DEF Next, Server, Kubelet

\* A command whose client waits is in the queue, or it is being served: no kill, no
\* probe that times out and no other client's fault makes the server forget it.
THEOREM WaitingIsHeld ==
    Spec => [](\A c \in Commands : client[c] = "waiting" => Queued(c) \/ serving = c)
<1>1. HeldInv => \A c \in Commands : client[c] = "waiting" => Queued(c) \/ serving = c
  BY DEF HeldInv, Followed
<1>2. QED
  BY InitHeld, NextHeld, <1>1, PTL DEF Spec

\* A command is answered once, hence its gate is run to its end once at most, and
\* if it has arrived whole by then it is told what is due to it.
AnsweredOnce ==
    [][\A c \in Commands : answer'[c] # answer[c] =>
         /\ answer[c] = "none"
         /\ arrived[c] = "all" => answer'[c] \in Due(c)]_vars

THEOREM AnswersAreFinal == Spec => AnsweredOnce
<1> DEFINE Once ==
        \A c \in Commands : answer'[c] # answer[c] =>
            /\ answer[c] = "none"
            /\ arrived[c] = "all" => answer'[c] \in Due(c)
<1>1. HeldInv /\ [Next]_vars => Once
  <2> SUFFICES ASSUME HeldInv, [Next]_vars, NEW c \in Commands, answer'[c] # answer[c]
               PROVE  answer[c] = "none" /\ (arrived[c] = "all" => answer'[c] \in Due(c))
    OBVIOUS
  <2>1. RespondAtOnce \/ WriteArtifact \/ WriteArtifactFails
    BY DEF Next, Server, Kubelet, Client, Accept, RespondProbe, ReadFails, OpenStoreFails,
           StartGate, EndGate, Reply, ReplyFails, Ask, Send, GiveUp, Reset, SendProbe,
           ProbeTimesOut, Kill, Restart, vars, requests
  <2>2. c = serving /\ pc \in {"respond", "write_artifact"}
    BY <2>1 DEF RespondAtOnce, WriteArtifact, WriteArtifactFails, HeldInv, Inv, TypeOK
  <2>3. answer[c] = "none"
    BY <2>2 DEF HeldInv, Followed
  <2>4. CASE RespondAtOnce
    <3>1. answer'[c] = IF kind[c] = "ping" /\ arrived[c] = "all" THEN "pong" ELSE "refusal"
      BY <2>2, <2>4 DEF RespondAtOnce, HeldInv, Inv, TypeOK
    <3>2. arrived[c] = "all" => kind[c] \in {"ping", "refused"}
      BY <2>2, <2>4 DEF RespondAtOnce, HeldInv, Inv, TypeOK, Kinds
    <3>3. QED
      BY <2>3, <3>1, <3>2 DEF Due
  <2>5. CASE WriteArtifact \/ WriteArtifactFails
    <3>1. kind[c] = "work" /\ answer'[c] \in {"completed", "failed"}
      BY <2>2, <2>5 DEF WriteArtifact, WriteArtifactFails, HeldInv, Inv, TypeOK
    <3>2. QED
      BY <2>3, <3>1 DEF Due
  <2>6. QED
    BY <2>1, <2>4, <2>5
<1>2. QED
  BY InitHeld, NextHeld, <1>1, PTL DEF Spec, AnsweredOnce

-------------------------------------------------------------------------------
\* First come, first served

\* Steps to the end of the connection in progress.
Phase ==
    CASE pc = "respond" -> 4
      [] pc = "gate" -> 3
      [] pc = "write_artifact" -> 2
      [] pc = "reply" -> 1
      [] OTHER -> 0

\* Steps of the server until the i-th connection of the queue has been accepted.
StepsAhead(i) == 5 * i + Phase

\* Until the process ends, a queued command keeps its place: whatever is asked,
\* probed, closed or reset adds nothing to what the server does before it, each
\* step of the server leaves less of it, and the last one accepts the command.
InTurn ==
    [][\A c \in Commands, i \in DOMAIN queue :
         queue[i] = c /\ pc' # "down" =>
            \/ Accept /\ i = 1 /\ serving' = c
            \/ \E j \in DOMAIN queue' :
                  /\ queue'[j] = c
                  /\ StepsAhead(j)' <= StepsAhead(i)
                  /\ Server => StepsAhead(j)' < StepsAhead(i)]_vars

THEOREM ServedInTurn == Spec => InTurn
<1> DEFINE Nearer(c, i) ==
        \/ Accept /\ i = 1 /\ serving' = c
        \/ \E j \in DOMAIN queue' :
              /\ queue'[j] = c
              /\ StepsAhead(j)' <= StepsAhead(i)
              /\ Server => StepsAhead(j)' < StepsAhead(i)
<1>1. ASSUME Inv, [Next]_vars, NEW c \in Commands, NEW i \in DOMAIN queue,
             queue[i] = c, pc' # "down"
      PROVE  Nearer(c, i)
  <2> USE DEF requests, kubelet
  <2>q. queue \in Seq(Connections) /\ queue # <<>>
    BY <1>1 DEF Inv, TypeOK
  <2>i. i \in 1..Len(queue) /\ Len(queue) \in Nat
    BY <1>1, <2>q
  <2>1. CASE Accept
    <3>1. pc = "accept" /\ pc' = "respond" /\ serving' = queue[1] /\ queue' = Tail(queue)
      BY <2>1, <2>q, QueueParts DEF Accept
    <3>2. CASE i = 1
      BY <1>1, <2>1, <3>1, <3>2
    <3>3. CASE i # 1
      <4>1. i - 1 \in DOMAIN queue' /\ queue'[i - 1] = c
        BY <1>1, <2>q, <2>i, <3>1, <3>3, QueueParts
      <4>2. StepsAhead(i - 1)' < StepsAhead(i) /\ StepsAhead(i - 1)' <= StepsAhead(i)
        BY <2>i, <3>1 DEF StepsAhead, Phase
      <4>3. QED
        BY <4>1, <4>2
    <3>4. QED
      BY <3>2, <3>3
  <2>2. CASE RespondProbe \/ RespondAtOnce \/ StartGate \/ EndGate
             \/ WriteArtifact \/ WriteArtifactFails \/ Reply
    <3>1. UNCHANGED queue
      BY <2>2 DEF RespondProbe, RespondAtOnce, StartGate, EndGate, WriteArtifact,
                  WriteArtifactFails, Reply
    <3>2. Phase' < Phase /\ Phase \in Nat /\ Phase' \in Nat
      BY <2>2 DEF RespondProbe, RespondAtOnce, StartGate, EndGate, WriteArtifact,
                  WriteArtifactFails, Reply, Phase
    <3>3. StepsAhead(i)' < StepsAhead(i) /\ StepsAhead(i)' <= StepsAhead(i)
      BY <2>i, <3>2 DEF StepsAhead
    <3>4. QED
      BY <1>1, <3>1, <3>3
  <2>3. CASE ~Server
    <3>1. pc' = pc \/ (pc = "down" /\ pc' = "accept")
      BY <1>1, <2>3 DEF Next, Kubelet, Client, SendProbe, ProbeTimesOut, Kill, Exit, Restart,
                        Ask, Send, GiveUp, Reset, vars
    <3>2. i \in DOMAIN queue' /\ queue'[i] = c
      <4>1. CASE SendProbe \/ \E d \in Commands : Ask(d)
        <5>1. PICK d : queue' = Append(queue, d)
          BY <4>1 DEF SendProbe, Ask
        <5>2. QED
          BY <1>1, <2>q, <2>i, <5>1, QueueGrows
      <4>2. CASE ProbeTimesOut
        BY <1>1, <2>i, <4>2, ServerAssumption DEF ProbeTimesOut
      <4>3. CASE UNCHANGED queue
        BY <1>1, <4>3
      <4>4. QED
        BY <1>1, <2>3, <4>1, <4>2, <4>3
        DEF Next, Kubelet, Client, Kill, Exit, Restart, Send, GiveUp, Reset, vars
    <3>3. Phase' = Phase /\ Phase \in Nat
      BY <3>1 DEF Phase
    <3>4. StepsAhead(i)' <= StepsAhead(i)
      BY <2>i, <3>3 DEF StepsAhead
    <3>5. QED
      BY <2>3, <3>2, <3>4
  <2>4. QED
    BY <1>1, <2>1, <2>2, <2>3 DEF Server, ReadFails, OpenStoreFails, ReplyFails, Exit
<1>2. Inv /\ [Next]_vars =>
        [\A c \in Commands, i \in DOMAIN queue : queue[i] = c /\ pc' # "down" => Nearer(c, i)]_vars
  BY <1>1
<1>3. QED
  BY InitInv, NextInv, <1>2, PTL DEF Spec, InTurn

===============================================================================
