----------------------------- MODULE GateWorkProofs -----------------------------
(***************************************************************************)
(* Theorems about GateWork, for any threads, items, commands, registries   *)
(* and binders, and for any bound on the number of binds.                  *)
(***************************************************************************)
EXTENDS GateWork, TLAPS, SequenceTheorems, WellFoundedInduction

Elems(lines) == {lines[n] : n \in DOMAIN lines}
Distinct(lines) == \A m, n \in DOMAIN lines : lines[m] = lines[n] => m = n

\* The list a binder writes back has what it read and the item, each once.
LEMMA WithItemFacts ==
    ASSUME NEW lines \in Seq(Ids), NEW i \in Ids
    PROVE  /\ WithItem(lines, i) \in Seq(Ids)
           /\ Elems(WithItem(lines, i)) = Elems(lines) \cup {i}
           /\ Distinct(lines) => Distinct(WithItem(lines, i))
<1>1. CASE \E n \in DOMAIN lines : lines[n] = i
  BY <1>1 DEF WithItem, Elems
<1>2. CASE ~\E n \in DOMAIN lines : lines[n] = i
  <2> DEFINE new == Append(lines, i)
  <2>1. WithItem(lines, i) = new
    BY <1>2 DEF WithItem
  <2>2. /\ new \in Seq(Ids)
        /\ Len(new) = Len(lines) + 1
        /\ \A n \in 1..Len(lines) : new[n] = lines[n]
        /\ new[Len(lines) + 1] = i
        /\ DOMAIN lines = 1..Len(lines)
        /\ DOMAIN new = 1..(Len(lines) + 1)
        /\ Len(lines) \in Nat
    OBVIOUS
  <2> HIDE DEF new
  <2>3. Elems(new) = Elems(lines) \cup {i}
    BY <2>2 DEF Elems
  <2>4. Distinct(lines) => Distinct(new)
    BY <1>2, <2>2 DEF Distinct
  <2>5. QED
    BY <2>1, <2>2, <2>3, <2>4
<1>3. QED
  BY <1>1, <1>2

\* Part of a list is a list, and so are two lists in a row.
LEMMA PartOfLines ==
    ASSUME NEW s \in Seq(Ids), NEW m \in Nat \ {0}, NEW n \in Nat, n <= Len(s)
    PROVE  SubSeq(s, m, n) \in Seq(Ids)
  OBVIOUS

\* Whatever was in a file before: after a write it has lines again.
LEMMA OverlaysType ==
    ASSUME NEW old \in Seq(Ids), NEW new \in Seq(Ids), NEW lines \in Overlays(old, new)
    PROVE  lines \in Seq(Ids)
<1>1. CASE lines \in Spliced(old, new) /\ new # <<>>
  <2>1. PICK seam \in Ids, tail \in Tails(old) :
            lines = SubSeq(new, 1, Len(new) - 1) \o <<seam>> \o tail
    BY <1>1 DEF Spliced
  <2>2. PICK k \in 2..(Len(old) + 1) : tail = SubSeq(old, k, Len(old))
    BY DEF Tails
  <2>3. tail \in Seq(Ids)
    BY <2>2, PartOfLines
  <2>4. SubSeq(new, 1, Len(new) - 1) \in Seq(Ids)
    <3>1. Len(new) - 1 \in Nat /\ Len(new) - 1 <= Len(new)
      BY <1>1
    <3>2. QED
      BY <3>1, PartOfLines
  <2>5. QED
    BY <2>1, <2>3, <2>4
<1>2. QED
  BY <1>1 DEF Overlays

\* Over nothing, and over the same list, a list is all there is.
LEMMA OverlaysPlain ==
    ASSUME NEW old, NEW new, old \in {<<>>, new}
    PROVE  Overlays(old, new) = {new}
  BY DEF Overlays

\* The line that resolve_thread_binding takes is one of the file.
LEMMA OnlyLine ==
    ASSUME NEW lines \in Seq(Ids), Len(lines) = 1
    PROVE  lines[1] \in Ids /\ Elems(lines) = {lines[1]}
<1>1. DOMAIN lines = 1..1
  OBVIOUS
<1>2. QED
  BY <1>1 DEF Elems

-------------------------------------------------------------------------------
\* Type correctness

\* What a binder writes is a list that has the item and what the binder read.
LEMMA NewFacts ==
    ASSUME TypeOK, NEW b \in Binders, bpc[b] # "idle"
    PROVE  LET t == request[b][1]
               i == request[b][2]
           IN  /\ request[b] = <<t, i>> /\ t \in Threads /\ i \in Items /\ request[b] \in asked
               /\ values[b] \in Seq(Ids) /\ New(b) \in Seq(Ids)
               /\ Elems(New(b)) = Elems(values[b]) \cup {i}
               /\ Distinct(values[b]) => Distinct(New(b))
<1>1. request[b] \in asked /\ asked \subseteq Threads \X Items /\ values[b] \in Seq(Ids)
  BY DEF TypeOK, Bindings
<1>2. /\ request[b] = <<request[b][1], request[b][2]>>
      /\ request[b][1] \in Threads /\ request[b][2] \in Items
  BY <1>1
<1>3. request[b][2] \in Ids
  BY <1>2 DEF Ids
<1>4. QED
  BY <1>1, <1>2, <1>3, WithItemFacts DEF New

\* A write concerns the file of its thread, and no other.
LEMMA WriteFacts ==
    ASSUME TypeOK, NEW b \in Binders, bpc[b] # "idle",
           NEW lines \in Seq(Ids), WriteLines(b, lines)
    PROVE  LET t == request[b][1]
               old == binding[BindingFile[t]]
           IN  /\ binding' \in [Files -> Seq(Ids)]
               /\ old \in Seq(Ids)
               /\ binding'[BindingFile[t]] \in Overlays(old, lines)
               /\ \A u \in Threads \ {t} : binding'[BindingFile[u]] = binding[BindingFile[u]]
<1> DEFINE t == request[b][1]
<1> DEFINE old == binding[BindingFile[t]]
<1>1. t \in Threads
  BY NewFacts
<1>2. File(b) = BindingFile[t] /\ BindingFile[t] \in Files /\ old \in Seq(Ids)
  BY <1>1, WorkAssumption DEF File, Path, TypeOK
<1>3. \A u \in Threads \ {t} : BindingFile[u] \in Files /\ BindingFile[u] # BindingFile[t]
  BY <1>1, WorkAssumption
<1>4. PICK outcome \in Overlays(old, lines) :
          binding' = [binding EXCEPT ![BindingFile[t]] = outcome]
  BY <1>2 DEF WriteLines
<1>5. outcome \in Seq(Ids)
  BY <1>2, <1>4, OverlaysType
<1>6. QED
  BY <1>2, <1>3, <1>4, <1>5 DEF TypeOK

\* However a write ends, it was one of some list.
LEMMA WriteStep ==
    ASSUME TypeOK, NEW b \in Binders, WriteBinding(b) \/ BindBreaksOff(b) \/ BindTears(b)
    PROVE  bpc[b] = "write" /\ EndBind(b) /\ \E lines \in Seq(Ids) : WriteLines(b, lines)
<1>1. bpc[b] = "write" /\ EndBind(b)
  BY DEF WriteBinding, BindBreaksOff, BindTears
<1>2. New(b) \in Seq(Ids)
  BY <1>1, NewFacts
<1>3. CASE WriteBinding(b)
  BY <1>2, <1>3 DEF WriteBinding
<1>4. CASE BindBreaksOff(b)
  <2>1. PICK n \in 0..Len(New(b)) : WriteLines(b, SubSeq(New(b), 1, n))
    BY <1>4 DEF BindBreaksOff
  <2>2. SubSeq(New(b), 1, n) \in Seq(Ids)
    BY <1>2, PartOfLines
  <2>3. QED
    BY <1>1, <2>1, <2>2
<1>5. CASE BindTears(b)
  <2>1. PICK n \in 1..Len(New(b)), rest \in Ids :
            WriteLines(b, Append(SubSeq(New(b), 1, n - 1), rest))
    BY <1>5 DEF BindTears
  <2>2. n - 1 \in Nat /\ n - 1 <= Len(New(b))
    BY <1>2
  <2>3. SubSeq(New(b), 1, n - 1) \in Seq(Ids)
    BY <1>2, <2>2, PartOfLines
  <2>4. Append(SubSeq(New(b), 1, n - 1), rest) \in Seq(Ids)
    BY <2>3
  <2>5. QED
    BY <1>1, <2>1, <2>4
<1>6. QED
  BY <1>3, <1>4, <1>5

LEMMA InitType == Init => TypeOK
  BY WorkAssumption DEF Init, TypeOK, Replies, States, Ids

LEMMA NextType == TypeOK /\ [Next]_vars => TypeOK'
<1> SUFFICES ASSUME TypeOK, [Next]_vars PROVE TypeOK'
  OBVIOUS
<1> USE WorkAssumption DEF TypeOK, binders, commands, Bindings, Replies, States, Work, Ids
<1>1. ASSUME NEW b \in Binders, NEW t \in Threads, NEW i \in Items, ReadBinding(b, t, i)
      PROVE  TypeOK'
  <2>1. None # <<t, i>>
    BY <1>1
  <2>2. QED
    BY <1>1, <2>1 DEF ReadBinding, Lines, Path
<1>2. ASSUME NEW b \in Binders, OpenBinding(b) PROVE TypeOK'
  BY <1>2 DEF OpenBinding, Path
<1>3. ASSUME NEW b \in Binders, WriteBinding(b) \/ BindBreaksOff(b) \/ BindTears(b)
      PROVE  TypeOK'
  <2>1. /\ bpc[b] = "write" /\ EndBind(b) /\ request[b] \in asked /\ request[b][1] \in Threads
        /\ binding' \in [Files -> Seq(Ids)]
    <3>1. bpc[b] = "write" /\ EndBind(b) /\ \E lines \in Seq(Ids) : WriteLines(b, lines)
      BY <1>3, WriteStep
    <3>2. QED
      BY <3>1, WriteFacts, NewFacts
  <2>2. bound' \subseteq asked /\ cut' \subseteq Threads /\ torn' \subseteq Threads
    BY <1>3, <2>1 DEF WriteBinding, BindBreaksOff, BindTears
  <2>3. /\ bpc' = [bpc EXCEPT ![b] = "idle"] /\ request' = [request EXCEPT ![b] = None]
        /\ values' = [values EXCEPT ![b] = <<>>]
        /\ UNCHANGED <<binds, asked, registry, thread, cpc, item, reply, ran, artifacts, view>>
    BY <2>1 DEF EndBind
  <2>4. QED
    BY <2>1, <2>2, <2>3
<1>4. ASSUME NEW b \in Binders, BindFails(b) PROVE TypeOK'
  BY <1>4 DEF BindFails, EndBind
<1>5. ASSUME NEW c \in Commands, Resolve(c) PROVE TypeOK'
  <2>1. view' \in [Commands -> [bound : SUBSET Items, state : States]]
    <3> DEFINE against == [bound |-> {i \in Items : <<thread[c], i>> \in bound},
                           state |-> IF thread[c] \in cut THEN "cut"
                                     ELSE IF Binding(thread[c]) # {} THEN "rewriting"
                                     ELSE "quiet"]
    <3>1. against \in [bound : SUBSET Items, state : States]
      OBVIOUS
    <3>2. view' = [view EXCEPT ![c] = against]
      BY <1>5 DEF Resolve, Look
    <3> HIDE DEF against
    <3>3. QED
      BY <3>1, <3>2
  <2> DEFINE lines == Lines(Path(thread[c]))
  <2>2. lines \in Seq(Ids)
    BY DEF Lines, Path
  <2>3. /\ UNCHANGED <<binding, binders, registry, thread, ran, artifacts>>
        /\ \/ Answer(c, "missing") /\ UNCHANGED item
           \/ Answer(c, "ambiguous") /\ UNCHANGED item
           \/ /\ Len(lines) = 1
              /\ item' = [item EXCEPT ![c] = lines[1]]
              /\ cpc' = [cpc EXCEPT ![c] = "route"]
              /\ UNCHANGED reply
    BY <1>5 DEF Resolve
  <2> HIDE DEF lines
  <2>4. Len(lines) = 1 => lines[1] \in Ids
    BY <2>2, OnlyLine
  <2>5. CASE \E message \in {"missing", "ambiguous"} : Answer(c, message) /\ UNCHANGED item
    <3>1. PICK message \in {"missing", "ambiguous"} : Answer(c, message) /\ UNCHANGED item
      BY <2>5
    <3>2. QED
      BY <2>1, <2>3, <3>1 DEF Answer
  <2>6. CASE Len(lines) = 1 /\ item' = [item EXCEPT ![c] = lines[1]]
               /\ cpc' = [cpc EXCEPT ![c] = "route"] /\ UNCHANGED reply
    <3>1. item' \in [Commands -> Ids \cup {None}]
      BY <2>4, <2>6
    <3>2. \A d \in Commands : cpc'[d] \in {"route", "persist"} => item'[d] # None
      BY <2>4, <2>6
    <3>3. UNCHANGED <<binding, bpc, request, values, binds, asked, bound, cut, torn, registry,
                      thread, reply, ran, artifacts>>
      BY <2>3, <2>6
    <3>4. cpc' \in [Commands -> {"resolve", "route", "persist", "done"}]
      BY <2>6
    <3>5. QED
      BY <2>1, <3>1, <3>2, <3>3, <3>4
  <2>7. QED
    BY <2>3, <2>5, <2>6
<1>6. ASSUME NEW c \in Commands, ResolveFails(c) PROVE TypeOK'
  BY <1>6 DEF ResolveFails, Answer
<1>7. ASSUME NEW c \in Commands, RunGate(c) PROVE TypeOK'
  BY <1>7 DEF RunGate, WorkOf
<1>8. ASSUME NEW c \in Commands, RouteFails(c) PROVE TypeOK'
  BY <1>8 DEF RouteFails, Answer
<1>9. ASSUME NEW c \in Commands, WriteArtifact(c) PROVE TypeOK'
  BY <1>9 DEF WriteArtifact, Answer, WorkOf
<1>10. ASSUME NEW c \in Commands, WriteArtifactFails(c) PROVE TypeOK'
  BY <1>10 DEF WriteArtifactFails, Answer
<1>11. CASE UNCHANGED vars
  BY <1>11 DEF vars
<1>12. QED
  BY <1>1, <1>2, <1>3, <1>4, <1>5, <1>6, <1>7, <1>8, <1>9, <1>10, <1>11
     DEF Next, Binder, Command, Done

\* Every variable keeps its type, whatever the binders and the registry do.
THEOREM TypeCorrect == Spec => []TypeOK
  BY InitType, NextType, PTL DEF Spec

-------------------------------------------------------------------------------
\* Every item that is on its way to a gate has a reason to be

\* What the file of a thread reads as while only one id was ever written to it.
Short(t) == {<<>>} \cup {<<i>> : i \in Asked(t)}

FilesShort ==
    \A t \in Threads : Plain(t) =>
        /\ binding[BindingFile[t]] \in Short(t)
        /\ \A b \in Binding(t) : values[b] \in Short(t)

TornAsked == \A t \in torn : Asked(t) # {}

\* An item that commands of a thread may be resolved to.
Grounded(t, i) == Asked(t) # {} /\ (i \in Asked(t) \/ ~Plain(t))

ItemsGrounded ==
    \A c \in Commands : cpc[c] \in {"route", "persist"} => Grounded(thread[c], item[c])

WorkGrounded == \A w \in ran \cup artifacts : Grounded(w.thread, w.item)

\* What a command was resolved against had been asked for.
ViewsAsked == \A c \in Commands : view[c].bound \subseteq Asked(thread[c])

Origin == FilesShort /\ TornAsked /\ ItemsGrounded /\ WorkGrounded /\ ViewsAsked

LEMMA InitOrigin == Init => Origin
<1> SUFFICES ASSUME Init PROVE Origin
  OBVIOUS
<1>1. \A t \in Threads : binding[BindingFile[t]] = <<>> /\ Binding(t) = {}
  BY WorkAssumption DEF Init, Binding
<1>2. FilesShort
  BY <1>1 DEF FilesShort, Short
<1>3. QED
  BY <1>2 DEF Init, Origin, TornAsked, ItemsGrounded, WorkGrounded, ViewsAsked

\* The file of a thread that is about to be rewritten is empty, and no other is
\* touched.
LEMMA OpenedLines ==
    ASSUME TypeOK, NEW b \in Binders, OpenBinding(b)
    PROVE  LET t == request[b][1]
           IN  /\ t \in Threads
               /\ binding'[BindingFile[t]] = <<>>
               /\ \A u \in Threads \ {t} : binding'[BindingFile[u]] = binding[BindingFile[u]]
<1> DEFINE t == request[b][1]
<1>1. t \in Threads
  BY DEF TypeOK, Bindings, OpenBinding
<1>2. BindingFile[t] \in Files /\ \A u \in Threads \ {t} : BindingFile[u] # BindingFile[t]
  BY <1>1, WorkAssumption
<1>3. QED
  BY <1>1, <1>2 DEF OpenBinding, Path, TypeOK

\* Nothing that was asked for is taken back, and no torn line forgotten.
LEMMA OriginGrows ==
    ASSUME TypeOK, [Next]_vars
    PROVE  asked \subseteq asked' /\ torn \subseteq torn' /\ thread' = thread
  BY DEF Next, Binder, Command, Done, vars, binders, commands, ReadBinding, OpenBinding,
         WriteBinding, BindFails, BindBreaksOff, BindTears, EndBind, Resolve, ResolveFails,
         RunGate, RouteFails, WriteArtifact, WriteArtifactFails

LEMMA GroundedStays ==
    ASSUME asked \subseteq asked', torn \subseteq torn', NEW t, NEW i, Grounded(t, i)
    PROVE  Grounded(t, i)'
  BY DEF Grounded, Asked, Plain

LEMMA AllOrNothing ==
    ASSUME NEW S, NEW s \in Seq(S)
    PROVE  SubSeq(s, 1, 0) = <<>> /\ SubSeq(s, 1, Len(s)) = s
<1>1. SubSeq(s, 1, Len(s)) = s
  BY SubSeqFull
<1>2. 0 \in Int /\ 1 \in Int /\ 0 < 1
  OBVIOUS
<1>3. SubSeq(s, 1, 0) = <<>>
  BY <1>2, SubSeqEmpty, ZenonT(30)
<1>4. QED
  BY <1>1, <1>3

\* A write of a list with nothing but the one id leaves nothing but that id.
LEMMA OneIdWritten ==
    ASSUME NEW i, NEW old \in {<<>>, <<i>>}, NEW new \in {<<>>, <<i>>},
           NEW lines \in Overlays(old, new)
    PROVE  lines \in {<<>>, <<i>>}
<1>1. CASE new = <<>>
  BY <1>1 DEF Overlays
<1>2. CASE new = <<i>>
  BY <1>2, OverlaysPlain
<1>3. QED
  BY <1>1, <1>2

LEMMA NextFilesShort == TypeOK /\ Origin /\ [Next]_vars => FilesShort'
<1> SUFFICES ASSUME TypeOK, Origin, [Next]_vars, NEW u \in Threads, Plain(u)'
             PROVE  /\ binding'[BindingFile[u]] \in Short(u)'
                    /\ \A d \in Binding(u)' : values'[d] \in Short(u)'
  BY DEF FilesShort
<1> DEFINE Goal == /\ binding'[BindingFile[u]] \in Short(u)'
                   /\ \A d \in Binding(u)' : values'[d] \in Short(u)'
<1> USE DEF binders, commands
<1>0. /\ Plain(u)
      /\ binding[BindingFile[u]] \in Short(u) /\ \A d \in Binding(u) : values[d] \in Short(u)
      /\ \A s : s \in Short(u) => s \in Short(u)'
  <2>1. asked \subseteq asked' /\ torn \subseteq torn'
    BY OriginGrows
  <2>2. \A i : i \in Asked(u) => i \in Asked(u)'
    BY <2>1 DEF Asked
  <2>3. Plain(u)
    BY <2>1, <2>2 DEF Plain
  <2>4. \A s : s \in Short(u) => s \in Short(u)'
    BY <2>2 DEF Short
  <2>5. QED
    BY <2>3, <2>4 DEF Origin, FilesShort
<1>1. ASSUME NEW b \in Binders, NEW t \in Threads, NEW i \in Items, ReadBinding(b, t, i)
      PROVE  Goal
  <2>1. /\ bpc[b] = "idle" /\ request'[b] = <<t, i>> /\ request'[b][1] = t
        /\ values'[b] = binding[BindingFile[t]]
        /\ \A d \in Binders \ {b} : UNCHANGED <<bpc[d], request[d], values[d]>>
        /\ binding' = binding
    BY <1>1 DEF ReadBinding, Lines, Path, TypeOK
  <2>2. \A d \in Binding(u)' : d \in Binding(u) \/ (d = b /\ u = t)
    BY <2>1 DEF Binding
  <2>3. \A d \in Binding(u) : values'[d] = values[d]
    BY <2>1 DEF Binding
  <2>4. QED
    BY <1>0, <2>1, <2>2, <2>3
<1>2. ASSUME NEW b \in Binders, OpenBinding(b) PROVE Goal
  <2>1. /\ UNCHANGED <<request, values>>
        /\ \A d \in Binders : bpc'[d] # "idle" => bpc[d] # "idle"
    BY <1>2 DEF OpenBinding, TypeOK
  <2>2. \A d \in Binding(u)' : d \in Binding(u)
    BY <2>1 DEF Binding
  <2>3. binding'[BindingFile[u]] = <<>> \/ binding'[BindingFile[u]] = binding[BindingFile[u]]
    BY <1>2, OpenedLines
  <2>4. <<>> \in Short(u)'
    BY DEF Short
  <2>5. QED
    BY <1>0, <2>1, <2>2, <2>3, <2>4
<1>3. ASSUME NEW b \in Binders, WriteBinding(b) \/ BindBreaksOff(b) \/ BindTears(b)
      PROVE  Goal
  <2> DEFINE t == request[b][1]
  <2> DEFINE i == request[b][2]
  <2>1. bpc[b] = "write" /\ EndBind(b) /\ \E lines \in Seq(Ids) : WriteLines(b, lines)
    BY <1>3, WriteStep
  <2>2. /\ request[b] = <<t, i>> /\ t \in Threads /\ i \in Items /\ request[b] \in asked
        /\ values[b] \in Seq(Ids) /\ New(b) \in Seq(Ids)
    BY <2>1, NewFacts
  <2>3. /\ asked' = asked
        /\ \A d \in Binding(u)' : d \in Binding(u) /\ values'[d] = values[d]
    BY <2>1 DEF EndBind, Binding, TypeOK
  <2>4. CASE u = t
    <3>1. b \in Binding(u) /\ i \in Asked(u)
      BY <2>1, <2>2, <2>4 DEF Binding, Asked
    <3>2. \A j \in Asked(u) : j = i
      BY <1>0, <3>1 DEF Plain
    <3>3. Short(u) = {<<>>, <<i>>}
      BY <3>1, <3>2 DEF Short
    <3>4. values[b] \in {<<>>, <<i>>} /\ binding[BindingFile[u]] \in {<<>>, <<i>>}
      BY <1>0, <3>1, <3>3
    <3>5. New(b) = <<i>>
      <4>1. DOMAIN <<i>> = {1} /\ <<i>>[1] = i /\ DOMAIN <<>> = {} /\ Append(<<>>, i) = <<i>>
        OBVIOUS
      <4>2. WithItem(<<i>>, i) = <<i>> /\ WithItem(<<>>, i) = <<i>>
        BY <4>1 DEF WithItem
      <4>3. QED
        BY <3>4, <4>2 DEF New
    <3>6. ~BindTears(b)
      BY <2>4 DEF BindTears, Plain
    <3>7. PICK lines \in {<<>>, <<i>>} : WriteLines(b, lines)
      <4>1. CASE WriteBinding(b)
        BY <3>5, <4>1 DEF WriteBinding
      <4>2. CASE BindBreaksOff(b)
        <5>1. PICK n \in 0..Len(New(b)) : WriteLines(b, SubSeq(New(b), 1, n))
          BY <4>2 DEF BindBreaksOff
        <5>2. Len(<<i>>) = 1 /\ <<i>> \in Seq({i})
          OBVIOUS
        <5>3. n = 0 \/ n = Len(<<i>>)
          BY <3>5, <5>1, <5>2
        <5>4. SubSeq(<<i>>, 1, 0) = <<>> /\ SubSeq(<<i>>, 1, Len(<<i>>)) = <<i>>
          BY <5>2, AllOrNothing
        <5>5. QED
          BY <3>5, <5>1, <5>3, <5>4
      <4>3. QED
        BY <1>3, <3>6, <4>1, <4>2
    <3>8. lines \in Seq(Ids)
      <4>1. i \in Ids
        BY <2>2 DEF Ids
      <4>2. <<i>> \in Seq(Ids) /\ <<>> \in Seq(Ids)
        BY <4>1
      <4>3. QED
        BY <3>7, <4>2
    <3>9. binding'[BindingFile[u]] \in Overlays(binding[BindingFile[u]], lines)
      BY <2>1, <2>4, <3>7, <3>8, WriteFacts
    <3>10. binding'[BindingFile[u]] \in Short(u)
      BY <3>3, <3>4, <3>7, <3>9, OneIdWritten
    <3>11. QED
      BY <1>0, <2>3, <3>10
  <2>5. CASE u # t
    <3>1. binding'[BindingFile[u]] = binding[BindingFile[u]]
      BY <2>1, <2>5, WriteFacts
    <3>2. QED
      BY <1>0, <2>3, <3>1
  <2>6. QED
    BY <2>4, <2>5
<1>4. ASSUME NEW b \in Binders, BindFails(b) PROVE Goal
  <2>1. /\ binding' = binding
        /\ \A d \in Binding(u)' : d \in Binding(u) /\ values'[d] = values[d]
    BY <1>4 DEF BindFails, EndBind, Binding, TypeOK
  <2>2. QED
    BY <1>0, <2>1
<1>5. CASE UNCHANGED <<binding, binders>>
  BY <1>0, <1>5 DEF Binding
<1>6. ASSUME NEW c \in Commands, Command(c) PROVE UNCHANGED <<binding, binders>>
  BY <1>6 DEF Command, Resolve, ResolveFails, RunGate, RouteFails, WriteArtifact,
              WriteArtifactFails
<1>7. QED
  BY <1>1, <1>2, <1>3, <1>4, <1>5, <1>6 DEF Next, Binder, Done, vars

\* A command is resolved to the line of its file.
LEMMA ResolveGrounded ==
    ASSUME TypeOK, Origin, NEW c \in Commands, Resolve(c), cpc'[c] \in {"route", "persist"}
    PROVE  Grounded(thread[c], item'[c])
<1> DEFINE t == thread[c]
<1> DEFINE lines == binding[BindingFile[t]]
<1>1. t \in Threads /\ lines \in Seq(Ids)
  BY WorkAssumption DEF TypeOK
<1>2. Len(lines) = 1 /\ item'[c] = lines[1]
  BY DEF Resolve, Answer, Lines, Path, TypeOK
<1>3. CASE Plain(t)
  <2>1. lines \in Short(t)
    BY <1>1, <1>3 DEF Origin, FilesShort
  <2>2. lines # <<>>
    BY <1>2
  <2>3. PICK i \in Asked(t) : lines = <<i>>
    BY <2>1, <2>2 DEF Short
  <2>4. QED
    BY <1>2, <2>3 DEF Grounded
<1>4. CASE ~Plain(t)
  <2>1. Asked(t) # {}
    BY <1>4 DEF Plain, Origin, TornAsked
  <2>2. QED
    BY <1>4, <2>1 DEF Grounded
<1>5. QED
  BY <1>3, <1>4

LEMMA NextTornAsked == TypeOK /\ Origin /\ [Next]_vars => TornAsked'
<1> SUFFICES ASSUME TypeOK, Origin, [Next]_vars PROVE TornAsked'
  OBVIOUS
<1>0. \A t : Asked(t) \subseteq Asked(t)'
  BY OriginGrows DEF Asked
<1>1. CASE torn' = torn
  BY <1>0, <1>1 DEF Origin, TornAsked
<1>2. ASSUME NEW b \in Binders, BindTears(b) PROVE TornAsked'
  <2>1. /\ request[b] = <<request[b][1], request[b][2]>> /\ request[b][2] \in Items
        /\ request[b] \in asked
    BY <1>2, NewFacts DEF BindTears
  <2>2. PICK t, j : t = request[b][1] /\ j = request[b][2]
    OBVIOUS
  <2>3. j \in Asked(t)
    BY <2>1, <2>2 DEF Asked
  <2>4. torn' = torn \cup {t}
    BY <1>2, <2>2 DEF BindTears
  <2>5. QED
    BY <1>0, <2>3, <2>4 DEF Origin, TornAsked
<1>3. QED
  BY <1>1, <1>2 DEF Next, Binder, Command, Done, vars, binders, ReadBinding, OpenBinding,
         WriteBinding, BindFails, BindBreaksOff, Resolve, ResolveFails, RunGate, RouteFails,
         WriteArtifact, WriteArtifactFails

LEMMA NextOrigin == TypeOK /\ Origin /\ [Next]_vars => Origin'
<1> SUFFICES ASSUME TypeOK, Origin, [Next]_vars PROVE Origin'
  OBVIOUS
<1> USE DEF binders, commands
<1> DEFINE Rest == ItemsGrounded' /\ WorkGrounded' /\ ViewsAsked'
<1>0. /\ thread' = thread
      /\ \A t, i : Grounded(t, i) => Grounded(t, i)'
      /\ \A t : Asked(t) \subseteq Asked(t)'
      /\ ItemsGrounded /\ WorkGrounded /\ ViewsAsked
  BY OriginGrows, GroundedStays DEF Asked, Origin
<1>1. ASSUME NEW c \in Commands,
             \A d \in Commands \ {c} : UNCHANGED <<cpc[d], item[d], view[d]>>,
             cpc'[c] \in {"route", "persist"} => Grounded(thread[c], item'[c]),
             \A w \in (ran \cup artifacts)' : w \in ran \cup artifacts \/ Grounded(w.thread, w.item),
             view'[c].bound \subseteq Asked(thread[c])
      PROVE  Rest
  <2>1. \A d \in Commands : cpc'[d] \in {"route", "persist"} => Grounded(thread[d], item'[d])
    BY <1>0, <1>1 DEF ItemsGrounded
  <2>2. \A w \in (ran \cup artifacts)' : Grounded(w.thread, w.item)
    BY <1>0, <1>1 DEF WorkGrounded
  <2>3. \A d \in Commands : view'[d].bound \subseteq Asked(thread[d])
    BY <1>0, <1>1 DEF ViewsAsked
  <2>4. ItemsGrounded'
    BY <1>0, <2>1 DEF ItemsGrounded, Grounded, Asked, Plain
  <2>5. WorkGrounded'
    BY <1>0, <2>2 DEF WorkGrounded, Grounded, Asked, Plain
  <2>6. ViewsAsked'
    BY <1>0, <2>3 DEF ViewsAsked, Asked
  <2>7. QED
    BY <2>4, <2>5, <2>6
<1>2. ASSUME NEW c \in Commands, Resolve(c) PROVE Rest
  <2>1. /\ \A d \in Commands \ {c} : UNCHANGED <<cpc[d], item[d], view[d]>>
        /\ UNCHANGED <<ran, artifacts, bound>>
        /\ view'[c].bound = {i \in Items : <<thread[c], i>> \in bound}
    BY <1>2 DEF Resolve, Look, Answer, TypeOK
  <2>2. view'[c].bound \subseteq Asked(thread[c])
    BY <2>1 DEF Asked, TypeOK
  <2>3. QED
    BY <1>1, <1>2, <2>1, <2>2, ResolveGrounded
<1>3. ASSUME NEW c \in Commands,
             ResolveFails(c) \/ RouteFails(c) \/ WriteArtifactFails(c)
      PROVE  Rest
  <2>1. /\ \A d \in Commands \ {c} : UNCHANGED <<cpc[d], item[d], view[d]>>
        /\ UNCHANGED <<ran, artifacts, view>> /\ cpc'[c] = "done"
    BY <1>3 DEF ResolveFails, RouteFails, WriteArtifactFails, Answer, TypeOK
  <2>2. QED
    BY <1>0, <1>1, <2>1 DEF ViewsAsked
<1>4. ASSUME NEW c \in Commands, RunGate(c) \/ WriteArtifact(c) PROVE Rest
  <2>1. Grounded(thread[c], item[c])
    BY <1>0, <1>4 DEF ItemsGrounded, RunGate, WriteArtifact
  <2>2. WorkOf(c).thread = thread[c] /\ WorkOf(c).item = item[c]
    BY DEF WorkOf
  <2>3. /\ \A d \in Commands \ {c} : UNCHANGED <<cpc[d], item[d], view[d]>>
        /\ UNCHANGED <<view, item>>
        /\ (ran \cup artifacts)' = ran \cup artifacts \cup {WorkOf(c)}
    BY <1>4 DEF RunGate, WriteArtifact, Answer, TypeOK
  <2>4. QED
    BY <1>0, <1>1, <2>1, <2>2, <2>3 DEF ViewsAsked
<1>5. ASSUME UNCHANGED commands PROVE Rest
  <2>1. ItemsGrounded'
    BY <1>0, <1>5 DEF ItemsGrounded, Grounded, Asked, Plain
  <2>2. WorkGrounded'
    BY <1>0, <1>5 DEF WorkGrounded
  <2>3. ViewsAsked'
    BY <1>0, <1>5 DEF ViewsAsked, Asked
  <2>4. QED
    BY <2>1, <2>2, <2>3
<1>6. ASSUME NEW b \in Binders, Binder(b) PROVE UNCHANGED commands
  BY <1>6 DEF Binder, ReadBinding, OpenBinding, WriteBinding, BindFails, BindBreaksOff,
              BindTears, EndBind
<1>7. Rest
  <2>1. CASE \E c \in Commands : Command(c)
    BY <1>2, <1>3, <1>4, <2>1 DEF Command
  <2>2. CASE UNCHANGED commands
    BY <1>5, <2>2
  <2>3. QED
    BY <1>6, <2>1, <2>2 DEF Next, Done, vars
<1>8. QED
  BY <1>7, NextFilesShort, NextTornAsked DEF Origin

-------------------------------------------------------------------------------
\* A thread whose binds neither overlapped nor broke off

Bound(t) == {i \in Items : <<t, i>> \in bound}

\* One binder at most is at work on it, and knows what was acknowledged; the file
\* says the same, except while it is rewritten.
Settled(t) ==
    /\ \A b, d \in Binding(t) : b = d
    /\ \A b \in Binding(t) : Elems(values[b]) = Bound(t) /\ Distinct(values[b])
    /\ \A b \in Binding(t) : bpc[b] = "write" => binding[BindingFile[t]] = <<>>
    /\ (\A b \in Binding(t) : bpc[b] = "open") =>
           Elems(binding[BindingFile[t]]) = Bound(t) /\ Distinct(binding[BindingFile[t]])

FilesSettled == \A t \in Threads \ cut : Settled(t)

LEMMA InitSettled == Init => FilesSettled
<1> SUFFICES ASSUME Init, NEW t \in Threads PROVE Settled(t)
  BY DEF FilesSettled
<1>1. binding[BindingFile[t]] = <<>> /\ Binding(t) = {} /\ Bound(t) = {}
  BY WorkAssumption DEF Init, Binding, Bound
<1>2. Elems(<<>>) = {} /\ Distinct(<<>>)
  BY DEF Elems, Distinct
<1>3. QED
  BY <1>1, <1>2 DEF Settled

\* A thread to which nothing happens stays settled.
LEMMA StaysSettled ==
    ASSUME NEW t \in Threads, Settled(t),
           Binding(t)' = Binding(t), Bound(t)' = Bound(t),
           \A b \in Binding(t) : bpc'[b] = bpc[b] /\ values'[b] = values[b],
           binding'[BindingFile[t]] = binding[BindingFile[t]]
    PROVE  Settled(t)'
  BY DEF Settled

LEMMA NextSettled == TypeOK /\ FilesSettled /\ [Next]_vars => FilesSettled'
<1> SUFFICES ASSUME TypeOK, FilesSettled, [Next]_vars, NEW u \in Threads, u \notin cut'
             PROVE  Settled(u)'
  BY DEF FilesSettled
<1> USE DEF binders, commands
<1>0. cut \subseteq cut' => Settled(u)
  BY DEF FilesSettled
<1>1. ASSUME NEW b \in Binders, NEW t \in Threads, NEW i \in Items, ReadBinding(b, t, i)
      PROVE  Settled(u)'
  <2>1. /\ bpc[b] = "idle" /\ bpc'[b] = "open" /\ request'[b] = <<t, i>>
        /\ values'[b] = binding[BindingFile[t]]
        /\ \A d \in Binders \ {b} : /\ values'[d] = values[d]
                                    /\ request'[d] = request[d] /\ bpc'[d] = bpc[d]
        /\ cut \subseteq cut' /\ UNCHANGED <<binding, bound>>
        /\ Binding(t) # {} => t \in cut'
    BY <1>1 DEF ReadBinding, Lines, Path, TypeOK
  <2>2. Bound(u)' = Bound(u)
    BY <2>1 DEF Bound
  <2>3. CASE u = t
    <3>1. Binding(t) = {}
      BY <2>1, <2>3
    <3>2. Binding(t)' = {b}
      BY <2>1, <3>1 DEF Binding
    <3>3. Elems(binding[BindingFile[t]]) = Bound(t) /\ Distinct(binding[BindingFile[t]])
      BY <1>0, <2>1, <2>3, <3>1 DEF Settled
    <3>4. QED
      BY <2>1, <2>2, <2>3, <3>2, <3>3 DEF Settled
  <2>4. CASE u # t
    <3>1. Binding(u)' = Binding(u) /\ b \notin Binding(u)
      BY <2>1, <2>4 DEF Binding
    <3>2. \A d \in Binding(u) : bpc'[d] = bpc[d] /\ values'[d] = values[d]
      BY <2>1, <3>1 DEF Binding
    <3>3. QED
      BY <1>0, <2>1, <2>2, <3>1, <3>2, StaysSettled
  <2>5. QED
    BY <2>3, <2>4
<1>2. ASSUME NEW b \in Binders, OpenBinding(b) PROVE Settled(u)'
  <2> DEFINE t == request[b][1]
  <2>1. /\ t \in Threads /\ binding'[BindingFile[t]] = <<>>
        /\ \A v \in Threads \ {t} : binding'[BindingFile[v]] = binding[BindingFile[v]]
    BY <1>2, OpenedLines
  <2>2. /\ bpc[b] = "open" /\ bpc'[b] = "write"
        /\ \A d \in Binders \ {b} : bpc'[d] = bpc[d]
        /\ UNCHANGED <<values, request, bound, cut>>
    BY <1>2 DEF OpenBinding, TypeOK
  <2>3. Bound(u)' = Bound(u) /\ Binding(u)' = Binding(u)
    BY <2>2 DEF Bound, Binding
  <2>4. CASE u = t
    <3>1. b \in Binding(u)
      BY <2>2, <2>4 DEF Binding
    <3>2. \E d \in Binding(u)' : bpc'[d] # "open"
      BY <2>2, <2>3, <3>1
    <3>3. QED
      BY <1>0, <2>1, <2>2, <2>3, <2>4, <3>2 DEF Settled
  <2>5. CASE u # t
    <3>1. b \notin Binding(u)
      BY <2>5 DEF Binding
    <3>2. \A d \in Binding(u) : bpc'[d] = bpc[d] /\ values'[d] = values[d]
      BY <2>2, <3>1 DEF Binding
    <3>3. QED
      BY <1>0, <2>1, <2>2, <2>3, <2>5, <3>2, StaysSettled
  <2>6. QED
    BY <2>4, <2>5
<1>3. ASSUME NEW b \in Binders, WriteBinding(b) PROVE Settled(u)'
  <2> DEFINE t == request[b][1]
  <2> DEFINE i == request[b][2]
  <2> DEFINE old == binding[BindingFile[t]]
  <2>1. /\ request[b] = <<t, i>> /\ t \in Threads /\ i \in Items
        /\ binding'[BindingFile[t]] \in Overlays(old, New(b))
        /\ \A v \in Threads \ {t} : binding'[BindingFile[v]] = binding[BindingFile[v]]
        /\ Elems(New(b)) = Elems(values[b]) \cup {i}
        /\ Distinct(values[b]) => Distinct(New(b))
    BY <1>3, NewFacts, WriteFacts DEF WriteBinding
  <2>2. /\ bpc[b] = "write" /\ bpc'[b] = "idle"
        /\ \A d \in Binders \ {b} : UNCHANGED <<bpc[d], request[d], values[d]>>
        /\ bound' = bound \cup {<<t, i>>}
        /\ UNCHANGED cut
    BY <1>3, <2>1 DEF WriteBinding, EndBind, TypeOK
  <2>3. CASE u = t
    <3>1. b \in Binding(u)
      BY <2>2, <2>3 DEF Binding
    <3>2. old = <<>> /\ Elems(values[b]) = Bound(u) /\ Distinct(values[b])
      BY <1>0, <2>2, <2>3, <3>1 DEF Settled
    <3>3. binding'[BindingFile[u]] = New(b)
      BY <2>1, <2>3, <3>2, OverlaysPlain
    <3>4. Binding(u)' = {}
      BY <1>0, <2>2, <3>1 DEF Settled, Binding
    <3>5. Bound(u)' = Bound(u) \cup {i}
      BY <2>1, <2>2, <2>3 DEF Bound
    <3>6. QED
      BY <2>1, <3>2, <3>3, <3>4, <3>5 DEF Settled
  <2>4. CASE u # t
    <3>1. b \notin Binding(u) /\ Binding(u)' = Binding(u) /\ Bound(u)' = Bound(u)
      BY <2>2, <2>4 DEF Binding, Bound
    <3>2. \A d \in Binding(u) : bpc'[d] = bpc[d] /\ values'[d] = values[d]
      BY <2>2, <3>1 DEF Binding
    <3>3. QED
      BY <1>0, <2>1, <2>2, <2>4, <3>1, <3>2, StaysSettled
  <2>5. QED
    BY <2>3, <2>4
<1>4. ASSUME NEW b \in Binders, BindFails(b) \/ BindBreaksOff(b) \/ BindTears(b)
      PROVE  Settled(u)'
  <2> DEFINE t == request[b][1]
  <2>1. /\ bpc[b] \in {"open", "write"} /\ bpc'[b] = "idle"
        /\ \A d \in Binders \ {b} : UNCHANGED <<bpc[d], request[d], values[d]>>
        /\ UNCHANGED bound
        /\ cut \subseteq cut'
    BY <1>4 DEF BindFails, BindBreaksOff, BindTears, EndBind, TypeOK
  <2>2. Bound(u)' = Bound(u)
    BY <2>1 DEF Bound
  <2>3. CASE u = t
    <3>1. BindFails(b)
      BY <1>4, <2>3 DEF BindBreaksOff, BindTears
    <3>2. b \in Binding(u) /\ bpc[b] = "open" /\ binding' = binding
      BY <2>1, <2>3, <3>1 DEF Binding, BindFails
    <3>3. Binding(u)' = {} /\ \A d \in Binding(u) : bpc[d] = "open"
      BY <1>0, <2>1, <3>2 DEF Settled, Binding
    <3>4. QED
      BY <1>0, <2>1, <2>2, <3>2, <3>3 DEF Settled
  <2>4. CASE u # t
    <3>1. b \notin Binding(u) /\ Binding(u)' = Binding(u)
      BY <2>1, <2>4 DEF Binding
    <3>2. \A d \in Binding(u) : bpc'[d] = bpc[d] /\ values'[d] = values[d]
      BY <2>1, <3>1 DEF Binding
    <3>3. binding'[BindingFile[u]] = binding[BindingFile[u]]
      <4>1. CASE BindFails(b)
        BY <4>1 DEF BindFails
      <4>2. CASE BindBreaksOff(b) \/ BindTears(b)
        BY <2>1, <2>4, <4>2, WriteStep, WriteFacts
      <4>3. QED
        BY <1>4, <4>1, <4>2
    <3>4. QED
      BY <1>0, <2>1, <2>2, <3>1, <3>2, <3>3, StaysSettled
  <2>5. QED
    BY <2>3, <2>4
<1>5. CASE UNCHANGED <<binding, binders>>
  BY <1>0, <1>5, StaysSettled DEF Binding, Bound
<1>6. ASSUME NEW c \in Commands, Command(c) PROVE UNCHANGED <<binding, binders>>
  BY <1>6 DEF Command, Resolve, ResolveFails, RunGate, RouteFails, WriteArtifact,
              WriteArtifactFails
<1>7. QED
  BY <1>1, <1>2, <1>3, <1>4, <1>5, <1>6 DEF Next, Binder, Done, vars

-------------------------------------------------------------------------------
\* What commands were resolved against

\* A command that is on its way was resolved to the only item of its thread, and
\* one that was refused was refused for a reason.
Judged(c) ==
    view[c].state # "cut" =>
        /\ cpc[c] \in {"route", "persist"} => view[c].bound = {item[c]}
        /\ reply[c] = "ambiguous" => \E i, j \in view[c].bound : i # j
        /\ reply[c] = "missing" /\ view[c].state = "quiet" => view[c].bound = {}

RanAfter == \A w \in ran : cpc[w.command] # "resolve"

Unanswered == \A c \in Commands : cpc[c] # "done" => reply[c] = "none"

Views == (\A c \in Commands : Judged(c)) /\ RanAfter /\ Unanswered /\ AmbiguityIsRefused

Inv == TypeOK /\ FilesSettled /\ Views

LEMMA InitViews == Init => Views
  BY DEF Init, Views, Judged, RanAfter, Unanswered, AmbiguityIsRefused

\* Two lines that are there once each are two items.
LEMMA TwoLines ==
    ASSUME NEW lines \in Seq(Ids), Distinct(lines), Len(lines) > 1
    PROVE  \E i, j \in Elems(lines) : i # j
<1>1. 1 \in DOMAIN lines /\ 2 \in DOMAIN lines
  OBVIOUS
<1>2. lines[1] # lines[2] /\ lines[1] \in Elems(lines) /\ lines[2] \in Elems(lines)
  BY <1>1 DEF Distinct, Elems
<1>3. QED
  BY <1>2

LEMMA ResolveJudged ==
    ASSUME TypeOK, FilesSettled, NEW c \in Commands, Resolve(c), reply[c] = "none"
    PROVE  Judged(c)'
<1> DEFINE t == thread[c]
<1> DEFINE lines == binding[BindingFile[t]]
<1>1. t \in Threads /\ lines \in Seq(Ids)
  BY WorkAssumption DEF TypeOK
<1>2. /\ cpc[c] = "resolve"
      /\ view'[c].bound = Bound(t)
      /\ view'[c].state = IF t \in cut THEN "cut"
                          ELSE IF Binding(t) # {} THEN "rewriting" ELSE "quiet"
  BY DEF Resolve, Look, TypeOK, Bound
<1>3. \/ Len(lines) = 0 /\ cpc'[c] = "done" /\ reply'[c] = "missing"
      \/ Len(lines) > 1 /\ cpc'[c] = "done" /\ reply'[c] = "ambiguous"
      \/ Len(lines) = 1 /\ cpc'[c] = "route" /\ reply'[c] = reply[c] /\ item'[c] = lines[1]
  BY DEF Resolve, Answer, Lines, Path, TypeOK
<1>4. SUFFICES ASSUME view'[c].state # "cut" PROVE Judged(c)'
  BY DEF Judged
<1>5. view'[c].state = "quiet" => Binding(t) = {}
  BY <1>2
<1>6. Settled(t)
  BY <1>1, <1>2, <1>4 DEF FilesSettled
<1>7. Len(lines) # 0 => lines # <<>>
  BY <1>1
<1>8. lines # <<>> \/ Binding(t) = {} => Elems(lines) = Bound(t) /\ Distinct(lines)
  <2>1. \A b \in Binding(t) : bpc[b] \in {"open", "write"}
    BY DEF Binding, TypeOK
  <2>2. QED
    BY <1>6, <2>1 DEF Settled
<1> HIDE DEF t, lines
<1>9. CASE Len(lines) = 0 /\ cpc'[c] = "done" /\ reply'[c] = "missing"
  <2>1. Elems(lines) = {}
    BY <1>1, <1>9 DEF Elems
  <2>2. view'[c].state = "quiet" => view'[c].bound = {}
    BY <1>2, <1>5, <1>8, <2>1
  <2>3. QED
    BY <1>9, <2>2 DEF Judged
<1>10. CASE Len(lines) > 1 /\ cpc'[c] = "done" /\ reply'[c] = "ambiguous"
  <2>1. lines # <<>>
    BY <1>7, <1>10
  <2>2. \E i, j \in view'[c].bound : i # j
    BY <1>1, <1>2, <1>8, <1>10, <2>1, TwoLines
  <2>3. QED
    BY <1>10, <2>2 DEF Judged
<1>11. CASE Len(lines) = 1 /\ cpc'[c] = "route" /\ reply'[c] = reply[c] /\ item'[c] = lines[1]
  <2>1. lines # <<>>
    BY <1>7, <1>11
  <2>2. view'[c].bound = {item'[c]}
    BY <1>1, <1>2, <1>8, <1>11, <2>1, OnlyLine
  <2>3. QED
    BY <1>11, <2>2 DEF Judged
<1>12. QED
  BY <1>3, <1>9, <1>10, <1>11

LEMMA NextViews == Inv /\ [Next]_vars => Views'
<1> SUFFICES ASSUME Inv, [Next]_vars PROVE Views'
  OBVIOUS
<1> USE DEF Inv, Views, binders, commands
<1>1. CASE UNCHANGED commands
  BY <1>1 DEF Judged, RanAfter, Unanswered, AmbiguityIsRefused
<1>2. ASSUME NEW c \in Commands, Resolve(c) PROVE Views'
  <2>1. /\ cpc[c] = "resolve" /\ ran' = ran
        /\ \A d \in Commands \ {c} : UNCHANGED <<cpc[d], item[d], reply[d], view[d]>>
    BY <1>2 DEF Resolve, Look, Answer, TypeOK
  <2>2. \A d \in Commands : Judged(d)'
    BY <1>2, <2>1, ResolveJudged DEF Judged, Unanswered
  <2>3. \A w \in ran : w.command \in Commands \ {c}
    BY <2>1 DEF RanAfter, TypeOK, Work
  <2>4. RanAfter' /\ AmbiguityIsRefused'
    BY <2>1, <2>3 DEF RanAfter, AmbiguityIsRefused
  <2>5. Unanswered'
    BY <1>2, <2>1 DEF Resolve, Answer, Unanswered, TypeOK
  <2>6. QED
    BY <2>2, <2>4, <2>5
<1>3. ASSUME NEW c \in Commands,
             ResolveFails(c) \/ RouteFails(c) \/ WriteArtifact(c) \/ WriteArtifactFails(c)
      PROVE  Views'
  <2>1. /\ cpc'[c] = "done" /\ reply'[c] \in {"lookup_failed", "failed", "completed"}
        /\ \A d \in Commands \ {c} : UNCHANGED <<cpc[d], reply[d]>>
        /\ UNCHANGED <<item, ran, view>>
    BY <1>3 DEF ResolveFails, RouteFails, WriteArtifact, WriteArtifactFails, Answer, TypeOK
  <2>2. \A d \in Commands : Judged(d)'
    BY <2>1 DEF Judged
  <2>3. RanAfter' /\ Unanswered' /\ AmbiguityIsRefused'
    BY <2>1 DEF RanAfter, Unanswered, AmbiguityIsRefused, TypeOK, Work
  <2>4. QED
    BY <2>2, <2>3
<1>4. ASSUME NEW c \in Commands, RunGate(c) PROVE Views'
  <2>1. /\ cpc[c] = "route" /\ cpc'[c] = "persist"
        /\ \A d \in Commands \ {c} : cpc'[d] = cpc[d]
        /\ ran' = ran \cup {WorkOf(c)}
        /\ UNCHANGED <<item, reply, view>>
    BY <1>4 DEF RunGate, TypeOK
  <2>2. \A d \in Commands : Judged(d)'
    BY <2>1 DEF Judged
  <2>3. WorkOf(c).command = c /\ WorkOf(c).item = item[c]
    BY DEF WorkOf
  <2>4. view[c].state # "cut" => view[c].bound = {item[c]}
    BY <2>1 DEF Judged
  <2>5. RanAfter' /\ Unanswered' /\ AmbiguityIsRefused'
    BY <2>1, <2>3, <2>4 DEF RanAfter, Unanswered, AmbiguityIsRefused, TypeOK, Work
  <2>6. QED
    BY <2>2, <2>5
<1>5. ASSUME NEW b \in Binders, Binder(b) PROVE UNCHANGED commands
  BY <1>5 DEF Binder, ReadBinding, OpenBinding, WriteBinding, BindFails, BindBreaksOff,
              BindTears, EndBind
<1>6. QED
  BY <1>1, <1>2, <1>3, <1>4, <1>5 DEF Next, Command, Done, vars

LEMMA InitInv == Init => Inv
  BY InitType, InitSettled, InitViews DEF Inv

LEMMA NextInv == Inv /\ [Next]_vars => Inv'
  BY NextType, NextSettled, NextViews DEF Inv

\* For any number of binders, threads and items: as long as binds of a thread do
\* not overlap and none breaks off in its write, a gate runs only for the one item
\* the thread is bound to.
THEOREM AmbiguityRefused == Spec => []AmbiguityIsRefused
<1>1. Inv => AmbiguityIsRefused
  BY DEF Inv, Views
<1>2. QED
  BY <1>1, InitInv, NextInv, PTL DEF Spec

\* Under the same condition no command is refused without the reason it is given.
THEOREM RefusalDue == Spec => []RefusalIsDue
<1>1. Inv => RefusalIsDue
  BY DEF Inv, Views, Judged, RefusalIsDue
<1>2. QED
  BY <1>1, InitInv, NextInv, PTL DEF Spec

-------------------------------------------------------------------------------
\* Binding again

\* However often, by however many processes at once and with whatever failures a
\* thread is bound to one item, none of them leaving half a line: it is never
\* ambiguous.
THEOREM RetryHarmless == Spec => []RetryIsHarmless
<1>1. Origin => RetryIsHarmless
  <2> SUFFICES ASSUME Origin, NEW t \in Threads, Plain(t) PROVE Len(binding[Path(t)]) <= 1
    BY DEF RetryIsHarmless
  <2>1. binding[Path(t)] \in Short(t)
    BY DEF Origin, FilesShort, Path
  <2>2. \A i : Len(<<i>>) <= 1 /\ Len(<<>>) <= 1
    OBVIOUS
  <2>3. QED
    BY <2>1, <2>2 DEF Short
<1>2. QED
  BY <1>1, InitType, NextType, InitOrigin, NextOrigin, PTL DEF Spec

-------------------------------------------------------------------------------
\* One gate per command

\* A command has at most one gate and one artifact, for the same work, and the
\* operator is told of its completion exactly if there is an artifact.
OneGatePerCommand ==
    /\ artifacts \subseteq ran
    /\ \A v, w \in ran : v.command = w.command => v = w
    /\ \A c \in Commands :
           reply[c] = "completed" <=> \E w \in artifacts : w.command = c

\* Where a command is tells whether its gate has run and its artifact is written.
Progress(c) ==
    /\ \A w \in ran : w.command = c => w = WorkOf(c)
    /\ cpc[c] \in {"resolve", "route"} => \A w \in ran : w.command # c
    /\ cpc[c] = "persist" => WorkOf(c) \in ran
    /\ cpc[c] # "done" => reply[c] # "completed" /\ WorkOf(c) \notin artifacts
    /\ reply[c] = "completed" <=> WorkOf(c) \in artifacts

ProgressInv ==
    /\ artifacts \subseteq ran
    /\ \A c \in Commands : Progress(c)

LEMMA InitProgress == Init => ProgressInv
  BY DEF Init, ProgressInv, Progress

\* A step of one command leaves the others where they are.
LEMMA OtherCommands ==
    ASSUME TypeOK, ProgressInv, NEW c \in Commands, NEW d \in Commands, c # d,
           UNCHANGED <<cpc[d], item[d], reply[d], thread>>,
           ran' \in {ran, ran \cup {WorkOf(c)}},
           artifacts' \in {artifacts, artifacts \cup {WorkOf(c)}}
    PROVE  Progress(d)'
<1>1. WorkOf(d)' = WorkOf(d) /\ WorkOf(c).command = c /\ WorkOf(d).command = d
  BY DEF WorkOf
<1>2. QED
  BY <1>1 DEF ProgressInv, Progress

LEMMA NextProgress == TypeOK /\ ProgressInv /\ [Next]_vars => ProgressInv'
<1> SUFFICES ASSUME TypeOK, ProgressInv, [Next]_vars PROVE ProgressInv'
  OBVIOUS
<1> USE DEF binders, commands
<1>1. ASSUME NEW c \in Commands, Command(c) PROVE ProgressInv'
  <2>1. /\ \A d \in Commands \ {c} : UNCHANGED <<cpc[d], item[d], reply[d]>>
        /\ UNCHANGED thread
        /\ ran' \in {ran, ran \cup {WorkOf(c)}}
        /\ artifacts' \in {artifacts, artifacts \cup {WorkOf(c)}}
    BY <1>1 DEF Command, Resolve, ResolveFails, RunGate, RouteFails, WriteArtifact,
                WriteArtifactFails, Answer, TypeOK
  <2>2. \A d \in Commands \ {c} : Progress(d)'
    BY <2>1, OtherCommands
  <2>3. Progress(c) /\ artifacts \subseteq ran /\ \A w \in ran : w \in Work
    BY DEF ProgressInv, TypeOK
  <2>4. WorkOf(c).command = c
    BY DEF WorkOf
  <2>5. Progress(c)' /\ artifacts' \subseteq ran'
    <3>1. CASE Resolve(c)
      <4>1. /\ UNCHANGED <<ran, artifacts, thread>>
            /\ cpc[c] = "resolve" /\ cpc'[c] \in {"route", "done"}
            /\ reply'[c] # "completed"
        BY <2>3, <3>1 DEF Resolve, Answer, TypeOK, Progress
      <4>2. \A w \in ran : w.command # c
        BY <2>3, <4>1 DEF Progress
      <4>3. WorkOf(c)' \notin artifacts
        BY <2>3, <4>2 DEF WorkOf
      <4>4. QED
        BY <2>3, <4>1, <4>2, <4>3 DEF Progress
    <3>2. CASE ResolveFails(c) \/ RouteFails(c)
      <4>1. /\ UNCHANGED <<ran, artifacts, thread, item>>
            /\ cpc[c] \in {"resolve", "route"} /\ cpc'[c] = "done"
            /\ reply'[c] # "completed"
        BY <3>2 DEF ResolveFails, RouteFails, Answer, TypeOK
      <4>2. QED
        BY <2>3, <4>1 DEF Progress, WorkOf
    <3>3. CASE RunGate(c)
      <4>1. /\ ran' = ran \cup {WorkOf(c)}
            /\ cpc[c] = "route" /\ cpc'[c] = "persist"
            /\ UNCHANGED <<artifacts, thread, item, reply>>
        BY <3>3 DEF RunGate, TypeOK
      <4>2. WorkOf(c)' = WorkOf(c)
        BY <4>1 DEF WorkOf
      <4>3. QED
        BY <2>3, <2>4, <4>1, <4>2 DEF Progress
    <3>4. CASE WriteArtifact(c)
      <4>1. /\ artifacts' = artifacts \cup {WorkOf(c)}
            /\ cpc[c] = "persist" /\ cpc'[c] = "done" /\ reply'[c] = "completed"
            /\ UNCHANGED <<ran, thread, item>>
        BY <3>4 DEF WriteArtifact, Answer, TypeOK
      <4>2. WorkOf(c)' = WorkOf(c)
        BY <4>1 DEF WorkOf
      <4>3. QED
        BY <2>3, <4>1, <4>2 DEF Progress
    <3>5. CASE WriteArtifactFails(c)
      <4>1. /\ cpc[c] = "persist" /\ cpc'[c] = "done" /\ reply'[c] = "failed"
            /\ UNCHANGED <<ran, artifacts, thread, item>>
        BY <3>5 DEF WriteArtifactFails, Answer, TypeOK
      <4>2. QED
        BY <2>3, <4>1 DEF Progress, WorkOf
    <3>6. QED
      BY <1>1, <3>1, <3>2, <3>3, <3>4, <3>5 DEF Command
  <2>6. QED
    BY <2>2, <2>5 DEF ProgressInv
<1>2. CASE UNCHANGED commands
  BY <1>2 DEF ProgressInv, Progress, WorkOf
<1>3. ASSUME NEW b \in Binders, Binder(b) PROVE UNCHANGED commands
  BY <1>3 DEF Binder, ReadBinding, OpenBinding, WriteBinding, BindFails, BindBreaksOff,
              BindTears, EndBind
<1>4. QED
  BY <1>1, <1>2, <1>3 DEF Next, Done, vars

\* With any number of commands in progress, on threads that are bound and bound
\* again, no command runs two gates, and it is called completed exactly if the
\* artifact of its one gate was written.
THEOREM CommandsKeptApart == Spec => []OneGatePerCommand
<1>1. TypeOK /\ ProgressInv => OneGatePerCommand
  <2> SUFFICES ASSUME TypeOK, ProgressInv PROVE OneGatePerCommand
    OBVIOUS
  <2>1. \A w \in ran : w.command \in Commands /\ w = WorkOf(w.command)
    BY DEF ProgressInv, Progress, TypeOK, Work
  <2>2. \A c \in Commands : WorkOf(c).command = c
    BY DEF WorkOf
  <2>3. QED
    BY <2>1, <2>2 DEF OneGatePerCommand, ProgressInv, Progress
<1>2. QED
  BY <1>1, InitType, NextType, InitProgress, NextProgress, PTL DEF Spec

-------------------------------------------------------------------------------
\* What a gate runs for

\* However many binders race and break off: no gate runs for a thread that nobody
\* asked to be bound, and none for an item that was not asked for there, unless a
\* bind left half a line or different items were written over each other, and
\* that before the command was resolved.
THEOREM WorkBound == Spec => []WorkIsBound
<1>1. TypeOK /\ Origin /\ Views /\ ProgressInv => WorkIsBound
  <2> SUFFICES ASSUME TypeOK, Origin, Views, ProgressInv, NEW w \in ran \cup artifacts
               PROVE  /\ Asked(w.thread) # {}
                      /\ \/ w.item \in Asked(w.thread)
                         \/ view[w.command].state = "cut" /\ ~Plain(w.thread)
    BY DEF WorkIsBound
  <2>1. Asked(w.thread) # {} /\ (w.item \in Asked(w.thread) \/ ~Plain(w.thread))
    BY DEF Origin, WorkGrounded, Grounded
  <2>2. w \in ran /\ w.command \in Commands
    BY DEF ProgressInv, TypeOK, Work
  <2>3. w.thread = thread[w.command]
    <3>1. w = WorkOf(w.command)
      BY <2>2 DEF ProgressInv, Progress
    <3>2. QED
      BY <3>1 DEF WorkOf
  <2>4. view[w.command].state # "cut" => w.item \in Asked(w.thread)
    BY <2>2, <2>3 DEF Views, AmbiguityIsRefused, Origin, ViewsAsked
  <2>5. QED
    BY <2>1, <2>4
<1>2. Inv => TypeOK /\ Views
  BY DEF Inv
<1>3. QED
  BY <1>1, <1>2, InitInv, NextInv, InitOrigin, NextOrigin, InitProgress, NextProgress, PTL
     DEF Spec

-------------------------------------------------------------------------------
\* Routing

\* In a set of positions there is a first one.
LEMMA FirstExists ==
    ASSUME NEW n \in Nat, NEW positions \in SUBSET (1..n), positions # {}
    PROVE  First(positions) \in positions /\ \A j \in positions : First(positions) <= j
<1> DEFINE R == {p \in Nat \X Nat : p[1] < p[2]}
<1>1. IsWellFoundedOn(R, Nat)
  BY NatLessThanWellFounded DEF OpToRel
<1>2. positions \subseteq Nat
  OBVIOUS
<1>3. PICK i \in positions : \A j \in positions : <<j, i>> \notin R
  <2> HIDE DEF R
  <2>1. QED
    BY <1>1, <1>2, WFMin
<1>4. ASSUME NEW j \in positions PROVE i <= j
  <2>1. <<j, i>> \in Nat \X Nat /\ ~(<<j, i>>[1] < <<j, i>>[2])
    BY <1>2, <1>3
  <2>2. j \in Nat /\ i \in Nat /\ ~(j < i)
    BY <2>1
  <2>3. QED
    BY <2>2
<1>5. QED
  BY <1>4 DEF First

\* In a graph that validate accepts, next_node finds a node of the graph for every
\* source of a transition, and nothing for any other name.
THEOREM ValidatedRoutes ==
    ASSUME NEW Names, NoNode \notin Names,
           NEW graph \in [nodes : Seq(Names),
                          transitions : Seq([source : Names, target : Names, bounded : BOOLEAN])],
           Validate(graph) = "ok",
           NEW source
    PROVE  IF \E i \in DOMAIN graph.transitions : graph.transitions[i].source = source
           THEN NextNode(graph, source) \in NodeNames(graph)
           ELSE NextNode(graph, source) = NoNode
<1> DEFINE from == {i \in DOMAIN graph.transitions : graph.transitions[i].source = source}
<1> DEFINE wrong == {i \in DOMAIN graph.transitions :
                       TransitionError(graph, graph.transitions[i]) # "none"}
<1>1. DOMAIN graph.transitions = 1..Len(graph.transitions) /\ Len(graph.transitions) \in Nat
  OBVIOUS
<1>2. wrong = {}
  <2>1. SUFFICES ASSUME wrong # {} PROVE FALSE
    OBVIOUS
  <2>2. First(wrong) \in wrong
    BY <1>1, <2>1, FirstExists
  <2>3. Validate(graph) \in {"empty_graph", TransitionError(graph, graph.transitions[First(wrong)])}
    BY <2>1 DEF Validate
  <2>4. TransitionError(graph, graph.transitions[First(wrong)])
          \in {"unknown_node", "unbounded_retry"}
    BY <2>2 DEF TransitionError
  <2>5. QED
    BY <2>3, <2>4
<1>3. \A i \in DOMAIN graph.transitions : graph.transitions[i].target \in NodeNames(graph)
  BY <1>2 DEF TransitionError
<1>4. CASE from = {}
  BY <1>4 DEF NextNode
<1>5. CASE from # {}
  <2>1. First(from) \in from
    BY <1>1, <1>5, FirstExists
  <2>2. NextNode(graph, source) = graph.transitions[First(from)].target
    BY <1>3, <1>5, <2>1 DEF NextNode
  <2>3. QED
    BY <1>3, <1>5, <2>1, <2>2
<1>6. QED
  BY <1>4, <1>5

===============================================================================
