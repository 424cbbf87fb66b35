------------------------- MODULE FilesystemStoreProofs -------------------------
(***************************************************************************)
(* Theorems about FilesystemStore, for every set of processes, artifacts   *)
(* and index files and for every bound.                                    *)
(***************************************************************************)
EXTENDS FilesystemStore, TLAPS

-------------------------------------------------------------------------------
\* What an append writes back

\* The list written back by append_index is a list of lines.
LEMMA WithIdType ==
    ASSUME NEW ids \in Seq(Lines), NEW a \in Artifacts
    PROVE  WithId(ids, a) \in Seq(Lines)
  BY DEF WithId, Lines

\* append_index adds the id it was called with and drops or invents no other.
LEMMA WithIdRange ==
    ASSUME NEW ids \in Seq(Lines), NEW a \in Artifacts
    PROVE  Range(WithId(ids, a)) = Range(ids) \cup {a}
<1>1. CASE a \in Range(ids)
  BY <1>1 DEF WithId
<1>2. CASE a \notin Range(ids)
  <2>1. WithId(ids, a) = Append(ids, a)
    BY <1>2 DEF WithId
  <2>2. /\ DOMAIN Append(ids, a) = 1..(Len(ids) + 1)
        /\ \A i \in 1..Len(ids) : Append(ids, a)[i] = ids[i]
        /\ Append(ids, a)[Len(ids) + 1] = a
        /\ DOMAIN ids = 1..Len(ids)
        /\ Len(ids) \in Nat
    OBVIOUS
  <2>3. 1..(Len(ids) + 1) = (1..Len(ids)) \cup {Len(ids) + 1}
    BY <2>2
  <2>4. QED
    BY <2>1, <2>2, <2>3 DEF Range
<1>3. QED
  BY <1>1, <1>2

\* Two writes that overlap in time leave nothing but lines of the two, even when
\* the shorter one comes last and leaves the longer one's tail.
LEMMA OverlayLines ==
    ASSUME NEW old \in Seq(Lines), NEW new \in Seq(Lines)
    PROVE  /\ Overlay(old, new) \in Seq(Lines)
           /\ Range(Overlay(old, new)) \subseteq Range(old) \cup Range(new)
<1>1. CASE Len(old) <= Len(new)
  BY <1>1 DEF Overlay
<1>2. CASE ~(Len(old) <= Len(new))
  <2>1. \A i \in 1..Len(old) : (IF i <= Len(new) THEN new[i] ELSE old[i]) \in Lines
    OBVIOUS
  <2>2. Overlay(old, new) \in Seq(Lines)
    BY <1>2, <2>1 DEF Overlay
  <2>3. QED
    BY <1>2, <2>2 DEF Overlay, Range
<1>3. QED
  BY <1>1, <1>2

LEMMA PartLines ==
    ASSUME NEW s \in Seq(Lines), NEW m \in Nat \ {0}, NEW n \in Nat, n <= Len(s)
    PROVE  SubSeq(s, m, n) \in Seq(Lines) /\ Range(SubSeq(s, m, n)) \subseteq Range(s)
<1>1. /\ SubSeq(s, m, n) \in Seq(Lines)
      /\ \A i \in 1..Len(SubSeq(s, m, n)) :
             SubSeq(s, m, n)[i] = s[m + i - 1] /\ m + i - 1 \in 1..Len(s)
  OBVIOUS
<1>2. QED
  BY <1>1 DEF Range

LEMMA JoinedLines ==
    ASSUME NEW s \in Seq(Lines), NEW t \in Seq(Lines)
    PROVE  s \o t \in Seq(Lines) /\ Range(s \o t) \subseteq Range(s) \cup Range(t)
<1>1. /\ s \o t \in Seq(Lines)
      /\ Len(s \o t) = Len(s) + Len(t)
      /\ \A i \in 1..Len(s) : (s \o t)[i] = s[i]
      /\ \A i \in (Len(s) + 1)..(Len(s) + Len(t)) :
             (s \o t)[i] = t[i - Len(s)] /\ i - Len(s) \in 1..Len(t)
  OBVIOUS
<1>2. \A i \in 1..(Len(s) + Len(t)) : i \in 1..Len(s) \/ i \in (Len(s) + 1)..(Len(s) + Len(t))
  OBVIOUS
<1>3. QED
  BY <1>1, <1>2 DEF Range

\* A line that runs into an older one is one of those lines, or torn.
LEMMA SplicedLines ==
    ASSUME NEW old \in Seq(Lines), NEW new \in Seq(Lines), new # <<>>,
           Torn \in Range(old) \cup Range(new), NEW lines \in Spliced(old, new)
    PROVE  /\ lines \in Seq(Lines)
           /\ Range(lines) \subseteq Range(old) \cup Range(new)
<1>1. PICK seam \in Seams(old, new), tail \in Tails(old) :
          lines = SubSeq(new, 1, Len(new) - 1) \o <<seam>> \o tail
  BY DEF Spliced
<1>2. PICK k \in 2..(Len(old) + 1) : tail = SubSeq(old, k, Len(old))
  BY DEF Tails
<1>3. Len(new) \in Nat \ {0} /\ Len(old) \in Nat
  OBVIOUS
<1>4. Range(old) \subseteq Lines /\ Range(new) \subseteq Lines
  BY DEF Range
<1>5. seam \in Range(old) \cup Range(new)
  <2>1. new[Len(new)] \in Range(new)
    BY <1>3 DEF Range
  <2>2. QED
    BY <1>1, <2>1 DEF Seams
<1>6. <<seam>> \in Seq(Lines) /\ Range(<<seam>>) = {seam}
  BY <1>4, <1>5 DEF Range
<1>7. tail \in Seq(Lines) /\ Range(tail) \subseteq Range(old)
  BY <1>2, <1>3, PartLines
<1> DEFINE front == SubSeq(new, 1, Len(new) - 1)
<1>8. front \in Seq(Lines) /\ Range(front) \subseteq Range(new)
  <2>1. Len(new) - 1 \in Nat /\ Len(new) - 1 <= Len(new)
    BY <1>3
  <2>2. QED
    BY <2>1, PartLines
<1> HIDE DEF front
<1>9. /\ front \o <<seam>> \in Seq(Lines)
      /\ Range(front \o <<seam>>) \subseteq Range(front) \cup {seam}
  BY <1>6, <1>8, JoinedLines
<1>10. /\ front \o <<seam>> \o tail \in Seq(Lines)
       /\ Range(front \o <<seam>> \o tail) \subseteq Range(front \o <<seam>>) \cup Range(tail)
  BY <1>7, <1>9, JoinedLines
<1>11. QED
  BY <1>1, <1>5, <1>7, <1>8, <1>9, <1>10 DEF front

\* Whatever a write finds in the file, no line appears that was in neither list.
LEMMA OverlaysLines ==
    ASSUME NEW old \in Seq(Lines), NEW new \in Seq(Lines), NEW lines \in Overlays(old, new)
    PROVE  /\ lines \in Seq(Lines)
           /\ Range(lines) \subseteq Range(old) \cup Range(new)
  BY OverlayLines, SplicedLines DEF Overlays

\* On an emptied file the list is written as it is.
LEMMA OverlaysNothing ==
    ASSUME NEW new \in Seq(Lines), NEW lines \in Overlays(<<>>, new)
    PROVE  lines = new
<1>1. Tails(<<>>) = {}
  BY DEF Tails
<1>2. Spliced(<<>>, new) = {}
  BY <1>1 DEF Spliced
<1>3. Overlay(<<>>, new) = new
  BY DEF Overlay
<1>4. QED
  BY <1>2, <1>3 DEF Overlays

\* A write that breaks off has written lines of its list, and at most a torn one.
LEMMA PrefixLines ==
    ASSUME NEW new \in Seq(Lines), NEW part \in Prefixes(new)
    PROVE  /\ part \in Seq(Lines)
           /\ Range(part) \subseteq Range(new) \cup {Torn}
<1>1. PICK n \in 0..Len(new) :
          part = SubSeq(new, 1, n) \/ part = Append(SubSeq(new, 1, n), Torn)
  BY DEF Prefixes
<1> DEFINE front == SubSeq(new, 1, n)
<1>2. front \in Seq(Lines) /\ Range(front) \subseteq Range(new)
  BY <1>1, PartLines
<1> HIDE DEF front
<1>3. /\ Append(front, Torn) \in Seq(Lines)
      /\ Range(Append(front, Torn)) \subseteq Range(front) \cup {Torn}
  <2>1. Append(front, Torn) = front \o <<Torn>>
    BY <1>2
  <2>2. <<Torn>> \in Seq(Lines) /\ Range(<<Torn>>) = {Torn}
    BY DEF Lines, Range
  <2>3. QED
    BY <1>2, <2>1, <2>2, JoinedLines
<1>4. QED
  BY <1>1, <1>2, <1>3 DEF front

-------------------------------------------------------------------------------
\* Type correctness

LEMMA InitType == Init => TypeOK
<1>1. /\ (CHOOSE a \in Artifacts : TRUE) \in Artifacts
      /\ IndexFiles # {}
  BY StoreAssumption
<1>2. (CHOOSE f \in IndexFiles : TRUE) \in IndexFiles
  BY <1>1
<1>3. QED
  BY <1>1, <1>2, StoreAssumption DEF Init, TypeOK, Contents, Descriptors, Labels

LEMMA FlushType ==
    ASSUME TypeOK, NEW p \in Procs, FlushIndex(p)
    PROVE  index' \in [IndexFiles -> Seq(Lines)]
<1>1. path[p] \in IndexFiles /\ index[path[p]] \in Seq(Lines) /\ Written(p) \in Seq(Lines)
  BY WithIdType DEF TypeOK, Written
<1>2. \A lines \in Overlays(index[path[p]], Written(p)) : lines \in Seq(Lines)
  BY <1>1, OverlaysLines
<1>3. QED
  BY <1>1, <1>2 DEF FlushIndex, TypeOK

LEMMA CutType ==
    ASSUME TypeOK, NEW p \in Procs, CutIndex(p)
    PROVE  /\ index' \in [IndexFiles -> Seq(Lines)]
           /\ torn' \in SUBSET IndexFiles
           /\ disturbed' \in SUBSET IndexFiles
<1>1. path[p] \in IndexFiles /\ index[path[p]] \in Seq(Lines) /\ Written(p) \in Seq(Lines)
  BY WithIdType DEF TypeOK, Written
<1>2. \A part \in Prefixes(Written(p)) : \A lines \in Overlays(index[path[p]], part) :
          lines \in Seq(Lines)
  BY <1>1, PrefixLines, OverlaysLines
<1>3. QED
  BY <1>1, <1>2 DEF CutIndex, TypeOK

LEMMA NextType == TypeOK /\ [Next]_vars => TypeOK'
<1> SUFFICES ASSUME TypeOK, [Next]_vars PROVE TypeOK'
  OBVIOUS
<1> USE DEF TypeOK, Goto, files, locals, Contents, Descriptors, Labels
<1>1. ASSUME NEW p \in Procs, NEW a \in Artifacts, OpenTmp(p, a) PROVE TypeOK'
  <2>1. contested' \in SUBSET Artifacts
    BY <1>1 DEF OpenTmp, Contest
  <2>2. pending' \in [Artifacts -> 0..Deliveries]
    BY <1>1, StoreAssumption DEF OpenTmp
  <2>3. QED
    BY <1>1, <2>1, <2>2 DEF OpenTmp
<1>2. ASSUME NEW p \in Procs, WriteTmp(p) PROVE TypeOK'
  BY <1>2 DEF WriteTmp
<1>3. ASSUME NEW p \in Procs, Rename(p) PROVE TypeOK'
  <2>1. fd' \in [Procs -> Descriptors]
    BY <1>3 DEF Rename, Moved
  <2>2. path' \in [Procs -> IndexFiles]
    BY <1>3, StoreAssumption DEF Rename
  <2>3. QED
    BY <1>3, <2>1, <2>2 DEF Rename
<1>4. ASSUME NEW p \in Procs, RenameMissing(p) PROVE TypeOK'
  BY <1>4 DEF RenameMissing
<1>5. ASSUME NEW p \in Procs, ReadIndex(p) PROVE TypeOK'
  BY <1>5 DEF ReadIndex
<1>6. ASSUME NEW p \in Procs, OpenIndex(p) PROVE TypeOK'
  BY <1>6 DEF OpenIndex
<1>7. ASSUME NEW p \in Procs, WriteThreadIndex(p) PROVE TypeOK'
  <2>1. index' \in [IndexFiles -> Seq(Lines)]
    BY <1>7, FlushType DEF WriteThreadIndex
  <2>2. path' \in [Procs -> IndexFiles]
    BY <1>7, StoreAssumption DEF WriteThreadIndex
  <2>3. QED
    BY <1>7, <2>1, <2>2 DEF WriteThreadIndex
<1>8. ASSUME NEW p \in Procs, WriteWorkIndex(p) PROVE TypeOK'
  BY <1>8, FlushType DEF WriteWorkIndex
<1>9. ASSUME NEW p \in Procs, Fail(p) PROVE TypeOK'
  <2>1. /\ index' \in [IndexFiles -> Seq(Lines)]
        /\ torn' \in SUBSET IndexFiles
        /\ disturbed' \in SUBSET IndexFiles
    BY <1>9, CutType DEF Fail
  <2>2. QED
    BY <1>9, <2>1, StoreAssumption DEF Fail
<1>10. CASE UNCHANGED vars
  BY <1>10 DEF vars
<1>11. QED
  BY <1>1, <1>2, <1>3, <1>4, <1>5, <1>6, <1>7, <1>8, <1>9, <1>10
  DEF Next, Step, Done

\* Every variable keeps its type, however the processes interleave and fail.
THEOREM TypeCorrect == Spec => []TypeOK
  BY InitType, NextType, PTL DEF Spec

-------------------------------------------------------------------------------
\* Indexes never dangle

Appending(p) == pc[p] \in {"read_index", "open_index", "write_index"}

\* The invariant has to follow a line through a process: an id from the rename
\* that puts its file in place, any line into the list read from an index, and
\* back to it.
DangleInv ==
    /\ TypeOK
    /\ IndexNeverDangles
    /\ \A p \in Procs : Appending(p) => Filed(job[p], path[p])
    /\ \A p \in Procs : pc[p] \in {"open_index", "write_index"} =>
            \A a \in Range(values[p]) : Filed(a, path[p])

LEMMA RangeType ==
    ASSUME NEW ids \in Seq(Lines)
    PROVE  Range(ids) \subseteq Lines
  BY DEF Range

\* What an append flushes was in the file or in the list the process holds.
LEMMA FlushRange ==
    ASSUME TypeOK, NEW p \in Procs, FlushIndex(p)
    PROVE  /\ \A f \in IndexFiles : f # path[p] => index'[f] = index[f]
           /\ Range(index'[path[p]]) \subseteq
                  Range(index[path[p]]) \cup Range(values[p]) \cup {job[p]}
<1>1. /\ path[p] \in IndexFiles
      /\ index[path[p]] \in Seq(Lines)
      /\ Written(p) \in Seq(Lines)
      /\ Range(Written(p)) = Range(values[p]) \cup {job[p]}
  BY WithIdType, WithIdRange DEF TypeOK, Written
<1>2. index'[path[p]] \in Overlays(index[path[p]], Written(p))
  BY <1>1 DEF FlushIndex, TypeOK
<1>3. Range(index'[path[p]]) \subseteq Range(index[path[p]]) \cup Range(Written(p))
  BY <1>1, <1>2, OverlaysLines
<1>4. \A f \in IndexFiles : f # path[p] => index'[f] = index[f]
  BY DEF FlushIndex, TypeOK
<1>5. QED
  BY <1>1, <1>3, <1>4

\* ... and a write that breaks off adds at most a torn line to those.
LEMMA CutRange ==
    ASSUME TypeOK, NEW p \in Procs, CutIndex(p)
    PROVE  /\ \A f \in IndexFiles : f # path[p] => index'[f] = index[f]
           /\ Range(index'[path[p]]) \subseteq
                  Range(index[path[p]]) \cup Range(values[p]) \cup {job[p], Torn}
<1>1. /\ path[p] \in IndexFiles
      /\ index[path[p]] \in Seq(Lines)
      /\ Written(p) \in Seq(Lines)
      /\ Range(Written(p)) = Range(values[p]) \cup {job[p]}
  BY WithIdType, WithIdRange DEF TypeOK, Written
<1>2. PICK part \in Prefixes(Written(p)) :
          index'[path[p]] \in Overlays(index[path[p]], part)
  BY <1>1 DEF CutIndex, TypeOK
<1>3. part \in Seq(Lines) /\ Range(part) \subseteq Range(Written(p)) \cup {Torn}
  BY <1>1, <1>2, PrefixLines
<1>4. Range(index'[path[p]]) \subseteq Range(index[path[p]]) \cup Range(part)
  BY <1>1, <1>2, <1>3, OverlaysLines
<1>5. \A f \in IndexFiles : f # path[p] => index'[f] = index[f]
  BY DEF CutIndex, TypeOK
<1>6. QED
  BY <1>1, <1>3, <1>4, <1>5

LEMMA InitDangle == Init => DangleInv
<1> SUFFICES ASSUME Init PROVE DangleInv
  OBVIOUS
<1>1. Range(<<>>) = {}
  BY DEF Range
<1>2. IndexNeverDangles
  BY <1>1 DEF Init, IndexNeverDangles
<1>3. QED
  BY <1>2, InitType DEF Init, DangleInv, Appending

\* Once an artifact file is in place it stays, so what is filed stays filed.
LEMMA FiledStays ==
    ASSUME TypeOK, [Next]_vars, NEW a \in Lines, NEW f, Filed(a, f)
    PROVE  Filed(a, f)'
  BY DEF TypeOK, Lines, Filed, CutIndex, Next, Step, Done, vars, files, OpenTmp, WriteTmp, Rename,
         RenameMissing, ReadIndex, OpenIndex, WriteThreadIndex, WriteWorkIndex, Fail

\* An action that moves no process into an append keeps what its processes hold.
LEMMA DangleKept ==
    ASSUME DangleInv, [Next]_vars, TypeOK', IndexNeverDangles',
           \A q \in Procs : Appending(q)' =>
               /\ Appending(q)
               /\ UNCHANGED <<pc[q], job[q], path[q], values[q]>>
    PROVE  DangleInv'
<1>1. ASSUME NEW q \in Procs, Appending(q)' PROVE Filed(job[q], path[q])'
  <2>1. Appending(q) /\ job'[q] = job[q] /\ path'[q] = path[q]
    BY <1>1
  <2>2. PICK a \in Lines, f \in IndexFiles : a = job[q] /\ f = path[q]
    BY DEF DangleInv, TypeOK, Lines
  <2>3. Filed(a, f)'
    BY <2>1, <2>2, FiledStays DEF DangleInv
  <2>4. QED
    BY <2>1, <2>2, <2>3 DEF Filed
<1>2. ASSUME NEW q \in Procs, (pc[q] \in {"open_index", "write_index"})',
             NEW a \in Range(values'[q])
      PROVE  Filed(a, path[q])'
  <2>1. Appending(q)'
    BY <1>2 DEF Appending
  <2>2. pc'[q] = pc[q] /\ path'[q] = path[q] /\ values'[q] = values[q]
    BY <2>1
  <2>3. PICK f \in IndexFiles : f = path[q]
    BY DEF DangleInv, TypeOK
  <2>4. Filed(a, f) /\ a \in Lines
    BY <1>2, <2>2, <2>3, RangeType DEF DangleInv, TypeOK
  <2>5. Filed(a, f)'
    BY <2>4, FiledStays DEF DangleInv
  <2>6. QED
    BY <2>2, <2>3, <2>5 DEF Filed
<1>3. QED
  BY <1>1, <1>2 DEF DangleInv

\* ... and if it leaves the indexes alone, it preserves the invariant.
LEMMA DangleStutter ==
    ASSUME DangleInv, [Next]_vars, TypeOK', UNCHANGED index,
           \A q \in Procs : Appending(q)' =>
               /\ Appending(q)
               /\ UNCHANGED <<pc[q], job[q], path[q], values[q]>>
    PROVE  DangleInv'
<1>1. \A f \in IndexFiles : \A a \in Lines : Filed(a, f) => Filed(a, f)'
  BY FiledStays DEF DangleInv
<1>2. \A f \in IndexFiles : Range(index[f]) \subseteq Lines
  BY RangeType DEF DangleInv, TypeOK
<1>3. IndexNeverDangles'
  BY <1>1, <1>2 DEF DangleInv, IndexNeverDangles, Filed
<1>4. QED
  BY <1>3, DangleKept

LEMMA NextDangle == DangleInv /\ [Next]_vars => DangleInv'
<1> SUFFICES ASSUME DangleInv, [Next]_vars PROVE DangleInv'
  OBVIOUS
<1>t. TypeOK /\ TypeOK'
  BY NextType DEF DangleInv
<1> USE DEF Goto, files, locals
<1>1. ASSUME NEW p \in Procs, NEW a \in Artifacts, OpenTmp(p, a) PROVE DangleInv'
  BY <1>1, <1>t, DangleStutter DEF OpenTmp, Appending, TypeOK
<1>2. ASSUME NEW p \in Procs, WriteTmp(p) PROVE DangleInv'
  BY <1>2, <1>t, DangleStutter DEF WriteTmp, Appending, TypeOK
<1>4. ASSUME NEW p \in Procs, RenameMissing(p) PROVE DangleInv'
  BY <1>4, <1>t, DangleStutter DEF RenameMissing, Appending, TypeOK
<1>9. ASSUME NEW p \in Procs, Fail(p) PROVE DangleInv'
  <2>1. /\ pc' = [pc EXCEPT ![p] = "idle"]
        /\ values' = [values EXCEPT ![p] = <<>>]
        /\ UNCHANGED <<final, job, path>>
    BY <1>9 DEF Fail
  <2>2. CASE pc[p] # "write_index"
    BY <1>9, <1>t, <2>2, DangleStutter DEF Fail, Appending, TypeOK
  <2>3. CASE pc[p] = "write_index"
    <3>1. CutIndex(p) /\ path[p] \in torn' /\ path[p] \in IndexFiles
      BY <1>9, <1>t, <2>3 DEF Fail, CutIndex, TypeOK
    <3>2. Filed(job[p], path[p]) /\ \A a \in Range(values[p]) : Filed(a, path[p])
      BY <2>3 DEF DangleInv, Appending
    <3>3. \A f \in IndexFiles : \A a \in Lines : Filed(a, f) => Filed(a, f)'
      BY <1>t, FiledStays
    <3>4. job[p] \in Lines /\ Range(values[p]) \subseteq Lines
          /\ \A f \in IndexFiles : Range(index[f]) \subseteq Lines
      BY <1>t, RangeType DEF TypeOK, Lines
    <3>5. \A f \in torn' : Filed(Torn, f)'
      BY DEF Filed
    <3>6. \A f \in IndexFiles : \A a \in Range(index'[f]) : Filed(a, f)'
      <4> SUFFICES ASSUME NEW f \in IndexFiles, NEW a \in Range(index'[f])
                   PROVE  Filed(a, f)'
        OBVIOUS
      <4>1. CASE f = path[p]
        <5>1. a = Torn \/ a \in Range(index[f]) \cup Range(values[p]) \cup {job[p]}
          BY <1>t, <3>1, <4>1, CutRange
        <5>2. a = Torn \/ (a \in Lines /\ Filed(a, f))
          BY <3>1, <3>2, <3>4, <4>1, <5>1 DEF DangleInv, IndexNeverDangles
        <5>3. QED
          BY <3>1, <3>3, <3>5, <4>1, <5>2
      <4>2. CASE f # path[p]
        <5>1. index'[f] = index[f]
          BY <1>t, <3>1, <4>2, CutRange
        <5>2. QED
          BY <3>3, <3>4, <5>1 DEF DangleInv, IndexNeverDangles
      <4>3. QED
        BY <4>1, <4>2
    <3>7. IndexNeverDangles'
      BY <3>6 DEF IndexNeverDangles, Filed, Range
    <3>8. \A q \in Procs : Appending(q)' =>
              q # p /\ Appending(q) /\ UNCHANGED <<pc[q], job[q], path[q], values[q]>>
      BY <1>t, <2>1 DEF Appending, TypeOK
    <3>9. QED
      BY <1>t, <3>7, <3>8, DangleKept
  <2>4. QED
    BY <2>2, <2>3
<1>10. CASE UNCHANGED vars
  BY <1>10, <1>t, DangleStutter DEF vars, Appending, TypeOK
<1>3. ASSUME NEW p \in Procs, Rename(p) PROVE DangleInv'
  <2>0. \A f \in IndexFiles : \A a \in Lines : Filed(a, f) => Filed(a, f)'
    BY <1>t, FiledStays
  <2>1. IndexNeverDangles'
    <3>1. \A f \in IndexFiles : Range(index[f]) \subseteq Lines
      BY <1>t, RangeType DEF TypeOK
    <3>2. QED
      BY <1>3, <2>0, <3>1 DEF DangleInv, IndexNeverDangles, Filed, Rename
  <2>2. ASSUME NEW q \in Procs, Appending(q)' PROVE Filed(job[q], path[q])'
    <3>1. CASE q = p
      BY <1>3, <1>t, <3>1, StoreAssumption DEF Rename, Filed, TypeOK
    <3>2. CASE q # p
      <4>1. PICK a \in Lines, f \in IndexFiles : a = job[q] /\ f = path[q]
        BY <1>t DEF TypeOK, Lines
      <4>2. job'[q] = a /\ path'[q] = f /\ Filed(a, f)
        BY <1>3, <1>t, <2>2, <3>2, <4>1 DEF DangleInv, Rename, Appending, TypeOK
      <4>3. QED
        BY <2>0, <4>2 DEF Filed
    <3>3. QED
      BY <3>1, <3>2
  <2>3. ASSUME NEW q \in Procs, (pc[q] \in {"open_index", "write_index"})',
               NEW a \in Range(values'[q])
        PROVE  Filed(a, path[q])'
    <3>1. q # p /\ pc'[q] = pc[q] /\ path'[q] = path[q] /\ values'[q] = values[q]
      BY <1>3, <1>t, <2>3 DEF Rename, TypeOK
    <3>2. PICK f \in IndexFiles : f = path[q]
      BY <1>t DEF TypeOK
    <3>3. Filed(a, f) /\ a \in Lines
      BY <2>3, <3>1, <3>2, <1>t, RangeType DEF DangleInv, TypeOK
    <3>4. QED
      BY <2>0, <3>1, <3>2, <3>3 DEF Filed
  <2>4. QED
    BY <1>t, <2>1, <2>2, <2>3 DEF DangleInv
<1>5. ASSUME NEW p \in Procs, ReadIndex(p) PROVE DangleInv'
  <2>1. Filed(job[p], path[p]) /\ values'[p] = index[path[p]] /\ path[p] \in IndexFiles
    BY <1>5, <1>t DEF DangleInv, ReadIndex, Appending, TypeOK
  <2>2. \A a \in Range(values'[p]) : Filed(a, path[p])
    BY <2>1 DEF DangleInv, IndexNeverDangles, Filed
  <2>3. \A q \in Procs : q # p => values'[q] = values[q] /\ pc'[q] = pc[q]
    BY <1>5, <1>t DEF ReadIndex, TypeOK
  <2>4. QED
    BY <1>5, <1>t, <2>1, <2>2, <2>3
    DEF DangleInv, ReadIndex, IndexNeverDangles, Filed, Appending, TypeOK
<1>6. ASSUME NEW p \in Procs, OpenIndex(p) PROVE DangleInv'
  <2>1. Range(<<>>) = {}
    BY DEF Range
  <2>2. \A f \in IndexFiles : Range(index'[f]) \subseteq Range(index[f])
    BY <1>6, <1>t, <2>1 DEF OpenIndex, TypeOK
  <2>3. IndexNeverDangles'
    BY <1>6, <2>2 DEF DangleInv, OpenIndex, IndexNeverDangles, Filed
  <2>4. \A q \in Procs : q # p => pc'[q] = pc[q]
    BY <1>6, <1>t DEF OpenIndex, TypeOK
  <2>5. QED
    BY <1>6, <1>t, <2>3, <2>4 DEF DangleInv, OpenIndex, Filed, Appending, TypeOK
<1>7. ASSUME NEW p \in Procs, WriteThreadIndex(p) \/ WriteWorkIndex(p) PROVE DangleInv'
  <2>1. FlushIndex(p) /\ Appending(p) /\ pc[p] = "write_index" /\ UNCHANGED <<final, job, torn>>
    BY <1>7 DEF WriteThreadIndex, WriteWorkIndex, Appending
  <2>2. \A a \in Range(values[p]) \cup {job[p]} : Filed(a, path[p])
    BY <2>1 DEF DangleInv
  <2>3. \A f \in IndexFiles : \A a \in Range(index'[f]) : Filed(a, f)
    <3> SUFFICES ASSUME NEW f \in IndexFiles, NEW a \in Range(index'[f])
                 PROVE  Filed(a, f)
      OBVIOUS
    <3>1. CASE f = path[p]
      BY <3>1, <2>1, <2>2, <1>t, FlushRange DEF DangleInv, IndexNeverDangles
    <3>2. CASE f # path[p]
      BY <3>2, <2>1, <1>t, FlushRange DEF DangleInv, IndexNeverDangles
    <3>3. QED
      BY <3>1, <3>2
  <2>4. IndexNeverDangles'
    BY <2>1, <2>3 DEF IndexNeverDangles, Filed
  <2>5. \A q \in Procs : q # p =>
            pc'[q] = pc[q] /\ path'[q] = path[q] /\ values'[q] = values[q]
    BY <1>7, <1>t DEF WriteThreadIndex, WriteWorkIndex, TypeOK
  <2>6. pc'[p] \notin {"open_index", "write_index"}
    BY <1>7, <1>t DEF WriteThreadIndex, WriteWorkIndex, TypeOK
  <2>7. pc'[p] = "read_index" => Filed(job[p], path'[p])
    BY <1>7, <1>t, <2>2, StoreAssumption DEF WriteThreadIndex, WriteWorkIndex, TypeOK, Filed
  <2>8. QED
    BY <1>t, <2>1, <2>4, <2>5, <2>6, <2>7 DEF DangleInv, Filed, Appending
<1>11. QED
  BY <1>1, <1>2, <1>3, <1>4, <1>5, <1>6, <1>7, <1>9, <1>10 DEF Next, Step, Done

\* Whatever the processes do and wherever they crash, an id in an index names
\* an artifact file that exists and belongs there; any other line was left by a
\* write of that index that broke off.
THEOREM IndexSoundness == Spec => []IndexNeverDangles
<1>1. DangleInv => IndexNeverDangles
  BY DEF DangleInv
<1>2. QED
  BY InitDangle, NextDangle, <1>1, PTL DEF Spec

-------------------------------------------------------------------------------
\* Truncated artifact files are being completed

WritingTo(p, a, name) == pc[p] = "write_tmp" /\ job[p] = a /\ fd[p] = name

\* A rename can publish a truncated file, so the claim about final names needs
\* the same claim about temporary names.
PartialInv ==
    /\ TypeOK
    /\ failures = 0 => \A a \in Artifacts :
          /\ tmp[a] = "partial" => \E p \in Procs : WritingTo(p, a, "tmp")
          /\ final[a] = "partial" => \E p \in Procs : WritingTo(p, a, "final")

LEMMA NextPartial == PartialInv /\ [Next]_vars => PartialInv'
<1> SUFFICES ASSUME PartialInv, [Next]_vars PROVE PartialInv'
  OBVIOUS
<1>t. TypeOK /\ TypeOK'
  BY NextType DEF PartialInv
<1> SUFFICES ASSUME failures' = 0, NEW a \in Artifacts
    PROVE  /\ tmp'[a] = "partial" => \E q \in Procs : WritingTo(q, a, "tmp")'
           /\ final'[a] = "partial" => \E q \in Procs : WritingTo(q, a, "final")'
  BY <1>t DEF PartialInv
<1> USE DEF Goto, files, locals, WritingTo
<1>0. failures = 0
  BY <1>t DEF TypeOK, Next, Step, Done, vars, OpenTmp, WriteTmp, Rename, RenameMissing,
              ReadIndex, OpenIndex, WriteThreadIndex, WriteWorkIndex, Fail
<1>i. /\ tmp[a] = "partial" => \E q \in Procs : WritingTo(q, a, "tmp")
      /\ final[a] = "partial" => \E q \in Procs : WritingTo(q, a, "final")
  BY <1>0 DEF PartialInv
<1> DEFINE Goal ==
       /\ tmp'[a] = "partial" => \E q \in Procs : WritingTo(q, a, "tmp")'
       /\ final'[a] = "partial" => \E q \in Procs : WritingTo(q, a, "final")'
<1>1. ASSUME NEW p \in Procs, NEW b \in Artifacts, OpenTmp(p, b) PROVE Goal
  <2>1. \A q \in Procs : \A name \in Descriptors :
            WritingTo(q, a, name) => WritingTo(q, a, name)'
    BY <1>1, <1>t DEF OpenTmp, TypeOK
  <2>2. a = b => WritingTo(p, a, "tmp")'
    BY <1>1, <1>t DEF OpenTmp, TypeOK
  <2>3. a # b => tmp'[a] = tmp[a]
    BY <1>1, <1>t DEF OpenTmp, TypeOK
  <2>4. final' = final
    BY <1>1 DEF OpenTmp
  <2>5. QED
    BY <1>i, <2>1, <2>2, <2>3, <2>4 DEF Descriptors
<1>2. ASSUME NEW p \in Procs, WriteTmp(p) PROVE Goal
  <2>1. \A q \in Procs : q # p => \A name \in Descriptors :
            WritingTo(q, a, name) => WritingTo(q, a, name)'
    BY <1>2, <1>t DEF WriteTmp, TypeOK
  <2>2. \A name \in {"tmp", "final"} : WritingTo(p, a, name) =>
            IF name = "tmp" THEN tmp'[a] = "complete" ELSE final'[a] = "complete"
    BY <1>2, <1>t DEF WriteTmp, TypeOK
  <2>3. /\ tmp'[a] = "partial" => tmp[a] = "partial"
        /\ final'[a] = "partial" => final[a] = "partial"
    BY <1>2, <1>t DEF WriteTmp, TypeOK
  <2>4. QED
    BY <1>i, <2>1, <2>2, <2>3 DEF Descriptors
<1>3. ASSUME NEW p \in Procs, Rename(p) PROVE Goal
  <2>1. CASE a = job[p]
    <3>1. final'[a] = tmp[a] /\ tmp'[a] = "absent"
      BY <1>3, <1>t, <2>1 DEF Rename, TypeOK
    <3>2. \A q \in Procs : WritingTo(q, a, "tmp") => WritingTo(q, a, "final")'
      BY <1>3, <1>t, <2>1 DEF Rename, Moved, TypeOK
    <3>3. QED
      BY <1>i, <3>1, <3>2
  <2>2. CASE a # job[p]
    <3>1. final'[a] = final[a] /\ tmp'[a] = tmp[a]
      BY <1>3, <1>t, <2>2 DEF Rename, TypeOK
    <3>2. \A q \in Procs : \A name \in Descriptors :
              WritingTo(q, a, name) => WritingTo(q, a, name)'
      BY <1>3, <1>t, <2>2 DEF Rename, Moved, TypeOK
    <3>3. QED
      BY <1>i, <3>1, <3>2 DEF Descriptors
  <2>3. QED
    BY <2>1, <2>2
<1>4. ASSUME NEW p \in Procs, \/ RenameMissing(p) \/ ReadIndex(p) \/ OpenIndex(p)
                              \/ WriteThreadIndex(p) \/ WriteWorkIndex(p)
      PROVE Goal
  <2>1. tmp' = tmp /\ final' = final
    BY <1>4 DEF RenameMissing, ReadIndex, OpenIndex, WriteThreadIndex, WriteWorkIndex
  <2>2. \A q \in Procs : \A name \in Descriptors :
            WritingTo(q, a, name) => WritingTo(q, a, name)'
    BY <1>4, <1>t DEF RenameMissing, ReadIndex, OpenIndex, WriteThreadIndex,
                      WriteWorkIndex, TypeOK
  <2>3. QED
    BY <1>i, <2>1, <2>2 DEF Descriptors
<1>5. ASSUME NEW p \in Procs, Fail(p) PROVE Goal
  BY <1>5, <1>t, <1>0 DEF Fail, TypeOK
<1>6. CASE UNCHANGED vars
  BY <1>6, <1>i DEF vars
<1>7. QED
  BY <1>1, <1>2, <1>3, <1>4, <1>5, <1>6 DEF Next, Step, Done

\* However many writers race on one temporary path, a truncated artifact file
\* is held open by the writer about to complete it, until the first failure.
THEOREM PartialIsTransient == Spec => []PartialIsBeingWritten
<1>1. Init => PartialInv
  BY InitType DEF Init, PartialInv
<1>2. PartialInv => PartialIsBeingWritten
  BY DEF PartialInv, PartialIsBeingWritten, WritingTo
<1>3. QED
  BY <1>1, NextPartial, <1>2, PTL DEF Spec

-------------------------------------------------------------------------------
\* Artifacts with one writer at a time

\* The temporary file of an uncontested artifact belongs to the one process that
\* writes it, and is whole when it is renamed.
PublishInv ==
    /\ TypeOK
    /\ PartialIsContested
    /\ \A p, q \in Procs : \A a \in Artifacts \ contested :
            Writing(p, a) /\ Writing(q, a) => p = q
    /\ \A p \in Procs : job[p] \notin contested =>
            /\ pc[p] = "write_tmp" => fd[p] = "tmp"
            /\ pc[p] = "rename" => tmp[job[p]] = "complete"

LEMMA ContestedGrows ==
    ASSUME [Next]_vars
    PROVE  contested \subseteq contested'
  BY DEF Next, Step, Done, vars, OpenTmp, Contest, WriteTmp, Rename, RenameMissing,
         ReadIndex, OpenIndex, WriteThreadIndex, WriteWorkIndex, Fail

\* A step that touches neither an artifact's files nor anyone writing it.
LEMMA PublishStutter ==
    ASSUME PublishInv, TypeOK', UNCHANGED <<tmp, final, contested>>,
           \A q \in Procs : pc'[q] \in {"write_tmp", "rename"} =>
               UNCHANGED <<pc[q], job[q], fd[q]>>
    PROVE  /\ PublishInv'
           /\ \A a \in Artifacts : final[a] = "complete" => final'[a] = "complete"
  BY DEF PublishInv, PartialIsContested, Writing, TypeOK

LEMMA NextPublish ==
    ASSUME PublishInv, [Next]_vars
    PROVE  /\ PublishInv'
           /\ \A a \in Artifacts \ contested' :
                  final[a] = "complete" => final'[a] = "complete"
<1>t. TypeOK /\ TypeOK'
  BY NextType DEF PublishInv
<1> USE DEF Goto, files, locals, PublishInv, PartialIsContested, Writing
<1> DEFINE Goal ==
       /\ PublishInv'
       /\ \A a \in Artifacts \ contested' : final[a] = "complete" => final'[a] = "complete"
<1>1. ASSUME NEW p \in Procs, NEW a \in Artifacts, OpenTmp(p, a) PROVE Goal
  <2>1. /\ pc' = [pc EXCEPT ![p] = "write_tmp"] /\ job' = [job EXCEPT ![p] = a]
        /\ fd' = [fd EXCEPT ![p] = "tmp"] /\ tmp' = [tmp EXCEPT ![a] = "partial"]
        /\ final' = final /\ contested \subseteq contested'
    BY <1>1 DEF OpenTmp, Contest
  <2>2. a \in contested' \/ \A q \in Procs : ~ Writing(q, a)
    BY <1>1, <1>t DEF OpenTmp, Contest, TypeOK
  <2>3. \A q \in Procs : \A b \in Artifacts :
            Writing(q, b)' => Writing(q, b) \/ (q = p /\ b = a)
    BY <1>t, <2>1 DEF TypeOK
  <2>4. \A q, r \in Procs : \A b \in Artifacts \ contested' :
            Writing(q, b)' /\ Writing(r, b)' => q = r
    BY <1>t, <2>1, <2>2, <2>3
  <2>5. ASSUME NEW q \in Procs, job'[q] \notin contested'
        PROVE  /\ pc'[q] = "write_tmp" => fd'[q] = "tmp"
               /\ pc'[q] = "rename" => tmp'[job'[q]] = "complete"
    <3>1. CASE q = p
      BY <1>t, <2>1, <3>1 DEF TypeOK
    <3>2. CASE q # p
      <4>1. UNCHANGED <<pc[q], job[q], fd[q]>> /\ job[q] \notin contested
        BY <1>t, <2>1, <2>5, <3>2 DEF TypeOK
      <4>2. pc[q] = "rename" => job[q] # a
        BY <2>2, <2>5, <4>1
      <4>3. QED
        BY <1>t, <2>1, <4>1, <4>2 DEF TypeOK
    <3>3. QED
      BY <3>1, <3>2
  <2>6. QED
    BY <1>t, <2>1, <2>4, <2>5
<1>2. ASSUME NEW p \in Procs, WriteTmp(p) PROVE Goal
  <2>1. /\ pc' = [pc EXCEPT ![p] = "rename"] /\ job' = job /\ contested' = contested
        /\ fd' = [fd EXCEPT ![p] = "none"] /\ pc[p] = "write_tmp"
    BY <1>2 DEF WriteTmp
  <2>2. /\ \A a \in Artifacts : tmp'[a] = tmp[a] \/ tmp'[a] = "complete"
        /\ \A a \in Artifacts : final'[a] = final[a] \/ final'[a] = "complete"
    BY <1>2, <1>t DEF WriteTmp, TypeOK
  <2>3. job[p] \notin contested => tmp'[job[p]] = "complete"
    BY <1>2, <1>t DEF WriteTmp, TypeOK
  <2>4. ASSUME NEW q \in Procs, job'[q] \notin contested'
        PROVE  /\ pc'[q] = "write_tmp" => fd'[q] = "tmp"
               /\ pc'[q] = "rename" => tmp'[job'[q]] = "complete"
    BY <1>t, <2>1, <2>2, <2>3, <2>4 DEF TypeOK
  <2>5. \A q, r \in Procs : \A b \in Artifacts \ contested' :
            Writing(q, b)' /\ Writing(r, b)' => q = r
    BY <1>t, <2>1 DEF TypeOK
  <2>6. QED
    BY <1>t, <2>1, <2>2, <2>4, <2>5 DEF TypeOK
<1>3. ASSUME NEW p \in Procs, Rename(p) PROVE Goal
  <2>1. PICK a \in Artifacts : a = job[p]
    BY <1>t DEF TypeOK
  <2>2. /\ pc' = [pc EXCEPT ![p] = "read_index"] /\ job' = job /\ contested' = contested
        /\ final' = [final EXCEPT ![a] = tmp[a]] /\ tmp' = [tmp EXCEPT ![a] = "absent"]
        /\ pc[p] = "rename"
    BY <1>3, <2>1 DEF Rename
  <2>3. a \notin contested => tmp[a] = "complete"
    BY <2>1, <2>2
  <2>4. \A q \in Procs \ {p} : pc'[q] = pc[q]
    BY <1>t, <2>2 DEF TypeOK
  <2>5. ASSUME NEW q \in Procs, job'[q] \notin contested', pc'[q] \in {"write_tmp", "rename"}
        PROVE  /\ pc'[q] = "write_tmp" => fd'[q] = "tmp"
               /\ pc'[q] = "rename" => tmp'[job'[q]] = "complete"
    <3>1. q # p /\ pc'[q] = pc[q] /\ job'[q] = job[q]
      BY <1>t, <2>2, <2>4, <2>5 DEF TypeOK
    <3>2. job[q] # a
      BY <2>1, <2>2, <2>5, <3>1
    <3>3. fd'[q] = fd[q]
      BY <1>3, <2>1, <3>2 DEF Rename, Moved
    <3>4. QED
      BY <1>t, <2>2, <2>5, <3>1, <3>2, <3>3 DEF TypeOK
  <2>6. \A q, r \in Procs : \A b \in Artifacts \ contested' :
            Writing(q, b)' /\ Writing(r, b)' => q = r
    BY <1>t, <2>2 DEF TypeOK
  <2>7. QED
    BY <1>t, <2>2, <2>3, <2>5, <2>6 DEF TypeOK
<1>4. ASSUME NEW p \in Procs, \/ RenameMissing(p) \/ ReadIndex(p) \/ OpenIndex(p)
                              \/ WriteThreadIndex(p) \/ WriteWorkIndex(p) \/ Fail(p)
      PROVE Goal
  <2>1. UNCHANGED <<tmp, final, job, contested>>
    BY <1>4 DEF RenameMissing, ReadIndex, OpenIndex, WriteThreadIndex, WriteWorkIndex, Fail
  <2>2. /\ pc'[p] \notin {"write_tmp", "rename"}
        /\ \A q \in Procs \ {p} : UNCHANGED <<pc[q], fd[q]>>
    BY <1>4, <1>t DEF RenameMissing, ReadIndex, OpenIndex, WriteThreadIndex,
                      WriteWorkIndex, Fail, TypeOK
  <2>3. QED
    BY <1>t, <2>1, <2>2, PublishStutter
<1>5. CASE UNCHANGED vars
  BY <1>5, <1>t, PublishStutter DEF vars
<1>6. QED
  BY <1>1, <1>2, <1>3, <1>4, <1>5 DEF Next, Step, Done

LEMMA InitPublish == Init => PublishInv
  BY InitType DEF Init, PublishInv, PartialIsContested, Writing

\* Any number of processes and crashes: the rename publishes whole files only,
\* unless two writers of the same artifact met.
THEOREM AtomicPublish == Spec => []PartialIsContested
<1>1. PublishInv => PartialIsContested
  BY DEF PublishInv
<1>2. QED
  BY InitPublish, NextPublish, <1>1, PTL DEF Spec

\* Any number of processes and crashes: a published artifact is never damaged,
\* unless two writers of it met.
THEOREM Immutability == Spec => UncontestedIsImmutable
<1>1. PublishInv /\ [Next]_vars =>
          [\A a \in Artifacts \ contested' :
               final[a] = "complete" => final'[a] = "complete"]_vars
  BY NextPublish
<1>2. QED
  BY InitPublish, NextPublish, <1>1, PTL DEF Spec, UncontestedIsImmutable

-------------------------------------------------------------------------------
\* What is visible of an undisturbed index

\* An undisturbed index has one process between its read and its write.
Exclusive(f) == \A p, q \in Procs : Within(p, f) /\ Within(q, f) => p = q

\* What that process holds, or has truncated, is the list of the index.
AppendLocal(p) ==
    /\ pc[p] = "open_index" => values[p] = index[path[p]]
    /\ pc[p] = "write_index" => index[path[p]] = <<>>

Visible(a, f) == f \in disturbed \/ a \in Range(VisibleLines(f))

\* By the time an append reaches the work-item index, the thread index shows the
\* id; after the acknowledgement both do.
LogInv ==
    /\ DangleInv
    /\ \A p \in Procs : pc[p] = "write_tmp" /\ fd[p] = "final" => final[job[p]] # "absent"
    /\ \A f \in IndexFiles \ disturbed : Exclusive(f)
    /\ \A p \in Procs : path[p] \notin disturbed => AppendLocal(p)
    /\ \A p \in Procs : Appending(p) /\ path[p] = WorkFile[job[p]] =>
            Visible(job[p], ThreadFile[job[p]])
    /\ \A a \in acked : Visible(a, ThreadFile[a]) /\ Visible(a, WorkFile[a])

Flush(p) == WriteThreadIndex(p) \/ WriteWorkIndex(p)

LEMMA OneFlush ==
    ASSUME TypeOK, NEW p \in Procs, NEW q \in Procs, Flush(p), Flush(q)
    PROVE  p = q
  BY DEF TypeOK, Flush, WriteThreadIndex, WriteWorkIndex, Goto

LEMMA DisturbedGrows ==
    ASSUME [Next]_vars
    PROVE  disturbed \subseteq disturbed'
  BY DEF Next, Step, Done, vars, OpenTmp, WriteTmp, Rename, RenameMissing, ReadIndex,
         OpenIndex, WriteThreadIndex, WriteWorkIndex, Fail, CutIndex

\* An append is entered by reading its index.
LEMMA WithinStep ==
    ASSUME TypeOK, [Next]_vars, NEW p \in Procs, NEW f, Within(p, f)'
    PROVE  Within(p, f) \/ (ReadIndex(p) /\ path[p] = f)
<1> USE DEF Goto, files, locals, Within, TypeOK
<1>1. ASSUME NEW q \in Procs, \/ \E a \in Artifacts : OpenTmp(q, a)
                              \/ WriteTmp(q) \/ Rename(q) \/ RenameMissing(q) \/ Fail(q)
      PROVE  Within(p, f)
  BY <1>1 DEF OpenTmp, WriteTmp, Rename, RenameMissing, Fail
<1>2. ASSUME NEW q \in Procs, OpenIndex(q) \/ WriteThreadIndex(q) \/ WriteWorkIndex(q)
      PROVE  Within(p, f)
  BY <1>2 DEF OpenIndex, WriteThreadIndex, WriteWorkIndex
<1>3. ASSUME NEW q \in Procs, ReadIndex(q)
      PROVE  Within(p, f) \/ (ReadIndex(p) /\ path[p] = f)
  BY <1>3 DEF ReadIndex
<1>4. CASE UNCHANGED vars
  BY <1>4 DEF vars
<1>5. QED
  BY <1>1, <1>2, <1>3, <1>4 DEF Next, Step, Done

\* ... which disturbs it when another append is on its way there.
LEMMA NextExclusive ==
    ASSUME LogInv, [Next]_vars, NEW f \in IndexFiles, f \notin disturbed'
    PROVE  Exclusive(f)'
<1> SUFFICES ASSUME NEW p \in Procs, NEW q \in Procs, Within(p, f)', Within(q, f)', p # q
             PROVE  FALSE
  BY DEF Exclusive, Within
<1>t. TypeOK
  BY DEF LogInv, DangleInv
<1>1. f \notin disturbed /\ Exclusive(f)
  BY DisturbedGrows DEF LogInv
<1>2. ASSUME NEW r \in Procs, NEW s \in Procs, ReadIndex(r), path[r] = f, Within(s, f)
      PROVE  FALSE
  BY <1>2 DEF ReadIndex
<1>3. ASSUME ReadIndex(p), ReadIndex(q)
      PROVE  FALSE
  BY <1>3, <1>t DEF ReadIndex, Goto, TypeOK
<1>4. QED
  BY <1>t, <1>1, <1>2, <1>3, WithinStep DEF Exclusive

\* Whose list is visible.
LEMMA LinesInAppend ==
    ASSUME NEW f, Exclusive(f), NEW p \in Procs, InAppend(p, f)
    PROVE  VisibleLines(f) = values[p]
<1>1. InAppend(CHOOSE q \in Procs : InAppend(q, f), f)
      /\ (CHOOSE q \in Procs : InAppend(q, f)) \in Procs
  OBVIOUS
<1>2. (CHOOSE q \in Procs : InAppend(q, f)) = p
  BY <1>1 DEF Exclusive, Within, InAppend
<1>3. QED
  BY <1>2 DEF VisibleLines

LEMMA LinesAtRest ==
    ASSUME NEW f, \A p \in Procs : ~ InAppend(p, f)
    PROVE  VisibleLines(f) = index[f]
  BY DEF VisibleLines

LEMMA VisibleType ==
    ASSUME TypeOK, NEW f \in IndexFiles
    PROVE  VisibleLines(f) \in Seq(Lines)
<1>1. CASE \E p \in Procs : InAppend(p, f)
  <2>1. (CHOOSE q \in Procs : InAppend(q, f)) \in Procs
    BY <1>1
  <2>2. QED
    BY <1>1, <2>1 DEF VisibleLines, TypeOK
<1>2. CASE ~ \E p \in Procs : InAppend(p, f)
  BY <1>2 DEF VisibleLines, TypeOK
<1>3. QED
  BY <1>1, <1>2

\* A step that leaves the file and its appends alone leaves its lines alone.
LEMMA SameLines ==
    ASSUME NEW f, Exclusive(f), Exclusive(f)', index'[f] = index[f],
           \A q \in Procs : /\ InAppend(q, f)' <=> InAppend(q, f)
                            /\ InAppend(q, f) => values'[q] = values[q]
    PROVE  VisibleLines(f)' = VisibleLines(f)
<1>1. CASE \E q \in Procs : InAppend(q, f)
  <2>1. PICK q \in Procs : InAppend(q, f)
    BY <1>1
  <2>2. VisibleLines(f) = values[q]
    BY <2>1, LinesInAppend
  <2>3. InAppend(q, f)'
    BY <2>1
  <2>4. VisibleLines(f)' = values'[q]
    <3> DEFINE holder == CHOOSE r \in Procs : pc'[r] = "write_index" /\ path'[r] = f
    <3>1. pc'[q] = "write_index" /\ path'[q] = f
      BY <2>3 DEF InAppend
    <3>2. holder \in Procs /\ pc'[holder] = "write_index" /\ path'[holder] = f
      BY <2>1, <3>1
    <3>3. holder = q
      BY <2>1, <3>1, <3>2 DEF Exclusive, Within
    <3>4. VisibleLines(f)' = values'[holder]
      BY <2>1, <3>1 DEF VisibleLines, InAppend
    <3>5. QED
      BY <3>3, <3>4
  <2>5. QED
    BY <2>1, <2>2, <2>4
<1>2. CASE \A q \in Procs : ~ InAppend(q, f)
  <2>1. VisibleLines(f) = index[f] /\ VisibleLines(f)' = index'[f]
    BY <1>2 DEF VisibleLines
  <2>2. QED
    BY <2>1
<1>3. QED
  BY <1>1, <1>2

\* A flush appends its id to the list it finds, ...
LEMMA FlushLines ==
    ASSUME LogInv, [Next]_vars, NEW p \in Procs, Flush(p),
           NEW f \in IndexFiles, f = path[p], f \notin disturbed
    PROVE  VisibleLines(f)' = WithId(VisibleLines(f), job[p])
<1>t. TypeOK
  BY DEF LogInv, DangleInv
<1>2. Exclusive(f) /\ InAppend(p, f) /\ index[f] = <<>>
  BY DEF LogInv, AppendLocal, Flush, WriteThreadIndex, WriteWorkIndex, InAppend
<1>3. VisibleLines(f) = values[p]
  BY <1>2, LinesInAppend
<1>4. Written(p) \in Seq(Lines) /\ Written(p) = WithId(values[p], job[p])
  BY <1>t, WithIdType DEF TypeOK, Written
<1>5. index'[f] = WithId(values[p], job[p])
  <2>1. index'[f] \in Overlays(<<>>, Written(p))
    BY <1>t, <1>2 DEF Flush, WriteThreadIndex, WriteWorkIndex, FlushIndex, TypeOK
  <2>2. QED
    BY <2>1, <1>4, OverlaysNothing
<1>6. ASSUME NEW q \in Procs, pc'[q] = "write_index", path'[q] = f
      PROVE  FALSE
  <2>1. CASE q = p
    BY <1>t, <1>6, <2>1 DEF Flush, WriteThreadIndex, WriteWorkIndex, Goto, TypeOK
  <2>2. CASE q # p
    <3>1. pc[q] = "write_index" /\ path[q] = f
      BY <1>t, <1>6, <2>2 DEF Flush, WriteThreadIndex, WriteWorkIndex, Goto, TypeOK
    <3>2. QED
      BY <1>2, <2>2, <3>1 DEF Exclusive, Within, InAppend
  <2>3. QED
    BY <2>1, <2>2
<1>7. VisibleLines(f)' = index'[f]
  BY <1>6 DEF VisibleLines, InAppend
<1>8. QED
  BY <1>3, <1>5, <1>7

\* ... and nothing else changes a list that stays undisturbed.
LEMMA OtherLines ==
    ASSUME LogInv, [Next]_vars, NEW f \in IndexFiles, f \notin disturbed',
           \A p \in Procs : Flush(p) => path[p] # f
    PROVE  VisibleLines(f)' = VisibleLines(f)
<1>t. TypeOK /\ Exclusive(f) /\ Exclusive(f)'
  BY NextExclusive, DisturbedGrows DEF LogInv, DangleInv
<1> DEFINE Same == /\ index'[f] = index[f]
                   /\ \A q \in Procs : /\ InAppend(q, f)' <=> InAppend(q, f)
                                       /\ InAppend(q, f) => values'[q] = values[q]
<1>s. Same => VisibleLines(f)' = VisibleLines(f)
  BY <1>t, SameLines
<1> USE DEF Goto, files, locals, InAppend, TypeOK
<1>1. ASSUME NEW p \in Procs, \/ \E a \in Artifacts : OpenTmp(p, a)
                              \/ WriteTmp(p) \/ Rename(p) \/ RenameMissing(p)
                              \/ ReadIndex(p)
      PROVE  Same
  BY <1>1, <1>t DEF OpenTmp, WriteTmp, Rename, RenameMissing, ReadIndex
<1>2. ASSUME NEW p \in Procs, Flush(p) PROVE Same
  <2>1. path[p] # f
    BY <1>2
  <2>2. QED
    BY <1>2, <2>1, <1>t DEF Flush, WriteThreadIndex, WriteWorkIndex, FlushIndex
<1>3. ASSUME NEW p \in Procs, Fail(p) PROVE Same
  <2>1. InAppend(p, f) => f \in disturbed'
    BY <1>3, <1>t DEF Fail, CutIndex
  <2>2. QED
    BY <1>3, <2>1, <1>t DEF Fail, CutIndex
<1>4. ASSUME NEW p \in Procs, OpenIndex(p), path[p] # f PROVE Same
  BY <1>4, <1>t DEF OpenIndex
<1>5. ASSUME NEW p \in Procs, OpenIndex(p), path[p] = f
      PROVE  VisibleLines(f)' = VisibleLines(f)
  <2>1. \A q \in Procs : ~ InAppend(q, f)
    BY <1>5, <1>t DEF OpenIndex, Exclusive, Within
  <2>2. VisibleLines(f) = index[f] /\ index[f] = values[p]
    BY <1>5, <2>1, LinesAtRest, DisturbedGrows DEF LogInv, AppendLocal, OpenIndex
  <2>3. \A q \in Procs : (pc'[q] = "write_index" /\ path'[q] = f) <=> q = p
    BY <1>5, <2>1, <1>t DEF OpenIndex
  <2>4. VisibleLines(f)' = values'[CHOOSE q \in Procs : pc'[q] = "write_index" /\ path'[q] = f]
    BY <2>3 DEF VisibleLines
  <2>5. (CHOOSE q \in Procs : pc'[q] = "write_index" /\ path'[q] = f) = p
    BY <2>3
  <2>6. values' = values
    BY <1>5 DEF OpenIndex
  <2>7. QED
    BY <2>2, <2>4, <2>5, <2>6
<1>6. CASE UNCHANGED vars
  BY <1>6, <1>s DEF vars
<1>7. QED
  BY <1>s, <1>1, <1>2, <1>3, <1>4, <1>5, <1>6 DEF Flush, Next, Step, Done

LEMMA VisibleGrows ==
    ASSUME LogInv, [Next]_vars, NEW f \in IndexFiles, f \notin disturbed'
    PROVE  /\ Range(VisibleLines(f)) \subseteq Range(VisibleLines(f)')
           /\ \A p \in Procs : Flush(p) /\ path[p] = f => job[p] \in Range(VisibleLines(f)')
<1>t. TypeOK /\ f \notin disturbed
  BY DisturbedGrows DEF LogInv, DangleInv
<1>1. ASSUME NEW p \in Procs, Flush(p), path[p] = f
      PROVE  /\ Range(VisibleLines(f)) \subseteq Range(VisibleLines(f)')
             /\ job[p] \in Range(VisibleLines(f)')
  <2>1. VisibleLines(f)' = WithId(VisibleLines(f), job[p])
    BY <1>1, <1>t, FlushLines
  <2>2. VisibleLines(f) \in Seq(Lines) /\ job[p] \in Artifacts
    BY <1>t, VisibleType DEF TypeOK
  <2>3. QED
    BY <2>1, <2>2, WithIdRange
<1>2. CASE \A p \in Procs : Flush(p) => path[p] # f
  BY <1>2, OtherLines
<1>3. QED
  BY <1>1, <1>2

LEMMA VisibleStays ==
    ASSUME LogInv, [Next]_vars, NEW a, NEW f \in IndexFiles, Visible(a, f)
    PROVE  Visible(a, f)'
<1>1. CASE f \in disturbed'
  BY <1>1 DEF Visible
<1>2. CASE f \notin disturbed'
  <2>1. a \in Range(VisibleLines(f))
    BY <1>2, DisturbedGrows DEF Visible
  <2>2. a \in Range(VisibleLines(f)')
    BY <1>2, <2>1, VisibleGrows
  <2>3. Range(VisibleLines(f))' = Range(VisibleLines(f)')
    BY DEF Range
  <2>4. QED
    BY <2>2, <2>3 DEF Visible
<1>3. QED
  BY <1>1, <1>2

\* The process inside an append is the only one to touch the file.
LEMMA NextAppendLocal ==
    ASSUME LogInv, [Next]_vars, NEW q \in Procs, path'[q] \notin disturbed'
    PROVE  AppendLocal(q)'
<1>t. TypeOK /\ TypeOK'
  BY NextType DEF LogInv, DangleInv
<1> SUFFICES ASSUME pc'[q] \in {"open_index", "write_index"},
                    NEW f \in IndexFiles, f = path'[q]
             PROVE  /\ pc'[q] = "open_index" => values'[q] = index'[f]
                    /\ pc'[q] = "write_index" => index'[f] = <<>>
  BY <1>t DEF AppendLocal, TypeOK
<1>1. f \notin disturbed
  BY DisturbedGrows
<1>2. Within(q, f)'
  BY DEF Within
<1>3. CASE ReadIndex(q) /\ path[q] = f
  BY <1>3, <1>t, <1>1 DEF ReadIndex, Goto, files, TypeOK
<1>4. CASE Within(q, f)
  <2>1. path[q] = f /\ AppendLocal(q) /\ \A p \in Procs : Within(p, f) => p = q
    BY <1>1, <1>4 DEF LogInv, Within, Exclusive
  <2> USE DEF Goto, files, locals, Within, TypeOK, AppendLocal
  <2>2. ASSUME NEW p \in Procs, \/ \E a \in Artifacts : OpenTmp(p, a)
                                \/ WriteTmp(p) \/ Rename(p) \/ RenameMissing(p)
                                \/ ReadIndex(p)
        PROVE  /\ pc'[q] = "open_index" => values'[q] = index'[f]
               /\ pc'[q] = "write_index" => index'[f] = <<>>
    BY <1>t, <1>4, <2>1, <2>2
    DEF OpenTmp, WriteTmp, Rename, RenameMissing, ReadIndex
  <2>6. ASSUME NEW p \in Procs, Fail(p)
        PROVE  /\ pc'[q] = "open_index" => values'[q] = index'[f]
               /\ pc'[q] = "write_index" => index'[f] = <<>>
    <3>1. p # q
      BY <1>t, <2>6 DEF Fail
    <3>2. UNCHANGED <<pc[q], values[q], path[q]>>
      BY <1>t, <2>6, <3>1 DEF Fail
    <3>3. index'[f] = index[f]
      BY <1>t, <2>6 DEF Fail, CutIndex
    <3>4. QED
      BY <1>4, <2>1, <3>2, <3>3
  <2>3. ASSUME NEW p \in Procs, OpenIndex(p)
        PROVE  /\ pc'[q] = "open_index" => values'[q] = index'[f]
               /\ pc'[q] = "write_index" => index'[f] = <<>>
    BY <1>t, <1>1, <1>4, <2>1, <2>3 DEF OpenIndex
  <2>4. ASSUME NEW p \in Procs, Flush(p)
        PROVE  /\ pc'[q] = "open_index" => values'[q] = index'[f]
               /\ pc'[q] = "write_index" => index'[f] = <<>>
    <3>1. pc[p] = "write_index" /\ pc'[p] \notin {"open_index", "write_index"}
      BY <1>t, <2>4 DEF Flush, WriteThreadIndex, WriteWorkIndex
    <3>2. p # q /\ path[p] # f
      BY <2>1, <3>1
    <3>3. UNCHANGED <<pc[q], values[q], index[f]>>
      BY <1>t, <2>1, <2>4, <3>2
      DEF Flush, WriteThreadIndex, WriteWorkIndex, FlushIndex
    <3>4. QED
      BY <2>1, <3>3
  <2>5. CASE UNCHANGED vars
    BY <2>1, <2>5 DEF vars
  <2>7. QED
    BY <2>2, <2>6, <2>3, <2>4, <2>5 DEF Flush, Next, Step, Done
<1>5. QED
  BY <1>t, <1>2, <1>3, <1>4, WithinStep

\* An append to a work-item index follows the append to the thread index.
LEMMA EnterWorkAppend ==
    ASSUME LogInv, [Next]_vars, NEW q \in Procs, Appending(q)',
           path'[q] = WorkFile[job'[q]]
    PROVE  Visible(job[q], ThreadFile[job[q]])' /\ job'[q] = job[q]
<1>t. TypeOK /\ job[q] \in Artifacts /\ ThreadFile[job[q]] \in IndexFiles
  BY StoreAssumption DEF LogInv, DangleInv, TypeOK
<1>1. \/ Appending(q) /\ job'[q] = job[q] /\ path'[q] = path[q]
      \/ WriteThreadIndex(q) /\ job'[q] = job[q]
  <2> USE DEF Goto, files, locals, Appending, TypeOK
  <2>1. CASE UNCHANGED vars
    BY <2>1 DEF vars
  <2>2. ASSUME NEW p \in Procs, WriteThreadIndex(p)
        PROVE  \/ Appending(q) /\ job'[q] = job[q] /\ path'[q] = path[q]
               \/ WriteThreadIndex(q) /\ job'[q] = job[q]
    <3>1. CASE p = q
      BY <2>2, <3>1 DEF WriteThreadIndex
    <3>2. CASE p # q
      BY <1>t, <2>2, <3>2 DEF WriteThreadIndex
    <3>3. QED
      BY <3>1, <3>2
  <2>3. ASSUME NEW p \in Procs,
               \/ \E a \in Artifacts : OpenTmp(p, a)
               \/ WriteTmp(p) \/ Rename(p) \/ RenameMissing(p) \/ Fail(p)
               \/ ReadIndex(p) \/ OpenIndex(p) \/ WriteWorkIndex(p)
        PROVE  Appending(q) /\ job'[q] = job[q] /\ path'[q] = path[q]
    <3>1. CASE Rename(p)
      BY <1>t, <3>1, StoreAssumption DEF Rename
    <3>2. CASE (\E a \in Artifacts : OpenTmp(p, a)) \/ WriteTmp(p) \/ RenameMissing(p) \/ Fail(p)
      BY <1>t, <3>2 DEF OpenTmp, WriteTmp, RenameMissing, Fail
    <3>3. CASE ReadIndex(p) \/ OpenIndex(p) \/ WriteWorkIndex(p)
      BY <1>t, <3>3 DEF ReadIndex, OpenIndex, WriteWorkIndex
    <3>4. QED
      BY <2>3, <3>1, <3>2, <3>3
  <2>4. QED
    BY <2>1, <2>2, <2>3 DEF Next, Step, Done
<1>2. CASE Appending(q) /\ job'[q] = job[q] /\ path'[q] = path[q]
  <2>1. Visible(job[q], ThreadFile[job[q]])
    BY <1>2 DEF LogInv
  <2>2. PICK a : a = job[q]
    OBVIOUS
  <2>3. PICK f \in IndexFiles : f = ThreadFile[job[q]]
    BY <1>t
  <2>4. Visible(a, f)'
    BY <2>1, <2>2, <2>3, VisibleStays
  <2>5. QED
    BY <1>2, <2>2, <2>3, <2>4 DEF Visible
<1>3. CASE WriteThreadIndex(q) /\ job'[q] = job[q]
  <2>1. PICK f \in IndexFiles : f = ThreadFile[job[q]]
    BY <1>t
  <2>2. Flush(q) /\ path[q] = f
    BY <1>3, <2>1 DEF Flush, WriteThreadIndex
  <2>3. f \notin disturbed' => job[q] \in Range(VisibleLines(f)')
    BY <2>2, VisibleGrows
  <2>4. QED
    BY <1>3, <2>1, <2>3 DEF Visible, Range
<1>4. QED
  BY <1>1, <1>2, <1>3

\* A descriptor that followed its file to the final name is on a published file.
LEMMA NextFd ==
    ASSUME LogInv, [Next]_vars, NEW q \in Procs, pc'[q] = "write_tmp", fd'[q] = "final"
    PROVE  final'[job'[q]] # "absent"
<1>t. TypeOK
  BY DEF LogInv, DangleInv
<1>i. pc[q] = "write_tmp" /\ fd[q] = "final" => final[job[q]] # "absent"
  BY DEF LogInv
<1> USE DEF Goto, files, locals, TypeOK
<1>1. ASSUME NEW p \in Procs, \/ \E a \in Artifacts : OpenTmp(p, a)
                              \/ WriteTmp(p) \/ RenameMissing(p)
                              \/ ReadIndex(p) \/ OpenIndex(p) \/ Fail(p)
      PROVE  final'[job'[q]] # "absent"
  BY <1>t, <1>i, <1>1 DEF OpenTmp, WriteTmp, RenameMissing, ReadIndex, OpenIndex, Fail
<1>2. ASSUME NEW p \in Procs, Rename(p)
      PROVE  final'[job'[q]] # "absent"
  <2>1. job' = job /\ pc[q] = "write_tmp"
    BY <1>t, <1>2 DEF Rename
  <2>2. CASE job[q] = job[p]
    BY <1>t, <1>2, <2>1, <2>2 DEF Rename
  <2>3. CASE job[q] # job[p]
    BY <1>t, <1>i, <1>2, <2>1, <2>3 DEF Rename, Moved
  <2>4. QED
    BY <2>2, <2>3
<1>3. ASSUME NEW p \in Procs, Flush(p)
      PROVE  final'[job'[q]] # "absent"
  BY <1>t, <1>i, <1>3 DEF Flush, WriteThreadIndex, WriteWorkIndex
<1>4. CASE UNCHANGED vars
  BY <1>i, <1>4 DEF vars
<1>5. QED
  BY <1>1, <1>2, <1>3, <1>4 DEF Flush, Next, Step, Done

\* Whose writes are acknowledged.
LEMMA NextAcked ==
    ASSUME TypeOK, [Next]_vars, NEW a \in acked', a \notin acked
    PROVE  \E p \in Procs : WriteWorkIndex(p) /\ a = job[p]
  BY DEF Next, Step, Done, vars, OpenTmp, WriteTmp, Rename, RenameMissing, ReadIndex,
         OpenIndex, WriteThreadIndex, WriteWorkIndex, Fail

LEMMA AckedVisible ==
    ASSUME LogInv, [Next]_vars, NEW a \in acked', NEW f \in {ThreadFile[a], WorkFile[a]}
    PROVE  Visible(a, f)'
<1>t. TypeOK /\ TypeOK'
  BY NextType DEF LogInv, DangleInv
<1>f. a \in Artifacts /\ f \in IndexFiles
  BY <1>t, StoreAssumption DEF TypeOK
<1>1. CASE a \in acked
  <2>1. Visible(a, f)
    BY <1>1 DEF LogInv
  <2>2. QED
    BY <1>f, <2>1, VisibleStays
<1>2. CASE a \notin acked
  <2>1. PICK p \in Procs : WriteWorkIndex(p) /\ a = job[p]
    BY <1>t, <1>2, NextAcked
  <2>2. Flush(p) /\ Appending(p) /\ path[p] = WorkFile[a]
    BY <2>1 DEF Flush, WriteWorkIndex, Appending
  <2>3. CASE f = WorkFile[a]
    <3>1. f \notin disturbed' => a \in Range(VisibleLines(f)')
      BY <1>f, <2>1, <2>2, <2>3, VisibleGrows
    <3>2. QED
      BY <3>1 DEF Visible, Range
  <2>4. CASE f = ThreadFile[a]
    <3>1. Visible(a, f)
      BY <2>1, <2>2, <2>4 DEF LogInv
    <3>2. QED
      BY <1>f, <3>1, VisibleStays
  <2>5. QED
    BY <2>3, <2>4
<1>3. QED
  BY <1>1, <1>2

LEMMA InitLog == Init => LogInv
  BY InitDangle DEF Init, LogInv, Exclusive, Within, AppendLocal, Appending

LEMMA NextLog == LogInv /\ [Next]_vars => LogInv'
<1> SUFFICES ASSUME LogInv, [Next]_vars PROVE LogInv'
  OBVIOUS
<1>1. DangleInv'
  BY NextDangle DEF LogInv
<1>2. \A p \in Procs : pc'[p] = "write_tmp" /\ fd'[p] = "final" => final'[job'[p]] # "absent"
  BY NextFd
<1>3. \A f \in IndexFiles \ disturbed' : Exclusive(f)'
  BY NextExclusive
<1>4. \A p \in Procs : path'[p] \notin disturbed' => AppendLocal(p)'
  BY NextAppendLocal
<1>5. \A p \in Procs : Appending(p)' /\ path'[p] = WorkFile[job'[p]] =>
          Visible(job[p], ThreadFile[job[p]])'
  BY EnterWorkAppend
<1>6. \A a \in acked' : Visible(a, ThreadFile[a])' /\ Visible(a, WorkFile[a])'
  <2> SUFFICES ASSUME NEW a \in acked'
               PROVE  Visible(a, ThreadFile[a])' /\ Visible(a, WorkFile[a])'
    OBVIOUS
  <2>1. PICK f : f = ThreadFile[a]
    OBVIOUS
  <2>2. PICK g : g = WorkFile[a]
    OBVIOUS
  <2>3. Visible(a, f)' /\ Visible(a, g)'
    BY <2>1, <2>2, AckedVisible
  <2>4. QED
    BY <2>1, <2>2, <2>3
<1>7. QED
  BY <1>1, <1>2, <1>3, <1>4, <1>5, <1>6 DEF LogInv

\* Any number of processes, crashes and failures: an acknowledged artifact is
\* lost from an index only if appends to that index overlapped or one broke off.
THEOREM AcknowledgedListed == Spec => []UndisturbedKeepsAcked
<1>1. ASSUME NEW a, NEW f, Visible(a, f), f \notin disturbed
      PROVE  Holds(f, a)
  <2>1. a \in Range(VisibleLines(f))
    BY <1>1 DEF Visible
  <2>2. CASE \E p \in Procs : InAppend(p, f)
    <3>1. PICK p \in Procs : InAppend(p, f) /\ VisibleLines(f) = values[p]
      BY <2>2 DEF VisibleLines
    <3>2. QED
      BY <2>1, <3>1 DEF Holds
  <2>3. CASE ~ \E p \in Procs : InAppend(p, f)
    BY <2>1, <2>3 DEF Holds, VisibleLines
  <2>4. QED
    BY <2>2, <2>3
<1>2. LogInv => UndisturbedKeepsAcked
  BY <1>1 DEF LogInv, UndisturbedKeepsAcked
<1>3. QED
  BY InitLog, NextLog, <1>2, PTL DEF Spec

-------------------------------------------------------------------------------
\* One process that nothing fails for loses nothing

\* The specification's claim about acknowledged writes holds where the code can
\* keep it: with one process on the state root, until a call fails or it dies.
THEOREM OneProcessKeepsAcked ==
    ASSUME \A p, q \in Procs : p = q
    PROVE  Spec => [](failures = 0 => AckedStayListed)
<1> DEFINE Calm == failures = 0 => disturbed = {}
<1>1. Init => Calm
  BY DEF Init
<1>2. LogInv /\ Calm /\ [Next]_vars => Calm'
  <2> SUFFICES ASSUME LogInv, Calm, [Next]_vars PROVE Calm'
    OBVIOUS
  <2>t. failures \in Nat
    BY DEF LogInv, DangleInv, TypeOK
  <2>1. ASSUME NEW p \in Procs, ReadIndex(p) PROVE Calm'
    <3>1. ~ \E q \in Procs : Within(q, path[p])
      BY <2>1 DEF ReadIndex, Within
    <3>2. QED
      BY <2>1, <3>1 DEF ReadIndex
  <2>2. ASSUME NEW p \in Procs, Fail(p) PROVE Calm'
    BY <2>2, <2>t DEF Fail
  <2>3. ASSUME NEW p \in Procs,
               \/ \E a \in Artifacts : OpenTmp(p, a)
               \/ WriteTmp(p) \/ Rename(p) \/ RenameMissing(p) \/ OpenIndex(p)
               \/ WriteThreadIndex(p) \/ WriteWorkIndex(p)
        PROVE  Calm'
    BY <2>3 DEF OpenTmp, WriteTmp, Rename, RenameMissing, OpenIndex, WriteThreadIndex,
                WriteWorkIndex
  <2>4. CASE UNCHANGED vars
    BY <2>4 DEF vars
  <2>5. QED
    BY <2>1, <2>2, <2>3, <2>4 DEF Next, Step, Done
<1>3. UndisturbedKeepsAcked /\ Calm => (failures = 0 => AckedStayListed)
  BY DEF UndisturbedKeepsAcked, AckedStayListed
<1>4. QED
  BY InitLog, NextLog, <1>1, <1>2, <1>3, AcknowledgedListed, PTL DEF Spec

-------------------------------------------------------------------------------
\* Racing writers do not all give up

\* Some process carries the write of a to its end: it has put the file in place, or
\* there is a temporary file for it to rename.
Carried(a) ==
    \E p \in Procs :
        /\ job[p] = a
        /\ Appending(p) \/ (Writing(p, a) /\ tmp[a] # "absent")

CarryInv ==
    failures = 0 =>
        \A a \in Artifacts : pending[a] < Deliveries => a \in acked \/ Carried(a)

\* Steps of a process that works on another artifact do not matter to a.
LEMMA CarriedByOthers ==
    ASSUME TypeOK, NEW a \in Artifacts, Carried(a), NEW p \in Procs,
           \A q \in Procs \ {p} : job'[q] = job[q] /\ pc'[q] = pc[q],
           tmp'[a] = tmp[a], job[p] # a \/ pc[p] = "idle"
    PROVE  Carried(a)'
<1>1. PICK q \in Procs : job[q] = a /\ (Appending(q) \/ (Writing(q, a) /\ tmp[a] # "absent"))
  BY DEF Carried
<1>2. q # p
  BY <1>1 DEF Appending, Writing
<1>3. job'[q] = job[q] /\ pc'[q] = pc[q]
  BY <1>2
<1>4. QED
  BY <1>1, <1>3 DEF Carried, Appending, Writing

LEMMA NextCarry == TypeOK /\ CarryInv /\ [Next]_vars => CarryInv'
<1> SUFFICES ASSUME TypeOK, CarryInv, [Next]_vars, failures' = 0,
                    NEW a \in Artifacts, pending'[a] < Deliveries
             PROVE  a \in acked' \/ Carried(a)'
  BY DEF CarryInv
<1> USE DEF Goto, files, locals
<1>t. TypeOK /\ failures \in Nat /\ pending[a] \in Nat /\ Deliveries \in Nat
  BY StoreAssumption DEF TypeOK
<1> DEFINE Goal == a \in acked' \/ Carried(a)'
<1>1. ASSUME NEW p \in Procs, NEW b \in Artifacts, OpenTmp(p, b) PROVE Goal
  <2>1. CASE a = b
    <3>1. pc'[p] = "write_tmp" /\ job'[p] = a /\ tmp'[a] = "partial"
      BY <1>1, <1>t, <2>1 DEF OpenTmp, TypeOK
    <3>2. QED
      BY <3>1 DEF Carried, Writing
  <2>2. CASE a # b
    <3>1. pending[a] < Deliveries /\ failures = 0
      BY <1>1, <1>t, <2>2 DEF OpenTmp, TypeOK
    <3>2. a \in acked \/ Carried(a)
      BY <3>1 DEF CarryInv
    <3>3. /\ \A q \in Procs \ {p} : job'[q] = job[q] /\ pc'[q] = pc[q]
          /\ tmp'[a] = tmp[a] /\ pc[p] = "idle" /\ acked' = acked
      BY <1>1, <1>t, <2>2 DEF OpenTmp, TypeOK
    <3>4. QED
      BY <3>2, <3>3, CarriedByOthers
  <2>3. QED
    BY <2>1, <2>2
<1>2. ASSUME NEW p \in Procs, \/ WriteTmp(p) \/ Rename(p) \/ RenameMissing(p) \/ ReadIndex(p)
                              \/ OpenIndex(p) \/ WriteThreadIndex(p) \/ WriteWorkIndex(p)
      PROVE Goal
  <2>1. UNCHANGED <<pending, failures, job>> /\ acked \subseteq acked'
    BY <1>2 DEF WriteTmp, Rename, RenameMissing, ReadIndex, OpenIndex, WriteThreadIndex,
                WriteWorkIndex
  <2>2. a \in acked \/ Carried(a)
    BY <2>1 DEF CarryInv
  <2>3. \A q \in Procs \ {p} : pc'[q] = pc[q]
    BY <1>2, <1>t DEF WriteTmp, Rename, RenameMissing, ReadIndex, OpenIndex,
                      WriteThreadIndex, WriteWorkIndex, TypeOK
  <2>4. CASE a \in acked
    BY <2>1, <2>4
  <2>5. CASE Carried(a) /\ job[p] # a
    <3>1. tmp'[a] = tmp[a]
      BY <1>2, <1>t, <2>5 DEF WriteTmp, Rename, RenameMissing, ReadIndex, OpenIndex,
                              WriteThreadIndex, WriteWorkIndex, TypeOK
    <3>2. QED
      BY <1>t, <2>1, <2>3, <2>5, <3>1, CarriedByOthers
  <2>6. CASE Carried(a) /\ job[p] = a
    <3>1. CASE WriteTmp(p)
      <4>1. pc'[p] = "rename" /\ (tmp'[a] = tmp[a] \/ tmp'[a] = "complete")
        BY <1>t, <2>6, <3>1 DEF WriteTmp, TypeOK
      <4>2. PICK q \in Procs :
                job[q] = a /\ (Appending(q) \/ (Writing(q, a) /\ tmp[a] # "absent"))
        BY <2>6 DEF Carried
      <4>3. CASE q = p
        BY <2>1, <3>1, <4>1, <4>2, <4>3 DEF Carried, Writing, Appending, WriteTmp
      <4>4. CASE q # p
        BY <2>1, <2>3, <4>1, <4>2, <4>4 DEF Carried, Writing, Appending
      <4>5. QED
        BY <4>3, <4>4
    <3>2. CASE \/ Rename(p) \/ ReadIndex(p) \/ OpenIndex(p) \/ WriteThreadIndex(p)
      <4>1. Appending(p)'
        BY <1>t, <3>2 DEF Rename, ReadIndex, OpenIndex, WriteThreadIndex, Appending, TypeOK
      <4>2. QED
        BY <2>1, <2>6, <4>1 DEF Carried
    <3>3. CASE RenameMissing(p)
      <4>1. tmp[a] = "absent"
        BY <2>6, <3>3 DEF RenameMissing
      <4>2. PICK q \in Procs : job[q] = a /\ Appending(q)
        BY <2>6, <4>1 DEF Carried
      <4>3. q # p
        BY <3>3, <4>2 DEF RenameMissing, Appending
      <4>4. QED
        BY <2>1, <2>3, <4>2, <4>3 DEF Carried, Appending
    <3>4. CASE WriteWorkIndex(p)
      BY <2>6, <3>4 DEF WriteWorkIndex
    <3>5. QED
      BY <1>2, <3>1, <3>2, <3>3, <3>4
  <2>7. QED
    BY <2>2, <2>4, <2>5, <2>6
<1>3. ASSUME NEW p \in Procs, Fail(p) PROVE Goal
  BY <1>3, <1>t DEF Fail
<1>4. CASE UNCHANGED vars
  BY <1>4 DEF vars, CarryInv, Carried, Appending, Writing
<1>5. QED
  BY <1>1, <1>2, <1>3, <1>4 DEF Next, Step, Done

\* However many writers race for one id, one of them is told that it was written,
\* as long as nothing fails.
THEOREM RacersDoNotAllGiveUp == Spec => []NotAllGiveUp
<1>1. Init => CarryInv
  <2>1. Deliveries \in Nat
    BY StoreAssumption
  <2>2. QED
    BY <2>1 DEF Init, CarryInv
<1>2. CarryInv => NotAllGiveUp
  BY DEF CarryInv, NotAllGiveUp, Carried, Appending, Writing
<1>3. QED
  BY InitType, NextType, NextCarry, <1>1, <1>2, PTL DEF Spec

-------------------------------------------------------------------------------
\* The store implements the abstract log

InPlace == {a \in Artifacts : final[a] # "absent"}
Listings == [f \in IndexFiles |-> Listing(f)]

LEMMA SameListing ==
    ASSUME LogInv, [Next]_vars, NEW f \in IndexFiles,
           f \in disturbed' => f \in disturbed,
           \A p \in Procs : Flush(p) => path[p] # f
    PROVE  Listing(f)' = Listing(f)
<1>1. CASE f \in disturbed
  BY <1>1, DisturbedGrows DEF Listing
<1>2. CASE f \notin disturbed
  <2>1. VisibleLines(f)' = VisibleLines(f)
    BY <1>2, OtherLines
  <2>2. QED
    BY <1>2, <2>1 DEF Listing
<1>3. QED
  BY <1>1, <1>2

\* A flush enlists the id of its artifact.
LEMMA FlushEnlists ==
    ASSUME LogInv, [Next]_vars, NEW p \in Procs, Flush(p), NEW f \in IndexFiles, f = path[p]
    PROVE  Log!Enlist(job[p], f)
<1>t. TypeOK /\ job[p] \in Artifacts /\ disturbed' = disturbed
  BY DEF LogInv, DangleInv, TypeOK, Flush, WriteThreadIndex, WriteWorkIndex
<1>1. \A g \in IndexFiles : g # f => Listing(g)' = Listing(g)
  <2> SUFFICES ASSUME NEW g \in IndexFiles, g # f PROVE Listing(g)' = Listing(g)
    OBVIOUS
  <2>1. \A q \in Procs : Flush(q) => path[q] # g
    BY <1>t, OneFlush
  <2>2. QED
    BY <1>t, <2>1, SameListing
<1>2. CASE f \in disturbed
  <2>1. Listing(f)' = Listing(f)
    BY <1>t, <1>2 DEF Listing
  <2>2. Listings' = Listings
    BY <1>1, <2>1 DEF Listings
  <2>3. QED
    BY <1>2, <2>2 DEF Listings, Log!Enlist
<1>3. CASE f \notin disturbed
  <2>1. VisibleLines(f)' = WithId(VisibleLines(f), job[p])
    BY <1>3, FlushLines
  <2>2. Listing(f) = VisibleLines(f) /\ Listing(f)' = VisibleLines(f)'
    BY <1>t, <1>3 DEF Listing
  <2>3. Listing(f)' = WithId(Listing(f), job[p])
    BY <2>1, <2>2
  <2>4. Listings[f] = Listing(f)
    BY DEF Listings
  <2>5. CASE job[p] \in Range(Listing(f))
    <3>1. Listings' = Listings
      BY <1>1, <2>3, <2>5 DEF Listings, WithId
    <3>2. Log!Listed(job[p], f)
      BY <2>4, <2>5 DEF Listings, Log!Listed, Log!Range, Range
    <3>3. QED
      BY <3>1, <3>2 DEF Listings, Log!Enlist
  <2>6. CASE job[p] \notin Range(Listing(f))
    <3>1. Listings' = [Listings EXCEPT ![f] = Append(@, job[p])]
      BY <1>1, <2>3, <2>6 DEF Listings, WithId
    <3>2. ~ Log!Listed(job[p], f)
      BY <2>4, <2>6 DEF Listings, Log!Listed, Log!Range, Range
    <3>3. QED
      BY <1>3, <3>1, <3>2 DEF Listings, Log!Enlist
  <2>7. QED
    BY <2>5, <2>6
<1>4. QED
  BY <1>2, <1>3

LEMMA LogInit == Init => Log!Init
  BY DEF Init, Log!Init, Listing, VisibleLines, InAppend

\* Every system call is one step of the log or invisible to it.
LEMMA LogStep == LogInv /\ [Next]_vars => [Log!Next]_(Log!logVars)
<1> SUFFICES ASSUME LogInv, [Next]_vars PROVE [Log!Next]_(Log!logVars)
  OBVIOUS
<1>t. TypeOK /\ TypeOK' /\ DangleInv
  BY NextType DEF LogInv, DangleInv
<1> USE DEF Goto, files, locals
<1>1. ASSUME NEW f \in IndexFiles, disturbed' = disturbed \cup {f}, f \notin disturbed,
             UNCHANGED <<final, acked>>, \A p \in Procs : ~ Flush(p)
      PROVE  Log!Spoil(f)
  <2>1. \A g \in IndexFiles : g # f => Listing(g)' = Listing(g)
    BY <1>1, SameListing
  <2>2. Listing(f)' = <<>>
    BY <1>1 DEF Listing
  <2>3. Listings' = [Listings EXCEPT ![f] = <<>>]
    BY <2>1, <2>2 DEF Listings
  <2>4. QED
    BY <1>1, <2>3 DEF Log!Spoil, Listings
<1>2. ASSUME NEW p \in Procs, ReadIndex(p) \/ Fail(p), disturbed' # disturbed
      PROVE  [Log!Next]_(Log!logVars)
  <2>1. PICK f \in IndexFiles : f = path[p]
    BY <1>t DEF TypeOK
  <2>2. disturbed' = disturbed \cup {f} /\ f \notin disturbed /\ UNCHANGED <<final, acked>>
    BY <1>2, <2>1 DEF ReadIndex, Fail, CutIndex
  <2>3. \A q \in Procs : ~ Flush(q)
    BY <1>2 DEF Flush, WriteThreadIndex, WriteWorkIndex
  <2>4. Log!Spoil(f)
    BY <1>1, <2>2, <2>3
  <2>5. QED
    BY <2>4 DEF Log!Next
<1>3. ASSUME NEW p \in Procs, WriteThreadIndex(p)
      PROVE  [Log!Next]_(Log!logVars)
  <2>1. Flush(p) /\ job[p] \in Artifacts /\ ThreadFile[job[p]] \in IndexFiles
    BY <1>t, <1>3, StoreAssumption DEF Flush, TypeOK
  <2>2. Log!Enlist(job[p], ThreadFile[job[p]])
    BY <1>3, <2>1, FlushEnlists DEF WriteThreadIndex
  <2>3. final[job[p]] # "absent"
    BY <1>t, <1>3, <2>1, StoreAssumption DEF WriteThreadIndex, DangleInv, Appending, Filed
  <2>4. Log!ListUnderThread(job[p])
    BY <1>3, <2>1, <2>2, <2>3 DEF WriteThreadIndex, Log!ListUnderThread
  <2>5. QED
    BY <2>1, <2>4 DEF Log!Next
<1>4. ASSUME NEW p \in Procs, WriteWorkIndex(p)
      PROVE  [Log!Next]_(Log!logVars)
  <2>1. /\ Flush(p) /\ job[p] \in Artifacts
        /\ WorkFile[job[p]] \in IndexFiles /\ ThreadFile[job[p]] \in IndexFiles
    BY <1>t, <1>4, StoreAssumption DEF Flush, TypeOK
  <2>2. Log!Enlist(job[p], WorkFile[job[p]])
    BY <1>4, <2>1, FlushEnlists DEF WriteWorkIndex
  <2>3. Visible(job[p], ThreadFile[job[p]])
    BY <1>4 DEF LogInv, WriteWorkIndex, Appending
  <2>4. \/ Log!Listed(job[p], ThreadFile[job[p]])
        \/ ThreadFile[job[p]] \in disturbed
    BY <2>1, <2>3 DEF Visible, Listing, Log!Listed, Log!Range, Range
  <2>5. Log!ListUnderWorkItem(job[p])
    BY <1>4, <2>2, <2>4 DEF WriteWorkIndex, Log!ListUnderWorkItem
  <2>6. QED
    BY <2>1, <2>5 DEF Log!Next
<1>5. ASSUME disturbed' = disturbed, \A p \in Procs : ~ Flush(p)
      PROVE  Listings' = Listings
  BY <1>5, SameListing DEF Listings
<1>6. ASSUME NEW p \in Procs, Rename(p)
      PROVE  [Log!Next]_(Log!logVars)
  <2>1. \A q \in Procs : ~ Flush(q)
    BY <1>t, <1>6 DEF Flush, WriteThreadIndex, WriteWorkIndex, Rename, TypeOK
  <2>2. Listings' = Listings
    BY <1>5, <1>6, <2>1 DEF Rename
  <2>3. job[p] \in Artifacts
    BY <1>t DEF TypeOK
  <2>4. InPlace' = InPlace \cup {job[p]}
    BY <1>t, <1>6 DEF InPlace, Rename, TypeOK
  <2>5. Log!Persist(job[p])
    BY <1>6, <2>2, <2>4 DEF Rename, Log!Persist, InPlace, Listings
  <2>6. QED
    BY <2>3, <2>5 DEF Log!Next, Log!Persist
<1>7. ASSUME NEW p \in Procs, \/ \E a \in Artifacts : OpenTmp(p, a)
                              \/ WriteTmp(p) \/ RenameMissing(p) \/ OpenIndex(p)
                              \/ (ReadIndex(p) \/ Fail(p)) /\ disturbed' = disturbed
      PROVE  [Log!Next]_(Log!logVars)
  <2>1. \A q \in Procs : ~ Flush(q)
    <3>1. CASE Fail(p)
      BY <1>t, <3>1 DEF Flush, WriteThreadIndex, WriteWorkIndex, Fail, TypeOK
    <3>2. CASE ~ Fail(p)
      <4>1. pc[p] # "write_index" /\ \A q \in Procs \ {p} : pc'[q] = pc[q]
        BY <1>t, <1>7, <3>2 DEF OpenTmp, WriteTmp, RenameMissing, OpenIndex, ReadIndex, TypeOK
      <4>2. QED
        BY <1>t, <4>1 DEF Flush, WriteThreadIndex, WriteWorkIndex, TypeOK
    <3>3. QED
      BY <3>1, <3>2
  <2>2. disturbed' = disturbed /\ acked' = acked
    BY <1>7 DEF OpenTmp, WriteTmp, RenameMissing, OpenIndex, ReadIndex, Fail
  <2>3. Listings' = Listings
    BY <1>5, <2>1, <2>2
  <2>4. InPlace' = InPlace
    <3>1. CASE WriteTmp(p)
      BY <1>t, <3>1 DEF LogInv, InPlace, WriteTmp, TypeOK
    <3>2. CASE ~ WriteTmp(p)
      <4>1. final' = final
        BY <1>7, <3>2 DEF OpenTmp, RenameMissing, OpenIndex, ReadIndex, Fail
      <4>2. QED
        BY <4>1 DEF InPlace
    <3>3. QED
      BY <3>1, <3>2
  <2>5. QED
    BY <2>2, <2>3, <2>4 DEF Log!logVars, InPlace, Listings
<1>8. CASE UNCHANGED vars
  <2>1. Listings' = Listings
    BY <1>8 DEF vars, Listings, Listing, VisibleLines, InAppend
  <2>2. QED
    BY <1>8, <2>1 DEF vars, Log!logVars, Listings
<1>9. QED
  BY <1>2, <1>3, <1>4, <1>6, <1>7, <1>8 DEF Next, Step, Done

\* Any number of processes, crashes and failures: the system calls implement
\* the abstract artifact log.
THEOREM StoreImplementsLog == Spec => ImplementsLog
  BY InitLog, NextLog, LogInit, LogStep, PTL DEF Spec, ImplementsLog, Log!Spec

===============================================================================
