------------------------- MODULE SetupConfigStoreProofs -------------------------
(***************************************************************************)
(* Proofs about SetupConfigStore, for any number of writers, readers,      *)
(* inodes, power losses and configurations of any size.                    *)
(***************************************************************************)
EXTENDS SetupConfigStore, TLAPS

-------------------------------------------------------------------------------
\* Types

LEMMA EmptyType == Empty \in Contents
  BY DEF Empty, Contents

LEMMA OverwrittenType ==
    ASSUME TypeOK, NEW i \in Inodes, NEW c \in Configs
    PROVE  Overwritten(i, c) \in Contents
<1>1. data[i] \in Contents
  BY DEF TypeOK
<1>2. data[i].size \in Nat /\ Size[c] \in Nat
  BY <1>1, StoreAssumption DEF Contents, StoreAssumption
<1>3. QED
  BY <1>2 DEF Overwritten, Contents

LEMMA InitType == Init => TypeOK
  BY EmptyType, StoreAssumption DEF Init, TypeOK, StoreAssumption

LEMMA NextType == TypeOK /\ [Next]_vars => TypeOK'
<1> SUFFICES ASSUME TypeOK, [Next]_vars PROVE TypeOK'
  OBVIOUS
<1> USE DEF TypeOK, writing, directory
<1>a. None \notin Inodes /\ None \notin Configs
  BY StoreAssumption DEF StoreAssumption
<1>1. ASSUME NEW w \in Writers, NEW c \in Configs, NEW i \in Inodes, Open(w, c, i)
      PROVE  TypeOK'
  BY <1>1, <1>a, EmptyType DEF Open, Contest
<1>2. ASSUME NEW w \in Writers, Write(w) PROVE TypeOK'
  <2>1. fd[w] \in Inodes /\ want[w] \in Configs
    BY <1>2 DEF Write
  <2>2. Overwritten(fd[w], want[w]) \in Contents
    BY <2>1, OverwrittenType
  <2> HIDE DEF TypeOK
  <2>3. data' \in [Inodes -> Contents]
    BY <1>2, <2>1, <2>2 DEF Write, TypeOK
  <2>4. QED
    BY <1>2, <2>1, <2>3 DEF Write, TypeOK
<1>3. ASSUME NEW w \in Writers, Sync(w) PROVE TypeOK'
  BY <1>3 DEF Sync
<1>4. ASSUME NEW w \in Writers, Rename(w) PROVE TypeOK'
  BY <1>4 DEF Rename
<1>5. ASSUME NEW w \in Writers, Stop(w) PROVE TypeOK'
  BY <1>5 DEF Stop
<1>6. ASSUME NEW r \in Readers, Reader(r) PROVE TypeOK'
  BY <1>6 DEF Reader, OpenFinal, Decrypt
<1>7. CASE Flush
  BY <1>7 DEF Flush
<1>8. CASE PowerLoss
  <2>1. powerLosses' \in 0..MaxPowerLosses
    BY <1>8, StoreAssumption DEF PowerLoss, StoreAssumption
  <2>2. data' \in [Inodes -> Contents]
    BY <1>8, EmptyType DEF PowerLoss
  <2>3. QED
    BY <1>8, <2>1, <2>2 DEF PowerLoss
<1>9. CASE UNCHANGED vars
  BY <1>9 DEF vars
<1>10. QED
  BY <1>1, <1>2, <1>3, <1>4, <1>5, <1>6, <1>7, <1>8, <1>9 DEF Next, Writer

\* Every variable keeps its type with any number of writers, and a descriptor is
\* open exactly between the open and the sync.
THEOREM TypeCorrect == Spec => []TypeOK
  BY InitType, NextType, PTL DEF Spec

-------------------------------------------------------------------------------
\* Whole files

Whole(i) == data[i].config \in Configs

\* A file that can be read or brought back is whole, unless it is contested.
PublishedInv ==
    /\ final \notin contested \cup {None} => Whole(final) /\ final \in synced
    /\ onDisk \notin contested \cup {None} => Whole(onDisk) /\ onDisk \in synced
    /\ \A r \in Readers : look[r] \notin contested \cup {None} => Whole(look[r])

\* The temporary file is none of these.
PrivateInv ==
    tmp # None => /\ tmp # final
                  /\ tmp # onDisk
                  /\ \A r \in Readers : look[r] # tmp

\* A descriptor of a file that nobody contests is one of the temporary file.
DescriptorInv ==
    \A w \in Writers : fd[w] \notin contested \cup {None} => fd[w] = tmp

\* A temporary file that nobody contests has at most one save in progress, which
\* has come so far with it.
ProgressInv ==
    tmp \notin contested \cup {None} =>
        \A w \in Writers :
            /\ Saving(w) => \A v \in Writers : Saving(v) => v = w
            /\ pc[w] \in {"opened", "written"} => fd[w] = tmp
            /\ pc[w] = "opened" => data[tmp].size = 0
            /\ pc[w] = "written" => Whole(tmp)
            /\ pc[w] = "synced" => Whole(tmp) /\ tmp \in synced

StoreInv ==
    /\ TypeOK
    /\ PublishedInv
    /\ PrivateInv
    /\ DescriptorInv
    /\ ProgressInv

LEMMA InitStore == Init => StoreInv
  BY InitType DEF Init, StoreInv, PublishedInv, PrivateInv, DescriptorInv, ProgressInv

LEMMA NextTypeStore == StoreInv /\ [Next]_vars => TypeOK'
  BY NextType DEF StoreInv

\* What an open may do to files: the one it opens is, or becomes, the temporary
\* file, and contested if another save is in progress.
LEMMA OpenStore ==
    ASSUME StoreInv, NEW w \in Writers, NEW c \in Configs, NEW i \in Inodes, Open(w, c, i)
    PROVE  StoreInv'
<1>1. TypeOK'
  BY NextTypeStore DEF Next, Writer
<1>a. None \notin Inodes
  BY StoreAssumption DEF StoreAssumption
<1>2. i \notin {final, onDisk} /\ \A r \in Readers : look[r] # i
  BY <1>a DEF Open, Free, Held, StoreInv, PrivateInv
<1>3. \A j \in Inodes :
          j # i => /\ data'[j] = data[j]
                   /\ j \in synced <=> j \in synced'
                   /\ j \in contested <=> j \in contested'
  BY DEF Open, Contest, StoreInv, TypeOK
<1>4. PublishedInv'
  <2>1. UNCHANGED <<look, final, onDisk>>
    BY DEF Open
  <2>2. /\ final \in Inodes \cup {None}
        /\ onDisk \in Inodes \cup {None}
        /\ \A r \in Readers : look[r] \in Inodes \cup {None}
    BY DEF StoreInv, TypeOK
  <2>3. QED
    BY <2>1, <2>2, <1>2, <1>3 DEF StoreInv, PublishedInv, Whole
<1>5. PrivateInv'
  BY <1>2 DEF Open, PrivateInv
<1>6. tmp' = i /\ fd'[w] = i /\ pc'[w] = "opened" /\ data'[i].size = 0
  BY DEF Open, StoreInv, TypeOK, Empty
<1>7. \A v \in Writers : v # w => fd'[v] = fd[v] /\ pc'[v] = pc[v]
  BY DEF Open, StoreInv, TypeOK
<1>8. CASE \E v \in Writers : Saving(v)
  <2>1. i \in contested'
    BY <1>8 DEF Open, Contest
  <2>2. DescriptorInv'
    <3> SUFFICES ASSUME NEW v \in Writers, fd'[v] \notin contested' \cup {None}
                 PROVE  FALSE
      BY DEF DescriptorInv
    <3>1. v # w /\ fd[v] \in Inodes /\ fd[v] # i
      BY <1>6, <1>7, <2>1 DEF StoreInv, TypeOK
    <3>2. fd[v] = tmp
      BY <3>1, <1>3, <1>7 DEF StoreInv, DescriptorInv
    <3>3. QED
      BY <3>1, <3>2, <1>a DEF Open
  <2>3. ProgressInv'
    BY <2>1, <1>6 DEF ProgressInv
  <2>4. QED
    BY <1>1, <1>4, <1>5, <2>2, <2>3 DEF StoreInv
<1>9. CASE ~ \E v \in Writers : Saving(v)
  <2>1. \A v \in Writers : v # w => fd'[v] = None /\ pc'[v] = "idle"
    BY <1>7, <1>9 DEF Saving, StoreInv, TypeOK
  <2>2. DescriptorInv'
    BY <2>1, <1>6 DEF DescriptorInv
  <2>3. ProgressInv'
    BY <2>1, <1>6 DEF ProgressInv, Saving
  <2>4. QED
    BY <1>1, <1>4, <1>5, <2>2, <2>3 DEF StoreInv
<1>10. QED
  BY <1>8, <1>9

\* A write goes to a contested file or to the temporary file, which was empty.
LEMMA WriteStore ==
    ASSUME StoreInv, NEW w \in Writers, Write(w)
    PROVE  StoreInv'
<1> USE DEF directory
<1>1. TypeOK'
  BY NextTypeStore DEF Next, Writer
<1>2. fd[w] \in Inodes /\ want[w] \in Configs /\ fd[w] # None
  BY StoreAssumption DEF Write, StoreInv, TypeOK, StoreAssumption
<1>3. \A j \in Inodes : j # fd[w] => data'[j] = data[j] /\ (j \in synced <=> j \in synced')
  BY DEF Write, StoreInv, TypeOK
<1>4. fd[w] \notin contested => fd[w] = tmp
  BY <1>2 DEF StoreInv, DescriptorInv
<1>5. PublishedInv'
  <2>1. \A j \in {final, onDisk} \cup {look[r] : r \in Readers} :
            j \notin contested \cup {None} => j \in Inodes /\ j # fd[w]
    BY <1>2, <1>4 DEF StoreInv, TypeOK, PrivateInv
  <2>2. QED
    BY <2>1, <1>3 DEF Write, StoreInv, PublishedInv, Whole
<1>6. PrivateInv' /\ DescriptorInv'
  BY DEF Write, StoreInv, PrivateInv, DescriptorInv
<1>7. ProgressInv'
  <2> SUFFICES ASSUME tmp \notin contested \cup {None}
               PROVE  \A v \in Writers :
                        /\ Saving(v)' => \A u \in Writers : Saving(u)' => u = v
                        /\ pc'[v] \in {"opened", "written"} => fd'[v] = tmp
                        /\ pc'[v] = "opened" => data'[tmp].size = 0
                        /\ pc'[v] = "written" => Whole(tmp)'
                        /\ pc'[v] = "synced" => Whole(tmp)' /\ tmp \in synced'
    BY DEF Write, ProgressInv
  <2>1. fd[w] = tmp /\ data[tmp].size = 0 /\ \A v \in Writers : Saving(v) => v = w
    BY DEF Write, StoreInv, ProgressInv, Saving
  <2>2. \A v \in Writers : v # w => pc'[v] = "idle"
    BY <2>1 DEF Write, StoreInv, TypeOK, Saving
  <2>3. pc'[w] = "written" /\ fd'[w] = tmp
    BY <2>1 DEF Write, StoreInv, TypeOK
  <2>4. data'[tmp] = [size |-> Size[want[w]], config |-> want[w]]
    <3>1. Size[want[w]] \in Nat
      BY <1>2, StoreAssumption DEF StoreAssumption
    <3>2. 0 <= Size[want[w]]
      BY <3>1
    <3>3. QED
      BY <1>2, <2>1, <3>2 DEF Write, Overwritten, StoreInv, TypeOK
  <2>5. Whole(tmp)'
    BY <1>2, <2>4 DEF Write, Whole
  <2>6. QED
    BY <2>2, <2>3, <2>5 DEF Saving
<1>8. QED
  BY <1>1, <1>5, <1>6, <1>7 DEF StoreInv

LEMMA SyncStore ==
    ASSUME StoreInv, NEW w \in Writers, Sync(w)
    PROVE  StoreInv'
<1> USE DEF directory
<1>1. TypeOK'
  BY NextTypeStore DEF Next, Writer
<1>2. PublishedInv' /\ PrivateInv'
  BY DEF Sync, StoreInv, PublishedInv, PrivateInv, Whole
<1>3. \A v \in Writers : fd'[v] = IF v = w THEN None ELSE fd[v]
  BY DEF Sync, StoreInv, TypeOK
<1>4. DescriptorInv'
  BY <1>3 DEF Sync, StoreInv, DescriptorInv
<1>5. ProgressInv'
  <2> SUFFICES ASSUME tmp \notin contested \cup {None}
               PROVE  \A v \in Writers :
                        /\ Saving(v)' => \A u \in Writers : Saving(u)' => u = v
                        /\ pc'[v] \in {"opened", "written"} => fd'[v] = tmp
                        /\ pc'[v] = "opened" => data'[tmp].size = 0
                        /\ pc'[v] = "written" => Whole(tmp)'
                        /\ pc'[v] = "synced" => Whole(tmp)' /\ tmp \in synced'
    BY DEF Sync, ProgressInv
  <2>1. fd[w] = tmp /\ Whole(tmp) /\ \A v \in Writers : Saving(v) => v = w
    BY DEF Sync, StoreInv, ProgressInv, Saving
  <2>2. \A v \in Writers : v # w => pc'[v] = "idle"
    BY <2>1 DEF Sync, StoreInv, TypeOK, Saving
  <2>3. pc'[w] = "synced" /\ tmp \in synced' /\ Whole(tmp)'
    BY <2>1 DEF Sync, StoreInv, TypeOK, Whole
  <2>4. QED
    BY <2>2, <2>3 DEF Saving
<1>6. QED
  BY <1>1, <1>2, <1>4, <1>5 DEF StoreInv

LEMMA RenameStore ==
    ASSUME StoreInv, NEW w \in Writers, Rename(w)
    PROVE  StoreInv'
<1>1. TypeOK'
  BY NextTypeStore DEF Next, Writer
<1>2. tmp \notin contested => Whole(tmp) /\ tmp \in synced
  BY DEF Rename, StoreInv, ProgressInv
<1>3. PublishedInv' /\ PrivateInv'
  BY <1>2 DEF Rename, StoreInv, PublishedInv, PrivateInv, Whole
<1>4. DescriptorInv'
  <2> SUFFICES ASSUME NEW v \in Writers, fd[v] \notin contested \cup {None} PROVE FALSE
    BY DEF DescriptorInv, Rename
  <2>1. fd[v] = tmp
    BY DEF StoreInv, DescriptorInv
  <2>2. pc[v] \in {"opened", "written"}
    BY DEF StoreInv, TypeOK
  <2>3. v = w
    BY <2>1, <2>2 DEF Rename, StoreInv, ProgressInv, Saving
  <2>4. QED
    BY <2>2, <2>3 DEF Rename
<1>5. ProgressInv'
  BY DEF Rename, ProgressInv
<1>6. QED
  BY <1>1, <1>3, <1>4, <1>5 DEF StoreInv

LEMMA StopStore ==
    ASSUME StoreInv, NEW w \in Writers, Stop(w)
    PROVE  StoreInv'
<1> USE DEF directory
<1>1. TypeOK'
  BY NextTypeStore DEF Next, Writer
<1>2. PublishedInv' /\ PrivateInv'
  BY DEF Stop, StoreInv, PublishedInv, PrivateInv, Whole
<1>3. \A v \in Writers : IF v = w THEN fd'[v] = None /\ pc'[v] = "idle"
                                  ELSE fd'[v] = fd[v] /\ pc'[v] = pc[v]
  BY DEF Stop, StoreInv, TypeOK
<1>4. DescriptorInv'
  BY <1>3 DEF Stop, StoreInv, DescriptorInv
<1>5. ProgressInv'
  BY <1>3 DEF Stop, StoreInv, ProgressInv, Saving, Whole
<1>6. QED
  BY <1>1, <1>2, <1>4, <1>5 DEF StoreInv

LEMMA ReaderStore ==
    ASSUME StoreInv, NEW r \in Readers, Reader(r)
    PROVE  StoreInv'
<1> USE DEF writing, directory
<1>1. TypeOK'
  BY NextTypeStore DEF Next
<1>2. /\ UNCHANGED <<pc, want, fd, tmp, final, onDisk, data, synced, contested>>
      /\ \A q \in Readers : look'[q] \in {None, final, look[q]}
  BY DEF Reader, OpenFinal, Decrypt, StoreInv, TypeOK
<1>3. PublishedInv' /\ PrivateInv'
  BY <1>2 DEF StoreInv, PublishedInv, PrivateInv, Whole
<1>4. DescriptorInv' /\ ProgressInv'
  BY <1>2 DEF StoreInv, DescriptorInv, ProgressInv, Saving, Whole
<1>5. QED
  BY <1>1, <1>3, <1>4 DEF StoreInv

\* What a power loss brings back was synced before it was renamed.
LEMMA PowerLossStore ==
    ASSUME StoreInv, PowerLoss
    PROVE  StoreInv'
<1>1. TypeOK'
  BY NextTypeStore DEF Next
<1>2. \A i \in synced : data'[i] = data[i] /\ i \in synced'
  BY DEF PowerLoss, StoreInv, TypeOK
<1>3. PublishedInv'
  BY <1>2 DEF PowerLoss, StoreInv, PublishedInv, Whole
<1>4. PrivateInv'
  BY DEF PowerLoss, PrivateInv
<1>5. DescriptorInv' /\ ProgressInv'
  BY DEF PowerLoss, DescriptorInv, ProgressInv, Saving
<1>6. QED
  BY <1>1, <1>3, <1>4, <1>5 DEF StoreInv

LEMMA FlushStore ==
    ASSUME StoreInv, Flush \/ UNCHANGED vars
    PROVE  StoreInv'
<1> USE DEF Flush, vars, writing, directory, StoreInv
<1>1. TypeOK'
  BY NextTypeStore DEF Next
<1>2. PublishedInv' /\ PrivateInv'
  BY DEF PublishedInv, PrivateInv, Whole
<1>3. DescriptorInv' /\ ProgressInv'
  BY DEF DescriptorInv, ProgressInv, Saving, Whole
<1>4. QED
  BY <1>1, <1>2, <1>3

LEMMA NextStore == StoreInv /\ [Next]_vars => StoreInv'
<1> SUFFICES ASSUME StoreInv, [Next]_vars PROVE StoreInv'
  OBVIOUS
<1>1. ASSUME NEW w \in Writers, Writer(w) PROVE StoreInv'
  BY <1>1, OpenStore, WriteStore, SyncStore, RenameStore, StopStore DEF Writer
<1>2. ASSUME NEW r \in Readers, Reader(r) PROVE StoreInv'
  BY <1>2, ReaderStore
<1>3. QED
  BY <1>1, <1>2, PowerLossStore, FlushStore DEF Next

\* Any number of writers and readers, crashes and power losses: the setup file is
\* whole or absent, or two saves that overlapped had it open.
THEOREM StoredWhole == Spec => []StoredIsWhole
<1>1. StoreInv => StoredIsWhole
  BY DEF StoreInv, PublishedInv, StoredIsWhole, Whole
<1>2. QED
  BY InitStore, NextStore, <1>1, PTL DEF Spec

\* Saves that never overlap, as those of one process, contest nothing: the setup
\* file is whole or absent.
THEOREM OneWriterWhole ==
    ASSUME \A v, w \in Writers : v = w
    PROVE  Spec => [](final # None => Whole(final))
<1> DEFINE Uncontested == contested = {}
<1>1. Init => Uncontested
  BY DEF Init
<1>2. StoreInv /\ Uncontested /\ [Next]_vars => Uncontested'
  <2> SUFFICES ASSUME Uncontested, [Next]_vars PROVE Uncontested'
    OBVIOUS
  <2>1. ASSUME NEW w \in Writers, NEW c \in Configs, NEW i \in Inodes, Open(w, c, i)
        PROVE  Uncontested'
    <3>1. ~ \E v \in Writers : Saving(v)
      BY <2>1 DEF Open, Saving
    <3>2. QED
      BY <2>1, <3>1 DEF Open, Contest
  <2>2. ASSUME NEW w \in Writers, Write(w) \/ Sync(w) \/ Rename(w) \/ Stop(w)
        PROVE  Uncontested'
    BY <2>2 DEF Write, Sync, Rename, Stop
  <2>3. ASSUME NEW r \in Readers, Reader(r) PROVE Uncontested'
    BY <2>3 DEF Reader, OpenFinal, Decrypt
  <2>4. QED
    BY <2>1, <2>2, <2>3 DEF Next, Writer, Flush, PowerLoss, vars
<1>3. StoreInv /\ Uncontested => (final # None => Whole(final))
  BY DEF StoreInv, PublishedInv
<1>4. QED
  BY InitStore, NextStore, <1>1, <1>2, <1>3, PTL DEF Spec

\* Under the same conditions as StoredWhole a read returns bytes that do not decrypt only from a
\* file that overlapping saves had open.
THEOREM ReadsWhole == Spec => ReadsAreWhole
<1> DEFINE ReadIsWhole == \A r \in Readers, c \in Configs \cup {"torn"} :
                Decrypt(r, c) /\ look[r] \notin contested => c \in Configs
<1>1. StoreInv => ReadIsWhole
  BY DEF StoreInv, PublishedInv, Whole, Decrypt
<1>2. StoreInv /\ [Next]_vars => [ReadIsWhole]_vars
  BY <1>1
<1> QED
  BY InitStore, NextStore, <1>2, PTL DEF Spec, ReadsAreWhole

-------------------------------------------------------------------------------
\* The register

LEMMA WriterRefines ==
    ASSUME StoreInv, NEW w \in Writers, Writer(w)
    PROVE  [Register!Next]_<<ConfigOf(final), ConfigOf(onDisk)>>
<1> USE DEF directory
<1>a. TypeOK
  BY DEF StoreInv
<1>b. None \notin Inodes
  BY StoreAssumption DEF StoreAssumption
<1>1. ASSUME NEW c \in Configs, NEW i \in Inodes, Open(w, c, i)
      PROVE  UNCHANGED <<ConfigOf(final), ConfigOf(onDisk)>>
  <2>1. i # final /\ i # onDisk
    BY <1>1, <1>b DEF Open, Free, StoreInv, PrivateInv
  <2>2. \A j \in Inodes : j # i => data'[j] = data[j] /\ (j \in contested <=> j \in contested')
    BY <1>1, <1>a DEF Open, Contest, TypeOK
  <2>3. QED
    BY <1>1, <1>a, <2>1, <2>2 DEF Open, TypeOK, ConfigOf
<1>2. CASE Write(w)
  <2>a. fd[w] # None
    BY <1>2, <1>a DEF Write, TypeOK
  <2>1. fd[w] \in contested \/ (fd[w] = tmp /\ tmp # None)
    BY <2>a DEF StoreInv, DescriptorInv
  <2>2. \A j \in {final, onDisk} : j \in contested \cup {None} \/ j # fd[w]
    <3>1. tmp # None => tmp # final /\ tmp # onDisk
      BY DEF StoreInv, PrivateInv
    <3>2. QED
      BY <2>1, <3>1
  <2>3. \A j \in Inodes : j # fd[w] => data'[j] = data[j]
    BY <1>2, <1>a DEF Write, TypeOK
  <2>4. final \in Inodes \cup {None} /\ onDisk \in Inodes \cup {None}
    BY <1>a DEF TypeOK
  <2>5. UNCHANGED <<final, onDisk, contested>>
    BY <1>2 DEF Write
  <2>6. UNCHANGED <<ConfigOf(final), ConfigOf(onDisk)>>
    BY <2>2, <2>3, <2>4, <2>5 DEF ConfigOf
  <2>7. QED
    BY <2>6
<1>3. CASE Sync(w) \/ Stop(w)
  BY <1>3 DEF Sync, Stop, ConfigOf
<1>4. CASE Rename(w) /\ tmp \in contested
  <2>1. ConfigOf(final)' = Unknown /\ UNCHANGED ConfigOf(onDisk)
    BY <1>4 DEF Rename, ConfigOf
  <2>2. Register!Contend
    BY <2>1 DEF Register!Contend
  <2>3. QED
    BY <2>2 DEF Register!Next
<1>5. CASE Rename(w) /\ tmp \notin contested
  <2>1. PICK c \in Configs : c = data[tmp].config
    BY <1>5 DEF Rename, StoreInv, ProgressInv, Whole
  <2>2. ConfigOf(final)' = c /\ UNCHANGED ConfigOf(onDisk)
    BY <1>5, <2>1 DEF Rename, ConfigOf
  <2>3. Register!Save(c)
    BY <2>2 DEF Register!Save
  <2>4. QED
    BY <2>3 DEF Register!Next
<1>6. QED
  BY <1>1, <1>2, <1>3, <1>4, <1>5 DEF Writer

LEMMA OtherRefines ==
    ASSUME StoreInv,
           \/ \E r \in Readers : Reader(r)
           \/ Flush
           \/ PowerLoss
           \/ UNCHANGED vars
    PROVE  [Register!Next]_<<ConfigOf(final), ConfigOf(onDisk)>>
<1> USE DEF writing, directory
<1>1. CASE \E r \in Readers : Reader(r)
  BY <1>1 DEF Reader, OpenFinal, Decrypt, ConfigOf
<1>2. CASE Flush
  <2>1. Register!Flush
    BY <1>2 DEF Flush, Register!Flush, ConfigOf
  <2>2. QED
    BY <2>1 DEF Register!Next
<1>3. CASE PowerLoss
  <2>1. onDisk \notin contested \cup {None} => data'[onDisk] = data[onDisk]
    BY <1>3 DEF PowerLoss, StoreInv, TypeOK, PublishedInv
  <2>2. Register!PowerLoss
    BY <1>3, <2>1 DEF PowerLoss, Register!PowerLoss, ConfigOf
  <2>3. QED
    BY <2>2 DEF Register!Next
<1>4. CASE UNCHANGED vars
  BY <1>4 DEF vars, ConfigOf
<1>5. QED
  BY <1>1, <1>2, <1>3, <1>4

\* Any number of writers and readers, crashes and power losses: the system calls
\* implement the register.
THEOREM StoreImplementsRegister == Spec => ImplementsRegister
<1>1. Init => Register!Init
  BY DEF Init, Register!Init, ConfigOf
<1>2. StoreInv /\ [Next]_vars => [Register!Next]_<<ConfigOf(final), ConfigOf(onDisk)>>
  BY WriterRefines, OtherRefines DEF Next
<1>3. QED
  BY InitStore, NextStore, <1>1, <1>2, PTL DEF Spec, ImplementsRegister, Register!Spec

===============================================================================
