------------------------------ MODULE FileProofs ------------------------------
(***************************************************************************)
(* Proofs about what a crash leaves on the disk.  An identity, once handed *)
(* out, is the one every later start loads; a restore finds a whole        *)
(* snapshot, as new as the last one that was saved before it; and the      *)
(* index of the key-value store agrees with its log.                       *)
(***************************************************************************)
EXTENDS KvStore, IdentityFile, SnapshotFile, FiniteSetTheorems, WellFoundedInduction, TLAPS

Creating == {"keygen", "write", "fsync", "rename"}

Typed ==
    /\ ipc \in Creating \cup {"off", "up"}
    /\ ids \in Nat /\ mem \in Nat /\ handed \in Nat /\ path \in Nat \cup {Half}
    /\ older \subseteq Nat \cup {Half}
    /\ changed \in BOOLEAN /\ excuse \in BOOLEAN

\* What save has done so far of the key pair in memory.
SavedSoFar ==
    /\ ipc \in {"write", "fsync", "rename"} => mem # 0
    /\ ipc \in {"fsync", "rename"} => tmp = mem
    /\ ipc = "rename" => mem \in fsynced \/ excuse

\* Without an excuse, path is empty or safe on disk, names what was handed out, and a new
\* identity is made only while there is none.
PathSafe ==
    ~excuse =>
        /\ ~changed
        /\ path \in fsynced \cup {NoFile} /\ path # Half
        /\ handed # 0 => path = handed
        /\ ipc \in Creating => path = NoFile

IInv == Typed /\ SavedSoFar /\ PathSafe

\* The arithmetic the steps need.
LEMMA Numbers ==
    NoFile = 0 /\ Half \notin Nat /\ 0 \in Nat /\ \A n \in Nat : n + 1 \in Nat /\ n + 1 # 0
BY SMT DEF NoFile, Half

LEMMA InitIInv == IdInit => IInv
BY Numbers, ZenonT(30) DEF IdInit, IInv, Typed, SavedSoFar, PathSafe, Creating

LEMMA LoadIInv == ASSUME IInv, load PROVE IInv'
<1>1. Typed'
  BY Numbers, ZenonT(60) DEF IInv, Typed, Creating, load, HandOut
<1>2. SavedSoFar'
  BY Numbers, ZenonT(60) DEF IInv, Typed, SavedSoFar, Creating, load, HandOut
<1>3. PathSafe'
  <2>1. CASE path \notin {NoFile, Half} /\ HandOut(path) /\ UNCHANGED excuse
    <3>1. ~excuse => handed \in {0, path}
      BY DEF IInv, PathSafe
    <3>2. ~excuse => ~changed' /\ handed' = path' /\ ipc' = "up"
      BY <2>1, <3>1, ZenonT(60) DEF IInv, PathSafe, HandOut, load
    <3> QED BY <2>1, <3>2, ZenonT(60) DEF IInv, PathSafe, Creating, load
  <2>2. CASE ipc' = "keygen" /\ excuse' = (excuse \/ path \notin {NoFile, Half})
             /\ UNCHANGED <<mem, handed, changed>>
    <3>1. ~excuse' => ~excuse /\ path = NoFile
      BY <2>2, ZenonT(60) DEF IInv, PathSafe
    <3> QED BY <2>2, <3>1 DEF IInv, PathSafe, load
  <2> QED BY <2>1, <2>2, ZenonT(60) DEF load
<1> QED BY <1>1, <1>2, <1>3, ZenonT(60) DEF IInv

LEMMA KeygenIInv == ASSUME IInv, keygen PROVE IInv'
<1>1. Typed'
  BY Numbers, ZenonT(60) DEF IInv, Typed, Creating, keygen, Return
<1>2. SavedSoFar'
  BY Numbers, ZenonT(60) DEF IInv, Typed, SavedSoFar, Creating, keygen, Return
<1>3. PathSafe'
  BY Numbers DEF IInv, Typed, SavedSoFar, PathSafe, Creating, keygen, Return
<1> QED BY <1>1, <1>2, <1>3, ZenonT(60) DEF IInv

LEMMA WriteIInv == ASSUME IInv, write PROVE IInv'
<1>1. Typed'
  BY Numbers, ZenonT(60) DEF IInv, Typed, Creating, write, Return
<1>2. SavedSoFar'
  BY Numbers, ZenonT(60) DEF IInv, Typed, SavedSoFar, Creating, write, Return
<1>3. PathSafe'
  BY Numbers DEF IInv, Typed, SavedSoFar, PathSafe, Creating, write, Return
<1> QED BY <1>1, <1>2, <1>3, ZenonT(60) DEF IInv

LEMMA FsyncIInv == ASSUME IInv, fsync PROVE IInv'
<1>1. Typed'
  BY Numbers, ZenonT(60) DEF IInv, Typed, Creating, fsync
<1>2. SavedSoFar'
  BY Numbers, ZenonT(60) DEF IInv, Typed, SavedSoFar, Creating, fsync
<1>3. PathSafe'
  BY Numbers DEF IInv, Typed, SavedSoFar, PathSafe, Creating, fsync
<1> QED BY <1>1, <1>2, <1>3, ZenonT(60) DEF IInv

LEMMA RenameIInv == ASSUME IInv, rename PROVE IInv'
<1>1. Typed'
  BY Numbers, ZenonT(60) DEF IInv, Typed, SavedSoFar, Creating, rename, Return, HandOut
<1>2. SavedSoFar'
  BY Numbers, ZenonT(60) DEF IInv, Typed, SavedSoFar, Creating, rename, Return, HandOut
<1>3. PathSafe'
  BY Numbers DEF IInv, Typed, SavedSoFar, PathSafe, Creating, rename, Return, HandOut
<1> QED BY <1>1, <1>2, <1>3, ZenonT(60) DEF IInv

LEMMA ExitIInv == ASSUME IInv, exit PROVE IInv'
<1>1. Typed'
  BY Numbers, ZenonT(60) DEF IInv, Typed, Creating, exit, Return
<1>2. SavedSoFar'
  BY Numbers, ZenonT(60) DEF IInv, Typed, SavedSoFar, Creating, exit, Return
<1>3. PathSafe'
  BY Numbers DEF IInv, Typed, SavedSoFar, PathSafe, Creating, exit, Return
<1> QED BY <1>1, <1>2, <1>3, ZenonT(60) DEF IInv

LEMMA CrashIInv == ASSUME IInv, crash PROVE IInv'
<1>1. Typed'
  BY Numbers, ZenonT(60) DEF IInv, Typed, Creating, crash, Return
<1>2. SavedSoFar'
  BY Numbers DEF IInv, Typed, SavedSoFar, Creating, crash, Return
<1>3. PathSafe'
  BY Numbers, ZenonT(60) DEF IInv, Typed, SavedSoFar, PathSafe, Creating, crash, Return
<1> QED BY <1>1, <1>2, <1>3, ZenonT(60) DEF IInv

LEMMA StepIInv == IInv /\ [IdNext]_ivars => IInv'
<1> SUFFICES ASSUME IInv, [IdNext]_ivars PROVE IInv'
  BY ZenonT(60)
<1>1. CASE UNCHANGED ivars
  BY <1>1, ZenonT(60) DEF ivars, IInv, Typed, SavedSoFar, PathSafe
<1>2. CASE IdNext
  BY <1>2, LoadIInv, KeygenIInv, WriteIInv, FsyncIInv, RenameIInv, ExitIInv, CrashIInv, ZenonT(60)
     DEF IdNext
<1> QED BY <1>1, <1>2, ZenonT(60)

\* For any number of starts, failures and crashes, sl_identity_file_load_or_create hands
\* out the identity it handed out first, and path never names half a file, unless a file
\* could not be read, a fsync failed unnoticed or a crash undid a rename.
THEOREM IdentityLasts == IdSpec => []IdentityKept
<1>1. IInv => IdentityKept
  BY DEF IInv, PathSafe, IdentityKept
<1> QED BY InitIInv, StepIInv, <1>1, PTL DEF IdSpec
-------------------------------------------------------------------------------
Names == Inodes \cup {NoInode}
Labels == Parts \cup {"idle", "open", "fsync", "rename"}

\* The types of SnapshotFile's variables; path is among the names it has had.
SnapTyped ==
    /\ version \in 1..MaxVersion /\ saved \in Nat
    /\ renamed \subseteq Names /\ snap \in renamed /\ snap_tmp \in Names
    /\ durable \subseteq Inodes
    /\ data \in [Inodes -> [Parts -> Nat]]
    /\ pc \in [Savers -> Labels] /\ ver \in [Savers -> Nat] /\ fd \in [Savers -> Names]
    /\ rpc \in [Readers -> Parts \cup {"idle", "open"}] /\ rfd \in [Readers -> Names]
    /\ \A s \in Savers : pc[s] \in Parts \cup {"fsync"} => fd[s] \in Inodes
    /\ \A r \in Readers : rpc[r] \in Parts => rfd[r] \in Inodes
    /\ got \in [Readers -> [Parts -> Nat]]
    /\ floor \in [Readers -> Nat] /\ size \in [Readers -> Nat]

Holding == Parts \cup {"fsync", "rename"}
\* One save at a time: path.tmp exists only while it is under way, is a file that
\* path never named, and holds the version that is being saved, as far as it is written.
TmpOwned ==
    /\ \A s, t \in Savers : pc[s] # "idle" /\ pc[t] # "idle" => s = t
    /\ snap_tmp # NoInode => \E s \in Savers : pc[s] \in Holding
    /\ \A s \in Savers :
           /\ pc[s] # "idle" => ver[s] \in 1..version /\ saved <= ver[s]
           /\ pc[s] \in Holding => snap_tmp \in Inodes \ renamed
           /\ pc[s] \in Holding \ {"rename"} => fd[s] = snap_tmp
           /\ pc[s] \in Holding \ {"header"} => data[snap_tmp].header = ver[s]
           /\ pc[s] \in {"crc", "fsync", "rename"} => data[snap_tmp].payload = ver[s]
           /\ pc[s] \in {"fsync", "rename"} => data[snap_tmp].crc = ver[s]
           /\ pc[s] = "rename" => snap_tmp \in durable

\* Every file path has named since the last crash is whole and safe from the next
\* one, and path is at least as new as the last save that returned.
FilesWhole ==
    /\ saved <= version
    /\ \A i \in renamed \ {NoInode} :
           /\ i \in durable /\ data[i].header \in 1..version
           /\ \A k \in Parts : data[i][k] = data[i].header
    /\ IF snap = NoInode THEN saved = 0 ELSE saved <= data[snap].header

\* A restore under way reads such a file, as new as the last save before it began.
ReadsFresh ==
    \A r \in Readers :
        /\ rpc[r] = "open" => floor[r] <= saved
        /\ rpc[r] \in Parts => rfd[r] \in renamed /\ floor[r] <= data[rfd[r]].header
        /\ rpc[r] \in {"crc", "header"} => got[r].payload = data[rfd[r]].payload

\* The inductive invariant of SnapshotFile.
SnapInv ==
    /\ SnapTyped
    /\ clean => TmpOwned /\ FilesWhole /\ ReadsFresh
    /\ ~mixed /\ ~stale

\* No file and no save yet.
LEMMA SnapInitInv == SnapInit => SnapInv
<1> SUFFICES ASSUME SnapInit PROVE SnapInv
  BY ZenonT(60)
<1> USE SnapshotAssumption DEF SnapInit, NoInode, Hole
<1>1. SnapTyped
  BY SMTT(60) DEF SnapTyped, Names, Labels, Parts, Blank
<1>2. TmpOwned
  BY ZenonT(60) DEF TmpOwned, Holding, Parts
<1>3. FilesWhole
  BY SMTT(60) DEF FilesWhole
<1>4. ReadsFresh
  BY DEF ReadsFresh, Parts
<1>5. ~mixed /\ ~stale
  BY Zenon
<1> QED BY <1>1, <1>2, <1>3, <1>4, <1>5, Zenon DEF SnapInv

\* A restore is not disturbed as long as the files path has named stay as they are.
LEMMA ReadsKept ==
    ASSUME SnapTyped, ReadsFresh, UNCHANGED reader, renamed \subseteq renamed',
           saved <= saved', saved' \in Nat, \A i \in renamed \ {NoInode} : data'[i] = data[i]
    PROVE  ReadsFresh'
<1>1. \A r \in Readers : rpc[r] \in Parts =>
          rfd[r] \in renamed \ {NoInode} /\ data'[rfd[r]] = data[rfd[r]]
  BY SnapshotAssumption, SMTT(60) DEF SnapTyped, ReadsFresh, NoInode, Inodes
<1>2. rpc' = rpc /\ rfd' = rfd /\ got' = got /\ floor' = floor
  BY ZenonT(60) DEF reader
<1>3. \A r \in Readers : rpc[r] = "open" => floor[r] <= saved'
  BY SMTT(60) DEF SnapTyped, ReadsFresh
<1>4. "crc" \in Parts /\ "header" \in Parts
  BY ZenonT(60) DEF Parts
<1> QED BY <1>1, <1>2, <1>3, <1>4, ZenonT(60) DEF ReadsFresh

\* Neither are the files.
LEMMA FilesKept ==
    ASSUME SnapTyped, FilesWhole, UNCHANGED <<snap, saved, renamed>>,
           version' \in Nat, version <= version',
           \A i \in renamed \ {NoInode} : data'[i] = data[i] /\ (i \in durable => i \in durable')
    PROVE  FilesWhole'
<1>1. \A i \in renamed \ {NoInode} : data'[i] = data[i] /\ i \in durable'
  BY ZenonT(60) DEF FilesWhole
<1>2. snap # NoInode => data'[snap] = data[snap]
  BY ZenonT(60) DEF SnapTyped
<1>3. saved <= version' /\ \A n : n \in 1..version => n \in 1..version'
  BY DEF SnapTyped, FilesWhole
<1> QED BY <1>1, <1>2, <1>3, SMTT(60) DEF FilesWhole

\* What all steps of savers have in common.
LEMMA SaverStep ==
    ASSUME SnapInv, UNCHANGED reader, clean' => clean, SnapTyped',
           clean => /\ TmpOwned'
                    /\ saved <= saved' /\ renamed \subseteq renamed'
                    /\ \A i \in renamed \ {NoInode} : data'[i] = data[i]
                    /\ FilesWhole'
    PROVE  SnapInv'
<1>1. mixed' = mixed /\ stale' = stale
  BY DEF reader
<1>2. ASSUME clean PROVE ReadsFresh'
  <2>1. saved' \in Nat
    BY DEF SnapTyped
  <2> QED BY <1>2, <2>1, ReadsKept, Zenon DEF SnapInv
<1> QED BY <1>1, <1>2, Zenon DEF SnapInv

\* The component that is saved moves on; what was saved stays.
LEMMA ChangeInv == ASSUME SnapInv, Change PROVE SnapInv'
<1>1. /\ version' = version + 1 /\ version' \in 1..MaxVersion
      /\ UNCHANGED <<snap, snap_tmp, data, durable, renamed, saver, reader>>
  BY SnapshotAssumption, SMTT(60) DEF Change, SnapInv, SnapTyped
<1>2. SnapTyped'
  BY <1>1, ZenonT(60) DEF SnapInv, SnapTyped, saver, reader
<1>3. ASSUME clean PROVE TmpOwned'
  <2>1. TmpOwned /\ \A n : n \in 1..version => n \in 1..version'
    BY <1>1, <1>3, SMTT(60) DEF SnapInv, SnapTyped
  <2>2. UNCHANGED <<pc, ver, fd, saved, snap_tmp, data, durable, renamed>>
    BY <1>1, ZenonT(60) DEF saver
  <2> QED BY <2>1, <2>2, ZenonT(60) DEF TmpOwned
<1>4. ASSUME clean PROVE FilesWhole'
  <2>1. version' \in Nat /\ version <= version' /\ UNCHANGED <<snap, saved, renamed, data, durable>>
    BY <1>1 DEF SnapInv, SnapTyped, saver
  <2>2. SnapTyped /\ FilesWhole
    BY <1>4, Zenon DEF SnapInv
  <2> QED BY <2>1, <2>2, FilesKept, ZenonT(60)
<1>5. UNCHANGED <<reader, data, renamed, saved, clean>>
  BY <1>1, ZenonT(60) DEF saver
<1>6. saved <= saved'
  BY <1>5 DEF SnapInv, SnapTyped
<1> QED BY <1>2, <1>3, <1>4, <1>5, <1>6, SaverStep, Zenon

\* A save begins with the present version, which is no older than the last one saved.
LEMMA SerializeInv == ASSUME SnapInv, NEW s \in Savers, Serialize(s) PROVE SnapInv'
<1>1. /\ pc[s] = "idle" /\ pc' = [pc EXCEPT ![s] = "open"] /\ ver' = [ver EXCEPT ![s] = version]
      /\ UNCHANGED <<version, snap, snap_tmp, data, durable, renamed, fd, saved, reader>>
  BY ZenonT(60) DEF Serialize, Goto
<1>2. SnapTyped'
  BY <1>1 DEF SnapInv, SnapTyped, Labels, Parts, reader
<1>3. clean' => clean /\ \A t \in Savers : pc[t] = "idle"
  BY Zenon DEF Serialize
<1>4. ASSUME clean' PROVE TmpOwned'
  <2>1. TmpOwned /\ FilesWhole /\ SnapTyped /\ \A t \in Savers : pc[t] = "idle"
    BY <1>3, <1>4, Zenon DEF SnapInv
  <2>2. snap_tmp = NoInode
    BY <2>1, ZenonT(60) DEF TmpOwned, Holding, Parts
  <2>3. \A t \in Savers : /\ pc'[t] = IF t = s THEN "open" ELSE "idle"
                          /\ ver'[t] = IF t = s THEN version ELSE ver[t]
    BY <1>1, <2>1, ZenonT(60) DEF SnapTyped
  <2>4. version \in 1..version /\ saved <= version
    BY <2>1, SMTT(60) DEF SnapTyped, FilesWhole
  <2> QED BY <1>1, <2>2, <2>3, <2>4, SMTT(60) DEF TmpOwned, Holding, Parts
<1>5. ASSUME clean' PROVE FilesWhole'
  <2>1. SnapTyped /\ FilesWhole
    BY <1>3, <1>5, Zenon DEF SnapInv
  <2> QED BY <1>1, <2>1, ZenonT(60) DEF FilesWhole
<1>6. saved <= saved'
  BY <1>1, SMTT(60) DEF SnapInv, SnapTyped
<1>7. ASSUME clean' PROVE ReadsFresh'
  <2>1. SnapTyped /\ ReadsFresh
    BY <1>3, <1>7, Zenon DEF SnapInv
  <2> QED BY <1>1, <2>1, ZenonT(60) DEF ReadsFresh, reader
<1>8. ~mixed' /\ ~stale'
  BY <1>1, Zenon DEF SnapInv, reader
<1> QED BY <1>2, <1>4, <1>5, <1>7, <1>8, Zenon DEF SnapInv

\* fopen of path.tmp: when only this save is under way there was none, so the
\* file is new.
LEMMA OpenTmpInv == ASSUME SnapInv, NEW s \in Savers, OpenTmp(s) PROVE SnapInv'
<1>1. PICK i \in Names : /\ i \in IF snap_tmp = NoInode THEN Free ELSE {snap_tmp}
                         /\ snap_tmp' = i /\ fd' = [fd EXCEPT ![s] = i]
                         /\ data' = [data EXCEPT ![i] = Blank] /\ durable' = durable \ {i}
  BY ZenonT(60) DEF OpenTmp, Free, SnapInv, SnapTyped, Names
<1>2. /\ pc[s] = "open" /\ pc' = [pc EXCEPT ![s] = "header"]
      /\ UNCHANGED <<version, snap, renamed, ver, saved, clean, reader>>
  BY ZenonT(60) DEF OpenTmp, Goto
<1>3. i \in Inodes
  BY <1>1, ZenonT(60) DEF Free, Names
<1>4. SnapTyped'
  <2>1. Blank \in [Parts -> Nat]
    BY SMTT(60) DEF Blank, Hole
  <2>2. data' \in [Inodes -> [Parts -> Nat]]
    BY <1>1, <2>1, ZenonT(60) DEF SnapInv, SnapTyped
  <2>3. fd' \in [Savers -> Names] /\ pc' \in [Savers -> Labels]
    BY <1>1, <1>2, ZenonT(60) DEF SnapInv, SnapTyped, Labels, Parts
  <2>4. \A t \in Savers : pc'[t] \in Parts \cup {"fsync"} => fd'[t] \in Inodes
    BY <1>1, <1>2, <1>3, ZenonT(60) DEF SnapInv, SnapTyped
  <2> QED BY <1>1, <1>2, <2>2, <2>3, <2>4, ZenonT(60) DEF SnapInv, SnapTyped, reader
<1>5. ASSUME clean PROVE /\ TmpOwned' /\ i \notin renamed
  <2>1. TmpOwned /\ SnapTyped
    BY <1>5, Zenon DEF SnapInv
  <2>2. \A t \in Savers : t # s => pc[t] = "idle"
    BY <1>2, <2>1, Zenon DEF TmpOwned
  <2>3. snap_tmp = NoInode
    BY <1>2, <2>1, <2>2, ZenonT(60) DEF TmpOwned, Holding, Parts
  <2>4. i \notin renamed
    BY <1>1, <2>3, ZenonT(60) DEF Free
  <2>5. \A t \in Savers : /\ pc'[t] = IF t = s THEN "header" ELSE "idle"
                          /\ fd'[t] = IF t = s THEN i ELSE fd[t]
    BY <1>1, <1>2, <2>1, <2>2, ZenonT(60) DEF SnapTyped
  <2> QED BY <1>1, <1>2, <1>3, <2>1, <2>4, <2>5 DEF TmpOwned, Holding, Parts
<1>6. ASSUME clean
      PROVE  \A j \in renamed \ {NoInode} : data'[j] = data[j] /\ (j \in durable => j \in durable')
  BY <1>1, <1>5, <1>6, ZenonT(60) DEF SnapInv, SnapTyped, Names
<1>7. ASSUME clean PROVE FilesWhole'
  <2>1. version' \in Nat /\ version <= version' /\ UNCHANGED <<snap, saved, renamed>>
    BY <1>2 DEF SnapInv, SnapTyped
  <2>2. SnapTyped /\ FilesWhole
    BY <1>7, Zenon DEF SnapInv
  <2> QED BY <1>6, <1>7, <2>1, <2>2, FilesKept, Zenon
<1>8. saved <= saved'
  BY <1>2 DEF SnapInv, SnapTyped
<1> QED BY <1>2, <1>4, <1>5, <1>6, <1>7, <1>8, SaverStep, Zenon

\* A write adds the next part of the version to path.tmp, which is no file a restore reads.
LEMMA WriteInv == ASSUME SnapInv, NEW s \in Savers, Write(s) PROVE SnapInv'
<1>1. PICK i \in Inodes : i = fd[s]
  BY ZenonT(60) DEF Write, SnapInv, SnapTyped
<1>2. PICK k \in Parts : k = pc[s]
  BY ZenonT(60) DEF Write
<1>3. /\ pc' = [pc EXCEPT ![s] = After[k]]
      /\ data' = [data EXCEPT ![i] = [data[i] EXCEPT ![k] = ver[s]]] /\ durable' = durable \ {i}
      /\ UNCHANGED <<version, snap, snap_tmp, renamed, ver, fd, saved, clean, reader>>
  BY <1>1, <1>2, ZenonT(60) DEF Write, Goto
<1>4. /\ After[k] \in Labels /\ After[k] \in {"payload", "crc", "fsync"}
      /\ After[k] = "payload" => k = "header"
      /\ After[k] = "crc" => k = "payload"
      /\ After[k] = "fsync" => k = "crc"
  BY <1>2, SMTT(60) DEF After, Parts, Labels
<1>5. SnapTyped'
  <2>1. [data[i] EXCEPT ![k] = ver[s]] \in [Parts -> Nat]
    BY ZenonT(60) DEF SnapInv, SnapTyped
  <2>2. data' \in [Inodes -> [Parts -> Nat]]
    BY <1>3, <2>1, ZenonT(60) DEF SnapInv, SnapTyped
  <2>3. pc' \in [Savers -> Labels]
    BY <1>3, <1>4, ZenonT(60) DEF SnapInv, SnapTyped
  <2>4. \A t \in Savers : pc'[t] \in Parts \cup {"fsync"} => fd'[t] \in Inodes
    BY <1>1, <1>3, ZenonT(60) DEF SnapInv, SnapTyped
  <2> QED BY <1>3, <2>2, <2>3, <2>4, SMTT(60) DEF SnapInv, SnapTyped, reader
<1>6. ASSUME clean PROVE TmpOwned' /\ i \notin renamed
  <2>1. TmpOwned /\ SnapTyped
    BY <1>6, Zenon DEF SnapInv
  <2>2. pc[s] # "idle" /\ pc[s] \in Holding /\ pc[s] # "rename"
    BY <1>2 DEF Parts, Holding
  <2>3. \A t \in Savers : t # s => pc[t] = "idle"
    BY <2>1, <2>2, Zenon DEF TmpOwned
  <2>4. i = snap_tmp /\ i \notin renamed
    BY <1>1, <2>1, <2>2, ZenonT(60) DEF TmpOwned
  <2>5. \A t \in Savers : pc'[t] = IF t = s THEN After[k] ELSE "idle"
    BY <1>3, <2>1, <2>3, ZenonT(60) DEF SnapTyped
  <2>6. data'[i][k] = ver[s] /\ \A j \in Parts \ {k} : data'[i][j] = data[i][j]
    BY <1>3, <2>1, ZenonT(60) DEF SnapTyped
  <2>7. /\ k # "header" => data[i].header = ver[s]
        /\ k = "crc" => data[i].payload = ver[s]
    BY <1>2, <2>1, <2>2, <2>4, SMTT(60) DEF TmpOwned
  <2>8. /\ data'[i].header = ver[s]
        /\ After[k] \in {"crc", "fsync"} => data'[i].payload = ver[s]
        /\ After[k] = "fsync" => data'[i].crc = ver[s]
    BY <1>4, <2>6, <2>7, SMTT(60) DEF Parts
  <2>9. ver[s] \in 1..version /\ saved <= ver[s]
    BY <2>1, <2>2, ZenonT(60) DEF TmpOwned
  <2>11. "idle" \notin Holding
    BY ZenonT(60) DEF Holding, Parts
  <2>12. \A t \in Savers : pc'[t] # "idle" => t = s
    BY <2>5, ZenonT(60)
  <2>13. After[k] \in Holding \ {"header"} /\ After[k] # "rename"
    BY <1>4, ZenonT(60) DEF Holding, Parts
  <2>14. ASSUME NEW t \in Savers
         PROVE  /\ pc'[t] # "idle" => ver'[t] \in 1..version' /\ saved' <= ver'[t]
                /\ pc'[t] \in Holding => snap_tmp' \in Inodes \ renamed'
                /\ pc'[t] \in Holding \ {"rename"} => fd'[t] = snap_tmp'
                /\ pc'[t] \in Holding \ {"header"} => data'[snap_tmp'].header = ver'[t]
                /\ pc'[t] \in {"crc", "fsync", "rename"} => data'[snap_tmp'].payload = ver'[t]
                /\ pc'[t] \in {"fsync", "rename"} => data'[snap_tmp'].crc = ver'[t]
                /\ pc'[t] = "rename" => snap_tmp' \in durable'
    <3>1. CASE t = s
      BY <1>1, <1>3, <2>4, <2>5, <2>8, <2>9, <2>13, <3>1, ZenonT(60)
    <3>2. CASE t # s
      BY <2>5, <2>11, <3>2, ZenonT(60)
    <3> QED BY <3>1, <3>2, ZenonT(60)
  <2>15. \E t \in Savers : pc'[t] \in Holding
    BY <2>5, <2>13, ZenonT(60)
  <2>16. \A t, u \in Savers : pc'[t] # "idle" /\ pc'[u] # "idle" => t = u
    BY <2>12, ZenonT(60)
  <2> QED BY <2>4, <2>14, <2>15, <2>16, ZenonT(60) DEF TmpOwned
<1>7. ASSUME clean
      PROVE  \A j \in renamed \ {NoInode} : data'[j] = data[j] /\ (j \in durable => j \in durable')
  BY <1>3, <1>6, <1>7, ZenonT(60) DEF SnapInv, SnapTyped, Names
<1>8. ASSUME clean PROVE FilesWhole'
  <2>1. version' \in Nat /\ version <= version' /\ UNCHANGED <<snap, saved, renamed>>
    BY <1>3 DEF SnapInv, SnapTyped
  <2>2. SnapTyped /\ FilesWhole
    BY <1>8, Zenon DEF SnapInv
  <2> QED BY <1>7, <1>8, <2>1, <2>2, FilesKept, Zenon
<1>9. saved <= saved'
  BY <1>3 DEF SnapInv, SnapTyped
<1> QED BY <1>3, <1>5, <1>6, <1>7, <1>8, <1>9, SaverStep, Zenon

\* A save that fails unlinks path.tmp; no file path has named is touched.
LEMMA SaveFailsInv == ASSUME SnapInv, NEW s \in Savers, SaveFails(s) PROVE SnapInv'
<1>1. PICK held : /\ {snap} \cup renamed \subseteq held
                  /\ data' = [i \in Inodes |-> IF i \in held THEN data[i] ELSE Blank]
                  /\ durable' = durable \cap held
  BY ZenonT(60) DEF SaveFails
<1>2. /\ pc[s] \in Parts \cup {"fsync"} /\ pc' = [pc EXCEPT ![s] = "idle"] /\ snap_tmp' = NoInode
      /\ fd' = [fd EXCEPT ![s] = NoInode] /\ ver' = [ver EXCEPT ![s] = Hole]
      /\ UNCHANGED <<version, snap, renamed, saved, clean, reader>>
  BY DEF SaveFails, Goto
<1>3. SnapTyped'
  <2>1. Blank \in [Parts -> Nat] /\ Hole \in Nat
    BY ZenonT(60) DEF Blank, Hole
  <2>2. data' \in [Inodes -> [Parts -> Nat]]
    BY <1>1, <2>1, ZenonT(60) DEF SnapInv, SnapTyped
  <2>3. fd' \in [Savers -> Names] /\ pc' \in [Savers -> Labels] /\ ver' \in [Savers -> Nat]
    BY <1>2, <2>1, ZenonT(60) DEF SnapInv, SnapTyped, Labels, Names
  <2>4. \A t \in Savers : pc'[t] \in Parts \cup {"fsync"} => fd'[t] \in Inodes
    BY <1>2, ZenonT(60) DEF SnapInv, SnapTyped, Parts
  <2> QED BY <1>1, <1>2, <2>2, <2>3, <2>4, ZenonT(60) DEF SnapInv, SnapTyped, reader, Names
<1>4. ASSUME clean PROVE TmpOwned'
  <2>1. TmpOwned /\ SnapTyped
    BY <1>4, Zenon DEF SnapInv
  <2>2. pc[s] # "idle"
    BY <1>2 DEF Parts
  <2>3. \A t \in Savers : t # s => pc[t] = "idle"
    BY <2>1, <2>2, Zenon DEF TmpOwned
  <2>4. \A t \in Savers : pc'[t] = "idle"
    BY <1>2, <2>1, <2>3, ZenonT(60) DEF SnapTyped
  <2> QED BY <1>2, <2>4 DEF TmpOwned, Holding, Parts
<1>5. \A j \in renamed \ {NoInode} : data'[j] = data[j] /\ (j \in durable => j \in durable')
  BY <1>1 DEF SnapInv, SnapTyped, Names
<1>6. ASSUME clean PROVE FilesWhole'
  <2>1. version' \in Nat /\ version <= version' /\ UNCHANGED <<snap, saved, renamed>>
    BY <1>2 DEF SnapInv, SnapTyped
  <2>2. SnapTyped /\ FilesWhole
    BY <1>6, Zenon DEF SnapInv
  <2> QED BY <1>5, <2>1, <2>2, FilesKept, Zenon
<1>7. saved <= saved'
  BY <1>2 DEF SnapInv, SnapTyped
<1> QED BY <1>2, <1>3, <1>4, <1>5, <1>6, <1>7, SaverStep, Zenon

\* A failing fsync ends the circumstances the invariant is about.
LEMMA FsyncFailsInv == ASSUME SnapInv, NEW s \in Savers, FsyncFails(s) PROVE SnapInv'
<1>1. /\ pc' = [pc EXCEPT ![s] = "rename"] /\ fd' = [fd EXCEPT ![s] = NoInode]
      /\ UNCHANGED <<version, snap, snap_tmp, data, durable, renamed, ver, saved, reader>>
  BY ZenonT(60) DEF FsyncFails, FsyncSkipped, Goto
<1>2. SnapTyped'
  BY <1>1, ZenonT(60) DEF SnapInv, SnapTyped, Labels, Names, Parts, reader
<1>3. ~clean' /\ ~mixed' /\ ~stale'
  BY <1>1, Zenon DEF FsyncFails, SnapInv, reader
<1> QED BY <1>2, <1>3, Zenon DEF SnapInv

\* fsync: path.tmp is complete, and now safe from a crash.
LEMMA FsyncInv == ASSUME SnapInv, NEW s \in Savers, Fsync(s) PROVE SnapInv'
<1>1. /\ pc[s] = "fsync" /\ pc' = [pc EXCEPT ![s] = "rename"]
      /\ durable' = durable \cup {fd[s]} /\ fd' = [fd EXCEPT ![s] = NoInode]
      /\ UNCHANGED <<version, snap, snap_tmp, data, renamed, ver, saved, clean, reader>>
  BY ZenonT(60) DEF Fsync, Goto
<1>2. SnapTyped'
  BY <1>1 DEF SnapInv, SnapTyped, Labels, Names, Parts, reader
<1>3. ASSUME clean PROVE TmpOwned'
  <2>1. TmpOwned /\ SnapTyped
    BY <1>3, Zenon DEF SnapInv
  <2>2. \A t \in Savers : t # s => pc[t] = "idle"
    BY <1>1, <2>1, ZenonT(60) DEF TmpOwned
  <2>3. \A t \in Savers : pc'[t] = IF t = s THEN "rename" ELSE "idle"
    BY <1>1, <2>1, <2>2, ZenonT(60) DEF SnapTyped
  <2>4. /\ fd[s] = snap_tmp /\ snap_tmp \in Inodes \ renamed
        /\ ver[s] \in 1..version /\ saved <= ver[s]
        /\ data[snap_tmp].header = ver[s] /\ data[snap_tmp].payload = ver[s]
        /\ data[snap_tmp].crc = ver[s]
    BY <1>1, <2>1, ZenonT(60) DEF TmpOwned, Holding
  <2>5. "idle" \notin Holding /\ "rename" \in Holding
    BY ZenonT(60) DEF Holding, Parts
  <2>6. ASSUME NEW t \in Savers
        PROVE  /\ pc'[t] # "idle" => ver'[t] \in 1..version' /\ saved' <= ver'[t]
               /\ pc'[t] \in Holding => snap_tmp' \in Inodes \ renamed'
               /\ pc'[t] \in Holding \ {"rename"} => fd'[t] = snap_tmp'
               /\ pc'[t] \in Holding \ {"header"} => data'[snap_tmp'].header = ver'[t]
               /\ pc'[t] \in {"crc", "fsync", "rename"} => data'[snap_tmp'].payload = ver'[t]
               /\ pc'[t] \in {"fsync", "rename"} => data'[snap_tmp'].crc = ver'[t]
               /\ pc'[t] = "rename" => snap_tmp' \in durable'
    <3>1. CASE t = s
      BY <1>1, <2>3, <2>4, <3>1, ZenonT(60)
    <3>2. CASE t # s
      BY <2>3, <2>5, <3>2, ZenonT(60)
    <3> QED BY <3>1, <3>2, ZenonT(60)
  <2>7. \E t \in Savers : pc'[t] \in Holding
    BY <2>3, <2>5, ZenonT(60)
  <2>8. \A t, u \in Savers : pc'[t] # "idle" /\ pc'[u] # "idle" => t = u
    BY <2>3, ZenonT(60)
  <2> QED BY <2>6, <2>7, <2>8, ZenonT(60) DEF TmpOwned
<1>4. \A j \in renamed \ {NoInode} : data'[j] = data[j] /\ (j \in durable => j \in durable')
  BY <1>1
<1>5. ASSUME clean PROVE FilesWhole'
  <2>1. version' \in Nat /\ version <= version' /\ UNCHANGED <<snap, saved, renamed>>
    BY <1>1 DEF SnapInv, SnapTyped
  <2>2. SnapTyped /\ FilesWhole
    BY <1>5, Zenon DEF SnapInv
  <2> QED BY <1>4, <2>1, <2>2, FilesKept, Zenon
<1>6. saved <= saved'
  BY <1>1 DEF SnapInv, SnapTyped
<1> QED BY <1>1, <1>2, <1>3, <1>4, <1>5, <1>6, SaverStep, Zenon

\* rename: path names a whole file, at least as new as the last one.
LEMMA RenameInv == ASSUME SnapInv, NEW s \in Savers, Rename(s) PROVE SnapInv'
<1>1. /\ pc[s] = "rename" /\ pc' = [pc EXCEPT ![s] = "idle"] /\ snap_tmp' = NoInode
      /\ snap' = (IF snap_tmp = NoInode THEN snap ELSE snap_tmp)
      /\ saved' = (IF snap_tmp = NoInode THEN saved ELSE ver[s])
      /\ renamed' = renamed \cup {snap'} /\ ver' = [ver EXCEPT ![s] = Hole]
      /\ UNCHANGED <<version, data, durable, fd, clean, reader>>
  BY ZenonT(60) DEF Rename, Goto
<1>2. SnapTyped'
  <2>1. saved' \in Nat /\ snap' \in Names
    BY <1>1, ZenonT(60) DEF SnapInv, SnapTyped
  <2> QED BY <1>1, <2>1, ZenonT(60) DEF SnapInv, SnapTyped, Labels, Names, Parts, Hole, reader
<1>3. ASSUME clean PROVE /\ TmpOwned' /\ FilesWhole' /\ saved <= saved'
  <2>1. TmpOwned /\ SnapTyped /\ FilesWhole
    BY <1>3, Zenon DEF SnapInv
  <2>2. \A t \in Savers : t # s => pc[t] = "idle"
    BY <1>1, <2>1, ZenonT(60) DEF TmpOwned
  <2>3. \A t \in Savers : pc'[t] = "idle"
    BY <1>1, <2>1, <2>2, ZenonT(60) DEF SnapTyped
  <2>4. /\ snap_tmp \in Inodes \ renamed /\ snap_tmp \in durable
        /\ ver[s] \in 1..version /\ saved <= ver[s]
        /\ data[snap_tmp].header = ver[s] /\ data[snap_tmp].payload = ver[s]
        /\ data[snap_tmp].crc = ver[s]
    BY <1>1, <2>1, SMTT(60) DEF TmpOwned, Holding
  <2>5. snap_tmp # NoInode
    BY <2>4, SnapshotAssumption, SMTT(60) DEF Inodes, NoInode
  <2>6. snap' = snap_tmp /\ saved' = ver[s] /\ renamed' = renamed \cup {snap_tmp}
    BY <1>1, <2>5, ZenonT(60)
  <2>7. "idle" \notin Holding
    BY ZenonT(60) DEF Holding, Parts
  <2>8. TmpOwned'
    BY <1>1, <2>3, <2>7, SMTT(60) DEF TmpOwned
  <2>9. \A k \in Parts : data[snap_tmp][k] = data[snap_tmp].header
    BY <2>4, SMTT(60) DEF Parts
  <2>10. ver[s] <= version
    BY <2>1, <2>4, SMTT(60) DEF SnapTyped
  <2>11. ver[s] <= data[snap_tmp].header
    BY <2>1, <2>4, SMTT(60) DEF SnapTyped
  <2>12. ASSUME NEW i \in renamed' \ {NoInode}
         PROVE  /\ i \in durable /\ data[i].header \in 1..version
                /\ \A k \in Parts : data[i][k] = data[i].header
    <3>1. CASE i = snap_tmp
      BY <2>4, <2>9, <3>1, ZenonT(60)
    <3>2. CASE i \in renamed
      BY <2>1, <3>2, ZenonT(60) DEF FilesWhole
    <3> QED BY <2>6, <3>1, <3>2, ZenonT(60)
  <2>13. FilesWhole'
    BY <1>1, <2>5, <2>6, <2>10, <2>11, <2>12, ZenonT(60) DEF FilesWhole
  <2> QED BY <2>4, <2>6, <2>8, <2>13, ZenonT(60)
<1>4. \A j \in renamed \ {NoInode} : data'[j] = data[j]
  BY <1>1, ZenonT(60)
<1>5. renamed \subseteq renamed'
  BY <1>1
<1> QED BY <1>1, <1>2, <1>3, <1>4, <1>5, SaverStep, Zenon

\* What all steps of restores have in common.
LEMMA ReaderStep ==
    ASSUME SnapInv, UNCHANGED <<version, snap, snap_tmp, data, durable, renamed, saver>>,
           SnapTyped', clean => ReadsFresh', ~mixed' /\ ~stale'
    PROVE  SnapInv'
<1>1. UNCHANGED <<version, snap, snap_tmp, data, durable, renamed, pc, ver, fd, saved, clean>>
  BY DEF saver
<1>2. TmpOwned' <=> TmpOwned
  BY <1>1, Zenon DEF TmpOwned
<1>3. FilesWhole' <=> FilesWhole
  BY <1>1, Zenon DEF FilesWhole
<1>4. clean' = clean
  BY <1>1
<1> QED BY <1>2, <1>3, <1>4, Zenon DEF SnapInv

\* A restore that ends, with one version as it was saved or with none, and not with
\* less than what was saved when it began.
LEMMA DoneInv ==
    ASSUME SnapInv, NEW r \in Readers, NEW what, NEW parts, NEW since, Done(r, what, parts, since),
           UNCHANGED <<version, snap, snap_tmp, data, durable, renamed, saver>>,
           what \in 1..MaxVersion => parts = [k \in Parts |-> what],
           clean /\ what # Failed => ~(what < since)
    PROVE  SnapInv'
<1>1. /\ rpc' = [rpc EXCEPT ![r] = "idle"] /\ size' = [size EXCEPT ![r] = 0]
      /\ floor' = [floor EXCEPT ![r] = 0] /\ got' = [got EXCEPT ![r] = Blank]
      /\ rfd' = [rfd EXCEPT ![r] = NoInode]
  BY DEF Done, RGoto
<1>2. ~mixed' /\ ~stale'
  BY Zenon DEF Done, SnapInv
<1>3. UNCHANGED <<version, snap, snap_tmp, data, durable, renamed, pc, ver, fd, saved, clean>>
  BY ZenonT(60) DEF saver
<1>4. SnapTyped'
  <2>1. Blank \in [Parts -> Nat] /\ NoInode \in Names
    BY ZenonT(60) DEF Blank, Hole, Names
  <2>2. /\ rpc' \in [Readers -> Parts \cup {"idle", "open"}] /\ rfd' \in [Readers -> Names]
        /\ size' \in [Readers -> Nat] /\ floor' \in [Readers -> Nat]
        /\ got' \in [Readers -> [Parts -> Nat]]
    BY <1>1, <2>1, ZenonT(60) DEF SnapInv, SnapTyped
  <2>3. \A q \in Readers : rpc'[q] \in Parts => rfd'[q] \in Inodes
    BY <1>1, ZenonT(60) DEF SnapInv, SnapTyped, Parts
  <2> QED BY <1>3, <2>2, <2>3, ZenonT(60) DEF SnapInv, SnapTyped
<1>5. ASSUME clean PROVE ReadsFresh'
  <2>1. ReadsFresh /\ SnapTyped
    BY <1>5, Zenon DEF SnapInv
  <2>2. \A q \in Readers : q # r => /\ rpc'[q] = rpc[q] /\ rfd'[q] = rfd[q]
                                   /\ floor'[q] = floor[q] /\ got'[q] = got[q]
    BY <1>1, <2>1, ZenonT(60) DEF SnapTyped
  <2>3. rpc'[r] = "idle" /\ "idle" \notin Parts
    BY <1>1, <2>1, ZenonT(60) DEF SnapTyped, Parts
  <2> QED BY <1>3, <2>1, <2>2, <2>3, SMTT(60) DEF ReadsFresh
<1> QED BY <1>2, <1>4, <1>5, ReaderStep, Zenon

\* The length a header announces.
LEMMA SizeNat == ASSUME NEW v \in Nat PROVE Size(v) \in Nat
BY SMTT(60) DEF Size

\* The first pass says that there is nothing only when nothing was saved.
LEMMA ProbeInv == ASSUME SnapInv, NEW r \in Readers, Probe(r) PROVE SnapInv'
<1>1. UNCHANGED <<version, snap, snap_tmp, data, durable, renamed, saver>>
  BY DEF Probe
<1>2. CASE HeaderOf(snap) = Hole
  <2>1. Done(r, Hole, Blank, saved)
    BY <1>2, ZenonT(60) DEF Probe
  <2>2. Hole \notin 1..MaxVersion
    BY SnapshotAssumption, SMTT(60) DEF Hole
  <2>3. ASSUME clean PROVE ~(Hole < saved)
    <3>1. FilesWhole /\ SnapTyped
      BY <2>3, Zenon DEF SnapInv
    <3>2. CASE snap = NoInode
      BY <3>1, <3>2, SMTT(60) DEF FilesWhole, Hole
    <3>3. CASE snap # NoInode
      <4>1. data[snap].header \in 1..version
        BY <3>1, <3>3, ZenonT(60) DEF FilesWhole, SnapTyped
      <4> QED BY <1>2, <3>1, <3>3, <4>1, SMTT(60) DEF HeaderOf, Hole, SnapTyped
    <3> QED BY <3>2, <3>3, ZenonT(60)
  <2> QED BY <1>1, <2>1, <2>2, <2>3, DoneInv, Zenon
<1>3. CASE HeaderOf(snap) # Hole
  <2>1. /\ floor' = [floor EXCEPT ![r] = saved] /\ size' = [size EXCEPT ![r] = Size(HeaderOf(snap))]
        /\ rpc' = [rpc EXCEPT ![r] = "open"] /\ UNCHANGED <<got, rfd, mixed, stale>>
    BY <1>3, ZenonT(60) DEF Probe, RGoto
  <2>2. UNCHANGED <<version, snap, snap_tmp, data, durable, renamed, pc, ver, fd, saved, clean>>
    BY <1>1, ZenonT(60) DEF saver
  <2>3. Size(HeaderOf(snap)) \in Nat
    <3>1. HeaderOf(snap) \in Nat
      BY SMTT(60) DEF HeaderOf, Hole, SnapInv, SnapTyped, Names, Parts
    <3> QED BY <3>1, SizeNat, ZenonT(60)
  <2>4. SnapTyped'
    <3>1. /\ rpc' \in [Readers -> Parts \cup {"idle", "open"}]
          /\ size' \in [Readers -> Nat] /\ floor' \in [Readers -> Nat]
      BY <2>1, <2>3, ZenonT(60) DEF SnapInv, SnapTyped
    <3>2. \A q \in Readers : rpc'[q] \in Parts => rfd'[q] \in Inodes
      BY <2>1, ZenonT(60) DEF SnapInv, SnapTyped, Parts
    <3> QED BY <2>1, <2>2, <3>1, <3>2, ZenonT(60) DEF SnapInv, SnapTyped
  <2>5. ASSUME clean PROVE ReadsFresh'
    <3>1. ReadsFresh /\ SnapTyped
      BY <2>5, Zenon DEF SnapInv
    <3>2. \A q \in Readers : q # r => rpc'[q] = rpc[q] /\ floor'[q] = floor[q]
      BY <2>1, <3>1, ZenonT(60) DEF SnapTyped
    <3>3. rpc'[r] = "open" /\ floor'[r] = saved /\ saved <= saved /\ "open" \notin Parts
      BY <2>1, <3>1, SMTT(60) DEF SnapTyped, Parts
    <3> QED BY <2>1, <2>2, <3>1, <3>2, <3>3, ZenonT(60) DEF ReadsFresh
  <2>6. ~mixed' /\ ~stale'
    BY <2>1, Zenon DEF SnapInv
  <2> QED BY <1>1, <2>4, <2>5, <2>6, ReaderStep, Zenon
<1> QED BY <1>2, <1>3, ZenonT(60)

\* The second pass opens what path names now, and refuses what has outgrown the buffer.
LEMMA ReopenInv == ASSUME SnapInv, NEW r \in Readers, Reopen(r) PROVE SnapInv'
<1>1. /\ rpc[r] = "open"
      /\ UNCHANGED <<version, snap, snap_tmp, data, durable, renamed, saver>>
  BY ZenonT(60) DEF Reopen
<1>2. CASE HeaderOf(snap) = Hole \/ Size(HeaderOf(snap)) > size[r]
  <2>1. Done(r, Failed, Blank, floor[r])
    BY <1>2, Zenon DEF Reopen
  <2>2. Failed \notin 1..MaxVersion
    BY SnapshotAssumption DEF Failed
  <2> QED BY <1>1, <2>1, <2>2, DoneInv, Zenon
<1>3. CASE ~(HeaderOf(snap) = Hole \/ Size(HeaderOf(snap)) > size[r])
  <2>1. /\ rfd' = [rfd EXCEPT ![r] = snap] /\ size' = [size EXCEPT ![r] = Size(HeaderOf(snap))]
        /\ rpc' = [rpc EXCEPT ![r] = "payload"] /\ UNCHANGED <<got, floor, mixed, stale>>
    BY <1>3, Zenon DEF Reopen, RGoto
  <2>2. UNCHANGED <<version, snap, snap_tmp, data, durable, renamed, pc, ver, fd, saved, clean>>
    BY <1>1, ZenonT(60) DEF saver
  <2>3. snap # NoInode
    BY <1>3, ZenonT(60) DEF HeaderOf
  <2>4. snap \in Inodes /\ Size(HeaderOf(snap)) \in Nat
    <3>1. snap \in Inodes
      BY <2>3, ZenonT(60) DEF SnapInv, SnapTyped, Names
    <3>2. HeaderOf(snap) \in Nat
      BY <3>1, <2>3, SMTT(60) DEF HeaderOf, SnapInv, SnapTyped, Parts
    <3> QED BY <3>1, <3>2, SizeNat, ZenonT(60)
  <2>5. SnapTyped'
    <3>1. /\ rpc' \in [Readers -> Parts \cup {"idle", "open"}]
          /\ size' \in [Readers -> Nat] /\ rfd' \in [Readers -> Names]
      BY <2>1, <2>4, ZenonT(60) DEF SnapInv, SnapTyped, Names, Parts
    <3>2. \A q \in Readers : rpc'[q] \in Parts => rfd'[q] \in Inodes
      BY <2>1, <2>4, ZenonT(60) DEF SnapInv, SnapTyped
    <3> QED BY <2>1, <2>2, <3>1, <3>2, ZenonT(60) DEF SnapInv, SnapTyped
  <2>6. ASSUME clean PROVE ReadsFresh'
    <3>1. ReadsFresh /\ SnapTyped /\ FilesWhole
      BY <2>6, Zenon DEF SnapInv
    <3>2. \A q \in Readers : q # r => rpc'[q] = rpc[q] /\ rfd'[q] = rfd[q]
      BY <2>1, <3>1, ZenonT(60) DEF SnapTyped
    <3>3. rpc'[r] = "payload" /\ rfd'[r] = snap /\ snap \in renamed
      BY <2>1, <3>1, ZenonT(60) DEF SnapTyped
    <3>4. floor[r] <= data[snap].header
      <4>1. floor[r] <= saved /\ saved <= data[snap].header
        BY <1>1, <2>3, <3>1, ZenonT(60) DEF ReadsFresh, FilesWhole
      <4>2. data[snap].header \in Nat
        BY <2>4, <3>1, SMTT(60) DEF SnapTyped, Parts
      <4> QED BY <3>1, <4>1, <4>2, SMTT(60) DEF SnapTyped
    <3> QED BY <2>1, <2>2, <3>1, <3>2, <3>3, <3>4 DEF ReadsFresh
  <2>7. ~mixed' /\ ~stale'
    BY <2>1, Zenon DEF SnapInv
  <2> QED BY <1>1, <2>5, <2>6, <2>7, ReaderStep, Zenon
<1> QED BY <1>2, <1>3, Zenon

\* What the second pass accepts is one version, by the CRC, and that of a whole file.
LEMMA ReadInv == ASSUME SnapInv, NEW r \in Readers, Read(r) PROVE SnapInv'
<1>1. PICK k \in Parts : k = rpc[r]
  BY ZenonT(60) DEF Read
<1>2. UNCHANGED <<version, snap, snap_tmp, data, durable, renamed, saver>>
  BY ZenonT(60) DEF Read
<1>3. PICK parts : parts = [got[r] EXCEPT ![rpc[r]] = data[rfd[r]][rpc[r]]]
  BY Zenon
<1>4. /\ parts \in [Parts -> Nat] /\ parts[k] = data[rfd[r]][k]
      /\ \A j \in Parts \ {k} : parts[j] = got[r][j]
  BY <1>1, <1>3 DEF SnapInv, SnapTyped
<1>5. /\ DOMAIN ReadAfter = {"payload", "crc"}
      /\ ReadAfter["payload"] = "crc" /\ ReadAfter["crc"] = "header"
  BY DEF ReadAfter
<1>6. CASE k \in {"payload", "crc"}
  <2>1. /\ got' = [got EXCEPT ![r] = parts] /\ rpc' = [rpc EXCEPT ![r] = ReadAfter[k]]
        /\ UNCHANGED <<rfd, size, floor, mixed, stale>>
    BY <1>1, <1>3, <1>5, <1>6, ZenonT(60) DEF Read, RGoto
  <2>2. UNCHANGED <<version, snap, snap_tmp, data, durable, renamed, pc, ver, fd, saved, clean>>
    BY <1>2, ZenonT(60) DEF saver
  <2>3. ReadAfter[k] \in {"crc", "header"} /\ ReadAfter[k] \in Parts
    BY <1>5, <1>6, ZenonT(60) DEF Parts
  <2>4. SnapTyped'
    <3>1. /\ rpc' \in [Readers -> Parts \cup {"idle", "open"}]
          /\ got' \in [Readers -> [Parts -> Nat]]
      BY <1>4, <2>1, <2>3, ZenonT(60) DEF SnapInv, SnapTyped
    <3>2. \A q \in Readers : rpc'[q] \in Parts => rfd'[q] \in Inodes
      BY <1>1, <2>1, ZenonT(60) DEF SnapInv, SnapTyped
    <3> QED BY <2>1, <2>2, <3>1, <3>2, ZenonT(60) DEF SnapInv, SnapTyped
  <2>5. ASSUME clean PROVE ReadsFresh'
    <3>1. ReadsFresh /\ SnapTyped
      BY <2>5, Zenon DEF SnapInv
    <3>2. \A q \in Readers : q # r => rpc'[q] = rpc[q] /\ got'[q] = got[q]
      BY <2>1, <3>1, ZenonT(60) DEF SnapTyped
    <3>3. rpc'[r] \in {"crc", "header"} /\ got'[r] = parts
      BY <2>1, <2>3, <3>1, ZenonT(60) DEF SnapTyped
    <3>4. rfd[r] \in renamed /\ floor[r] <= data[rfd[r]].header
      BY <1>1, <3>1, ZenonT(60) DEF ReadsFresh
    <3>5. parts["payload"] = data[rfd[r]]["payload"]
      BY <1>1, <1>4, <1>6, <3>1, SMTT(60) DEF ReadsFresh, Parts
    <3> QED BY <2>1, <2>2, <3>1, <3>2, <3>3, <3>4, <3>5, ZenonT(60) DEF ReadsFresh
  <2>6. ~mixed' /\ ~stale'
    BY <2>1, Zenon DEF SnapInv
  <2> QED BY <1>2, <2>4, <2>5, <2>6, ReaderStep, Zenon
<1>7. CASE k = "header"
  <2>1. PICK what : /\ what = IF Accepts(parts, size[r]) THEN parts.payload ELSE Failed
                    /\ Done(r, what, parts, floor[r])
    BY <1>1, <1>3, <1>5, <1>7, SMTT(60) DEF Read
  <2>2. ASSUME what \in 1..MaxVersion PROVE parts = [j \in Parts |-> what]
    <3>1. Accepts(parts, size[r]) /\ what = parts["payload"]
      BY <2>1, <2>2, SnapshotAssumption, SMTT(60) DEF Failed
    <3>2. \A j \in Parts : parts[j] = what
      BY <3>1, SMTT(60) DEF Accepts
    <3> QED BY <1>4, <3>2, ZenonT(60)
  <2>3. ASSUME clean, what # Failed PROVE ~(what < floor[r])
    <3>1. ReadsFresh /\ SnapTyped /\ FilesWhole
      BY <2>3, Zenon DEF SnapInv
    <3>2. what = parts["payload"]
      BY <2>1, <2>3, ZenonT(60)
    <3>3. parts["payload"] = data[rfd[r]]["payload"]
      BY <1>1, <1>4, <1>7, <3>1, ZenonT(60) DEF ReadsFresh, Parts
    <3>4. rfd[r] \in renamed \ {NoInode} /\ floor[r] <= data[rfd[r]].header
      BY <1>1, <3>1, SnapshotAssumption DEF ReadsFresh, SnapTyped, Inodes, NoInode
    <3>5. data[rfd[r]]["payload"] = data[rfd[r]].header /\ data[rfd[r]].header \in 1..version
      BY <3>1, <3>4, ZenonT(60) DEF FilesWhole, Parts
    <3> QED BY <3>1, <3>2, <3>3, <3>4, <3>5 DEF SnapTyped
  <2> QED BY <1>2, <2>1, <2>2, <2>3, DoneInv, Zenon
<1>8. k \in {"payload", "crc"} \/ k = "header"
  BY DEF Parts
<1> QED BY <1>6, <1>7, <1>8, Zenon

\* A crash leaves path on a file it has named, which is whole and was fsynced.
LEMMA SnapCrashInv == ASSUME SnapInv, SnapCrash PROVE SnapInv'
<1>1. PICK lost \in [Parts -> BOOLEAN] :
          data' = [i \in Inodes |-> IF i # snap' THEN Blank
                      ELSE IF i \in durable THEN data[i]
                      ELSE [k \in Parts |-> IF lost[k] THEN Hole ELSE data[i][k]]]
  BY Zenon DEF SnapCrash
<1>2. /\ snap' \in renamed /\ renamed' = {snap'} /\ snap_tmp' = NoInode /\ saved' = 0
      /\ durable' = durable \cap {snap'} /\ size' = [r \in Readers |-> 0]
      /\ pc' = [s \in Savers |-> "idle"] /\ fd' = [s \in Savers |-> NoInode]
      /\ rpc' = [r \in Readers |-> "idle"] /\ rfd' = [r \in Readers |-> NoInode]
      /\ ver' = [s \in Savers |-> Hole] /\ floor' = [r \in Readers |-> 0]
      /\ got' = [r \in Readers |-> Blank]
      /\ version' = version
  BY Zenon DEF SnapCrash
<1>3. clean' = clean /\ mixed' = mixed /\ stale' = stale
  BY Zenon DEF SnapCrash
<1>4. Blank \in [Parts -> Nat] /\ Hole \in Nat /\ NoInode \in Names
  BY ZenonT(60) DEF Blank, Hole, Names
<1>5. SnapTyped'
  <2>1. data' \in [Inodes -> [Parts -> Nat]]
    <3>1. ASSUME NEW i \in Inodes PROVE data'[i] \in [Parts -> Nat]
      <4>1. data[i] \in [Parts -> Nat]
        BY ZenonT(60) DEF SnapInv, SnapTyped
      <4>2. [k \in Parts |-> IF lost[k] THEN Hole ELSE data[i][k]] \in [Parts -> Nat]
        BY <1>4, <4>1, ZenonT(60)
      <4> QED BY <1>1, <1>4, <4>1, <4>2, ZenonT(60)
    <3>2. DOMAIN data' = Inodes /\ data' = [i \in DOMAIN data' |-> data'[i]]
      BY <1>1, ZenonT(60)
    <3> QED BY <3>1, <3>2, ZenonT(60)
  <2>2. "idle" \in Labels /\ "idle" \notin Parts \cup {"fsync"}
    BY ZenonT(60) DEF Labels, Parts
  <2>3. /\ pc' \in [Savers -> Labels] /\ ver' \in [Savers -> Nat] /\ fd' \in [Savers -> Names]
        /\ rpc' \in [Readers -> Parts \cup {"idle", "open"}] /\ rfd' \in [Readers -> Names]
        /\ got' \in [Readers -> [Parts -> Nat]]
        /\ floor' \in [Readers -> Nat] /\ size' \in [Readers -> Nat]
    BY <1>2, <1>4, <2>2, ZenonT(60)
  <2>4. /\ \A s \in Savers : pc'[s] \notin Parts \cup {"fsync"}
        /\ \A r \in Readers : rpc'[r] \notin Parts
    BY <1>2, <2>2, ZenonT(60)
  <2> QED BY <1>2, <1>4, <2>1, <2>3, <2>4, ZenonT(60) DEF SnapInv, SnapTyped
<1>6. \A s \in Savers : pc'[s] = "idle"
  BY <1>2, ZenonT(60)
<1>7. \A r \in Readers : rpc'[r] = "idle"
  BY <1>2, ZenonT(60)
<1>8. TmpOwned'
  BY <1>2, <1>6, ZenonT(60) DEF TmpOwned, Holding, Parts
<1>9. ReadsFresh'
  BY <1>7, ZenonT(60) DEF ReadsFresh, Parts
<1>10. ASSUME clean PROVE FilesWhole'
  <2>1. FilesWhole /\ SnapTyped
    BY <1>10, Zenon DEF SnapInv
  <2>2. CASE snap' = NoInode
    BY <1>2, <2>1, <2>2 DEF FilesWhole, SnapTyped
  <2>3. CASE snap' # NoInode
    <3>1. /\ snap' \in durable /\ data[snap'].header \in 1..version
          /\ \A k \in Parts : data[snap'][k] = data[snap'].header
      BY <1>2, <2>1, <2>3, ZenonT(60) DEF FilesWhole
    <3>2. data'[snap'] = data[snap']
      BY <1>1, <2>1, <3>1, ZenonT(60) DEF SnapTyped
    <3>3. 0 <= version /\ 0 <= data[snap'].header
      BY <2>1, <3>1, SMTT(60) DEF SnapTyped
    <3> QED BY <1>2, <2>3, <3>1, <3>2, <3>3, ZenonT(60) DEF FilesWhole
  <2> QED BY <2>2, <2>3, ZenonT(60)
<1> QED BY <1>3, <1>5, <1>8, <1>9, <1>10, Zenon DEF SnapInv

\* Every step of SnapshotFile preserves the invariant.
LEMMA SnapStepInv == SnapInv /\ [SnapNext]_snapvars => SnapInv'
<1> SUFFICES ASSUME SnapInv, [SnapNext]_snapvars PROVE SnapInv'
  OBVIOUS
<1>1. CASE UNCHANGED snapvars
  <2>1. UNCHANGED <<version, snap, snap_tmp, data, durable, renamed, saver, reader>>
    BY <1>1, ZenonT(60) DEF snapvars
  <2>2. /\ UNCHANGED <<rpc, rfd, size, got, floor, mixed, stale>>
        /\ UNCHANGED <<pc, ver, fd, saved, clean>>
    BY <2>1 DEF reader, saver
  <2>3. SnapTyped' <=> SnapTyped
    BY <2>1, <2>2, Zenon DEF SnapTyped
  <2>4. ReadsFresh' <=> ReadsFresh
    BY <2>1, <2>2, Zenon DEF ReadsFresh
  <2>5. ~mixed' /\ ~stale'
    BY <2>2, Zenon DEF SnapInv
  <2> QED BY <2>1, <2>3, <2>4, <2>5, ReaderStep, Zenon DEF SnapInv
<1>2. ASSUME NEW s \in Savers, SaveStep(s) PROVE SnapInv'
  BY <1>2, SerializeInv, OpenTmpInv, WriteInv, SaveFailsInv, FsyncInv, FsyncFailsInv,
     RenameInv, Zenon DEF SaveStep
<1>3. ASSUME NEW r \in Readers, LoadStep(r) PROVE SnapInv'
  BY <1>3, ProbeInv, ReopenInv, ReadInv, Zenon DEF LoadStep
<1> QED BY <1>1, <1>2, <1>3, ChangeInv, SnapCrashInv, Zenon DEF SnapNext

\* For any number of savers and restores, versions, files and crashes: path names a
\* whole snapshot as long as one save at a time used path.tmp and every fsync
\* worked; a restore then never reports less than the last completed save; and, in
\* any case, what sl_snapshot_load accepts is one version as it was saved.
THEOREM RestoresRight == SnapSpec => []RestoredRight
<1>1. SnapInv => RestoredRight
  <2> SUFFICES ASSUME SnapInv PROVE RestoredRight
    BY ZenonT(60)
  <2>1. ASSUME clean, snap # NoInode PROVE Whole(snap)
    <3>1. FilesWhole /\ SnapTyped
      BY <2>1, Zenon DEF SnapInv
    <3>2. PICK v \in 1..version : v = data[snap].header
      BY <2>1, <3>1, ZenonT(60) DEF FilesWhole, SnapTyped
    <3>3. \A k \in Parts : data[snap][k] = v
      BY <2>1, <3>1, <3>2, ZenonT(60) DEF FilesWhole, SnapTyped
    <3>4. data[snap] \in [Parts -> Nat]
      BY <2>1, <3>1, ZenonT(60) DEF SnapTyped, Names
    <3>5. data[snap] = [k \in Parts |-> v]
      BY <3>3, <3>4, ZenonT(60)
    <3>6. v \in 1..MaxVersion
      BY <3>1, <3>2, SnapshotAssumption, SMTT(60) DEF SnapTyped
    <3> QED BY <3>5, <3>6, ZenonT(60) DEF Whole
  <2> QED BY <2>1, Zenon
          DEF SnapInv, RestoredRight, WholeIfClean, OldOrNew, RestoredWhole, RestoredFresh
<1> QED BY <1>1, SnapInitInv, SnapStepInv, PTL DEF SnapSpec
-------------------------------------------------------------------------------
\* A set of natural numbers that is not empty has a least member.
LEMMA LeastNat == ASSUME NEW S, S \subseteq Nat, S # {} PROVE \E x \in S : \A y \in S : x <= y
<1> DEFINE R == OpToRel(<, Nat)
<1>1. \A x, y \in Nat : <<y, x>> \in R <=> y < x
  BY DEF OpToRel
<1>2. IsWellFoundedOn(R, Nat)
  BY NatLessThanWellFounded, ZenonT(60)
<1> HIDE DEF R
<1>3. \E x \in S : \A y \in S : ~ (<<y, x>> \in R)
  BY <1>2, WFMin, ZenonT(60)
<1>4. PICK x \in S : \A y \in S : ~ (<<y, x>> \in R)
  BY <1>3
<1>5. \A y \in S : x <= y
  <2> SUFFICES ASSUME NEW y \in S PROVE x <= y
    OBVIOUS
  <2>1. x \in Nat /\ y \in Nat
    OBVIOUS
  <2>2. ~ (y < x)
    BY <1>1, <1>4, <2>1, ZenonT(60)
  <2> QED BY <2>1, <2>2
<1> QED BY <1>5
-------------------------------------------------------------------------------
Entries == [value : Values \cup {None}, at : {"record", "value"}, tomb : BOOLEAN]
Records == [key : Keys, value : Values \cup {None}, torn : {"no", "head", "tail"}]

KvTyped ==
    /\ log \in Seq(Records) /\ synced \in 0..Len(log)
    /\ index \in [Keys -> Entries] /\ isopen \in BOOLEAN

\* The inductive invariant of KvStore.
KvInv == KvTyped /\ HasCurrent /\ GetFresh

\* The recursion by which replay is defined has a solution: one for the first n - 1
\* records is extended by what record n does.
Solves(f, n) == f = [m \in 0..n |-> IF m = 0 THEN Empty ELSE Replay(f[m - 1], log[m])]

LEMMA ReplayExtends ==
    ASSUME NEW n \in Nat, n # 0, NEW f, Solves(f, n - 1)
    PROVE  \E g : Solves(g, n)
<1> DEFINE g == [m \in 0..n |-> IF m = n THEN Replay(f[n - 1], log[n]) ELSE f[m]]
<1>1. ASSUME NEW m \in 0..n
      PROVE  g[m] = IF m = 0 THEN Empty ELSE Replay(g[m - 1], log[m])
  <2>1. CASE m = 0
    BY <2>1 DEF Solves
  <2>2. CASE m # 0 /\ m = n
    <3>1. g[m] = Replay(f[n - 1], log[n])
      BY <2>2
    <3>2. g[m - 1] = f[n - 1]
      BY <2>2
    <3> QED BY <2>2, <3>1, <3>2, Zenon
  <2>3. CASE m # 0 /\ m # n
    <3>1. m \in 0..n - 1 /\ m - 1 \in 0..n /\ m - 1 # n
      BY <2>3
    <3>2. f[m] = Replay(f[m - 1], log[m])
      BY <2>3, <3>1, Zenon DEF Solves
    <3>3. g[m] = f[m] /\ g[m - 1] = f[m - 1]
      BY <2>3, <3>1, Zenon
    <3> QED BY <2>3, <3>2, <3>3, Zenon
  <2> QED BY <2>1, <2>2, <2>3, Zenon
<1>2. g = [m \in 0..n |-> g[m]]
  BY Zenon
<1> HIDE DEF g
<1>3. g = [m \in 0..n |-> IF m = 0 THEN Empty ELSE Replay(g[m - 1], log[m])]
  BY <1>1, <1>2, Zenon
<1> QED BY <1>3, Zenon DEF Solves

LEMMA ReplaySolved == ASSUME NEW n \in Nat PROVE \E f : Solves(f, n)
<1> DEFINE bad == {m \in Nat : ~ \E f : Solves(f, m)}
<1> SUFFICES ASSUME bad # {} PROVE FALSE
  BY Zenon
<1>1. PICK m \in bad : \A y \in bad : m <= y
  <2>1. bad \subseteq Nat
    BY Zenon
  <2> QED BY <2>1, LeastNat, Zenon
<1>2. m \in Nat /\ ~ \E f : Solves(f, m)
  BY Zenon
<1>3. m # 0
  <2>1. Solves([i \in 0..0 |-> Empty], 0)
    <3>1. \A i \in 0..0 : i = 0
      OBVIOUS
    <3> QED BY <3>1, Zenon DEF Solves
  <2> QED BY <1>2, <2>1, Zenon
<1>4. m - 1 \in Nat /\ ~(m <= m - 1)
  BY <1>2, <1>3
<1>5. m - 1 \notin bad
  BY <1>1, <1>4, Zenon
<1>6. PICK f : Solves(f, m - 1)
  BY <1>4, <1>5, Zenon
<1> QED BY <1>2, <1>3, <1>6, ReplayExtends, Zenon

LEMMA ReplayUnfolds ==
    ASSUME log \in Seq(Records), NEW n \in 0..Len(log)
    PROVE  ReplayedTo[n] = IF n = 0 THEN Empty ELSE Replay(ReplayedTo[n - 1], log[n])
<1>1. Len(log) \in Nat
  OBVIOUS
<1>2. \E f : Solves(f, Len(log))
  BY <1>1, ReplaySolved, Zenon
<1>3. Solves(ReplayedTo, Len(log))
  BY <1>2, Zenon DEF ReplayedTo, Solves
<1> QED BY <1>3, Zenon DEF Solves
-------------------------------------------------------------------------------
\* The newest of the first n records of a key, whether torn or not, gives it a value.
Set(n, k) ==
    \E i \in 1..n : /\ log[i].key = k /\ log[i].value # None
                    /\ \A j \in 1..n : log[j].key = k => j <= i

\* What replay makes of the first n records: it has the keys whose newest record is
\* no tombstone, and their offsets are those of values.
ReplayRight(idx, n) ==
    /\ idx \in [Keys -> Entries]
    /\ \A k \in Keys : (idx[k].tomb \/ idx[k].at = "value") /\ (~idx[k].tomb <=> Set(n, k))

LEMMA EntryTyped ==
    ASSUME NEW v \in Values \cup {None}, NEW at \in {"record", "value"}
    PROVE  /\ Entry(v, at) \in Entries /\ ~Entry(v, at).tomb
           /\ Entry(v, at).value = v /\ Entry(v, at).at = at
BY DEF Entry, Entries

LEMMA EmptyRight == ReplayRight(Empty, 0)
<1>1. \A k \in Keys : ~Set(0, k)
  <2>1. 1..0 = {}
    OBVIOUS
  <2> QED BY <2>1, Zenon DEF Set
<1>2. Absent \in Entries /\ Absent.tomb
  BY DEF Absent, Entries
<1>3. Empty \in [Keys -> Entries] /\ \A k \in Keys : Empty[k] = Absent
  BY <1>2, Zenon DEF Empty
<1> QED BY <1>1, <1>2, <1>3, Zenon DEF ReplayRight

\* The record that is replayed is the newest of its key, and no record of the others.
LEMMA SetStep ==
    ASSUME log \in Seq(Records), NEW n \in 1..Len(log), NEW k \in Keys
    PROVE  Set(n, k) <=> IF log[n].key = k THEN log[n].value # None ELSE Set(n - 1, k)
<1>1. n \in Nat /\ n - 1 \in Nat /\ n \in 1..n
  OBVIOUS
<1>2. \A i : i \in 1..n <=> i \in 1..n - 1 \/ i = n
  OBVIOUS
<1>3. \A i \in 1..n : i <= n
  OBVIOUS
<1>4. CASE log[n].key = k
  <2>1. ASSUME NEW i \in 1..n, \A j \in 1..n : log[j].key = k => j <= i
        PROVE  i = n
    <3>1. n <= i
      BY <1>1, <1>4, <2>1, Zenon
    <3> QED BY <3>1
  <2> QED BY <1>1, <1>3, <1>4, <2>1, Zenon DEF Set
<1>5. CASE log[n].key # k
  BY <1>2, <1>5, Zenon DEF Set
<1> QED BY <1>4, <1>5, Zenon

LEMMA ReplayStep ==
    ASSUME log \in Seq(Records), NEW n \in 1..Len(log), NEW idx, ReplayRight(idx, n - 1)
    PROVE  ReplayRight(Replay(idx, log[n]), n)
<1> DEFINE r == log[n]
           new == IF r.value = None THEN [idx[r.key] EXCEPT !.tomb = TRUE]
                                    ELSE Upsert(idx[r.key], r.value)
<1>1. r \in Records
  OBVIOUS
<1>2. r.key \in Keys /\ r.value \in Values \cup {None}
  BY <1>1 DEF Records
<1>3. idx \in [Keys -> Entries] /\ idx[r.key] \in Entries
  BY <1>2, Zenon DEF ReplayRight
<1>4. Replay(idx, r) = [idx EXCEPT ![r.key] = new]
  BY Zenon DEF Replay
<1>5. new \in Entries /\ (new.tomb \/ new.at = "value") /\ (~new.tomb <=> r.value # None)
  <2>1. CASE r.value = None
    <3>1. new = [idx[r.key] EXCEPT !.tomb = TRUE]
      BY <2>1, Zenon
    <3>2. new \in Entries /\ new.tomb
      BY <1>3, <3>1, ZenonT(60) DEF Entries
    <3> QED BY <2>1, <3>2, Zenon
  <2>2. CASE r.value # None
    <3>1. new = Entry(r.value, "value")
      BY <2>2, Zenon DEF Upsert
    <3>2. Entry(r.value, "value") \in Entries /\ Entry(r.value, "value").at = "value"
             /\ ~Entry(r.value, "value").tomb
      BY <1>2, EntryTyped, Zenon
    <3> QED BY <2>2, <3>1, <3>2, Zenon
  <2> QED BY <2>1, <2>2, Zenon
<1> HIDE DEF new, r
<1>6. Replay(idx, r) \in [Keys -> Entries]
  BY <1>2, <1>3, <1>4, <1>5, Zenon
<1>7. ASSUME NEW k \in Keys
      PROVE  Replay(idx, r)[k] = IF r.key = k THEN new ELSE idx[k]
  BY <1>2, <1>3, <1>4, Zenon
<1>8. ASSUME NEW k \in Keys
      PROVE  Set(n, k) <=> IF r.key = k THEN r.value # None ELSE Set(n - 1, k)
  BY SetStep, Zenon DEF r
<1>9. \A k \in Keys : (idx[k].tomb \/ idx[k].at = "value") /\ (~idx[k].tomb <=> Set(n - 1, k))
  BY Zenon DEF ReplayRight
<1>10. ReplayRight(Replay(idx, r), n)
  BY <1>5, <1>6, <1>7, <1>8, <1>9, Zenon DEF ReplayRight
<1> QED BY <1>10, Zenon DEF r

LEMMA ReplayedRight ==
    ASSUME log \in Seq(Records), NEW n \in 0..Len(log)
    PROVE  ReplayRight(ReplayedTo[n], n)
<1> DEFINE bad == {m \in Nat : m \in 0..Len(log) /\ ~ReplayRight(ReplayedTo[m], m)}
<1>0. n \in Nat
  OBVIOUS
<1> SUFFICES ASSUME bad # {} PROVE FALSE
  BY <1>0, Zenon
<1>1. PICK m \in bad : \A y \in bad : m <= y
  <2>1. bad \subseteq Nat
    BY Zenon
  <2> QED BY <2>1, LeastNat, Zenon
<1>2. m \in Nat /\ m \in 0..Len(log) /\ ~ReplayRight(ReplayedTo[m], m)
  BY Zenon
<1>3. ReplayedTo[m] = IF m = 0 THEN Empty ELSE Replay(ReplayedTo[m - 1], log[m])
  BY <1>2, ReplayUnfolds, Zenon
<1>4. m # 0
  BY <1>2, <1>3, EmptyRight, Zenon
<1>5. m \in 1..Len(log) /\ m - 1 \in Nat /\ m - 1 \in 0..Len(log) /\ ~(m <= m - 1)
  BY <1>2, <1>4
<1>6. ReplayRight(ReplayedTo[m - 1], m - 1)
  BY <1>1, <1>5, Zenon
<1>7. ReplayRight(Replay(ReplayedTo[m - 1], log[m]), m)
  BY <1>5, <1>6, ReplayStep, Zenon
<1> QED BY <1>2, <1>3, <1>4, <1>7, Zenon

\* Replay reads a part of the log, and all of an intact one.
LEMMA ReplayedLog ==
    ASSUME log \in Seq(Records)
    PROVE  \E n \in 0..Len(log) : Replayed = ReplayedTo[n] /\ (Intact => n = Len(log))
<1> DEFINE good == Cardinality(Readable)
           n == IF Torn(good + 1) THEN good + 1 ELSE good
<1>1. Len(log) \in Nat
  OBVIOUS
<1>2. IsFiniteSet(1..Len(log)) /\ Cardinality(1..Len(log)) = Len(log)
  <2>1. 1 \in Int /\ Len(log) \in Int
    BY <1>1
  <2>2. IsFiniteSet(1..Len(log)) /\ Cardinality(1..Len(log)) = IF 1 > Len(log) THEN 0 ELSE Len(log) - 1 + 1
    BY <2>1, FS_Interval, ZenonT(60)
  <2> QED BY <1>1, <2>2
<1>3. Readable \subseteq 1..Len(log)
  BY Zenon DEF Readable
<1>4. good \in Nat /\ good <= Len(log)
  BY <1>2, <1>3, FS_Subset, FS_CardinalityType, ZenonT(60)
<1>5. Intact => Readable = 1..Len(log)
  <2>1. \A i \in 1..Len(log) : \A j \in 1..i : j \in 1..Len(log)
    BY <1>1
  <2> QED BY <1>3, <2>1, Zenon DEF Intact, Readable
<1>6. Intact => good = Len(log)
  BY <1>2, <1>5, Zenon
<1>7. Torn(good + 1) => good + 1 \in 1..Len(log)
  BY Zenon DEF Torn
<1> HIDE DEF good
<1>8. n \in 0..Len(log)
  BY <1>1, <1>4, <1>7
<1>9. Intact => n = Len(log)
  <2>1. Len(log) + 1 \notin 1..Len(log)
    BY <1>1
  <2> QED BY <1>6, <1>7, <2>1, Zenon
<1>10. Replayed = ReplayedTo[n]
  BY Zenon DEF Replayed, good
<1> QED BY <1>8, <1>9, <1>10, Zenon

\* The definitions of Current for any log, to speak of the one after a step.
WritesIn(l, k) == {i \in 1..Len(l) : l[i].key = k /\ l[i].torn = "no"}
CurrentIn(l, k) == IF WritesIn(l, k) = {} THEN None
                   ELSE l[CHOOSE i \in WritesIn(l, k) : \A j \in WritesIn(l, k) : j <= i].value

LEMMA CurrentNow == ASSUME NEW k PROVE Current(k) = CurrentIn(log, k)
BY Zenon DEF Current, CurrentIn, Writes, WritesIn
LEMMA CurrentThen == ASSUME NEW k PROVE Current(k)' = CurrentIn(log', k)
BY Zenon DEF Current, CurrentIn, Writes, WritesIn

\* Current is the value of the newest whole record of the key.
LEMMA CurrentIs ==
    ASSUME NEW l \in Seq(Records), NEW k, NEW i \in WritesIn(l, k), \A j \in WritesIn(l, k) : j <= i
    PROVE  CurrentIn(l, k) = l[i].value
<1>1. PICK c : /\ c \in WritesIn(l, k) /\ \A j \in WritesIn(l, k) : j <= c
               /\ CurrentIn(l, k) = l[c].value
  BY Zenon DEF CurrentIn
<1>2. c <= i /\ i <= c
  BY <1>1, Zenon
<1>3. c \in Int /\ i \in Int
  BY <1>1 DEF WritesIn
<1>4. c = i
  BY <1>2, <1>3
<1> QED BY <1>1, <1>4, Zenon

\* If a key has whole records, one is the newest.
LEMMA NewestWrite ==
    ASSUME NEW l \in Seq(Records), NEW k, WritesIn(l, k) # {}
    PROVE  \E i \in WritesIn(l, k) : \A j \in WritesIn(l, k) : j <= i
<1> DEFINE W == WritesIn(l, k)
           above == {u \in Nat : \A j \in W : j <= u}
<1>1. Len(l) \in Nat /\ \A j \in W : j \in Nat \ {0} /\ j <= Len(l)
  BY DEF WritesIn
<1> HIDE DEF W
<1>2. Len(l) \in above
  BY <1>1, Zenon
<1>3. above \subseteq Nat
  BY Zenon
<1>4. PICK x \in above : \A y \in above : x <= y
  BY <1>2, <1>3, LeastNat, Zenon
<1>5. x \in W
  <2> SUFFICES ASSUME x \notin W PROVE FALSE
    OBVIOUS
  <2>1. x \in Nat /\ \A j \in W : j <= x /\ j # x
    BY Zenon
  <2>2. PICK j \in W : TRUE
    BY Zenon DEF W
  <2>3. x - 1 \in Nat
    BY <1>1, <2>1, <2>2
  <2>4. \A m \in W : m <= x - 1
    BY <1>1, <2>1
  <2>5. x - 1 \in above
    BY <2>3, <2>4, Zenon
  <2>6. x <= x - 1
    BY <1>4, <2>5, Zenon
  <2> QED BY <2>1, <2>6
<1>6. \A j \in W : j <= x
  BY Zenon
<1> QED BY <1>5, <1>6, Zenon DEF W

\* What appending a record changes.
LEMMA AppendCurrent ==
    ASSUME NEW l \in Seq(Records), NEW r \in Records, NEW k
    PROVE  CurrentIn(Append(l, r), k) =
               IF r.key = k /\ r.torn = "no" THEN r.value ELSE CurrentIn(l, k)
<1> DEFINE m == Append(l, r)
           n == Len(l) + 1
<1>1. m \in Seq(Records) /\ Len(m) = n /\ n \in Nat /\ m[n] = r
  OBVIOUS
<1>2. \A i \in 1..Len(l) : m[i] = l[i]
  OBVIOUS
<1>3. \A i : i \in 1..n <=> i \in 1..Len(l) \/ i = n
  OBVIOUS
<1>4. \A i \in 1..n : i <= n
  OBVIOUS
<1> HIDE DEF m, n
<1>5. CASE r.key = k /\ r.torn = "no"
  <2>1. n \in WritesIn(m, k) /\ \A j \in WritesIn(m, k) : j <= n
    BY <1>1, <1>3, <1>4, <1>5, Zenon DEF WritesIn
  <2>2. CurrentIn(m, k) = m[n].value
    BY <1>1, <2>1, CurrentIs, Zenon
  <2> QED BY <1>1, <1>5, <2>2, Zenon DEF m
<1>6. CASE ~(r.key = k /\ r.torn = "no")
  <2>1. WritesIn(m, k) = WritesIn(l, k)
    BY <1>1, <1>2, <1>3, <1>6, Zenon DEF WritesIn
  <2>2. CASE WritesIn(l, k) = {}
    <3>1. CurrentIn(m, k) = None /\ CurrentIn(l, k) = None
      BY <2>1, <2>2, Zenon DEF CurrentIn
    <3> QED BY <1>6, <3>1, Zenon DEF m
  <2>3. CASE WritesIn(l, k) # {}
    <3>1. PICK i \in WritesIn(l, k) : \A j \in WritesIn(l, k) : j <= i
      BY <2>3, NewestWrite, Zenon
    <3>2. CurrentIn(l, k) = l[i].value
      BY <3>1, CurrentIs, Zenon
    <3>3. CurrentIn(m, k) = m[i].value
      BY <1>1, <2>1, <3>1, CurrentIs, Zenon
    <3>4. m[i] = l[i]
      BY <1>2, Zenon DEF WritesIn
    <3> QED BY <1>6, <3>2, <3>3, <3>4, Zenon DEF m
  <2> QED BY <2>2, <2>3, Zenon
<1> QED BY <1>5, <1>6, Zenon

\* In an intact log the keys that replay finds are those that have a value.
LEMMA SetIsCurrent ==
    ASSUME log \in Seq(Records), Intact, NEW k \in Keys
    PROVE  Set(Len(log), k) <=> CurrentIn(log, k) # None
<1>1. \A i : i \in WritesIn(log, k) <=> i \in 1..Len(log) /\ log[i].key = k
  BY Zenon DEF WritesIn, Intact, Stops
<1>2. ASSUME Set(Len(log), k) PROVE CurrentIn(log, k) # None
  <2>1. PICK i \in 1..Len(log) : /\ log[i].key = k /\ log[i].value # None
                                 /\ \A j \in 1..Len(log) : log[j].key = k => j <= i
    BY <1>2, Zenon DEF Set
  <2>2. i \in WritesIn(log, k) /\ \A j \in WritesIn(log, k) : j <= i
    BY <1>1, <2>1, Zenon
  <2> QED BY <2>1, <2>2, CurrentIs, Zenon
<1>3. ASSUME CurrentIn(log, k) # None PROVE Set(Len(log), k)
  <2>1. WritesIn(log, k) # {}
    BY <1>3, Zenon DEF CurrentIn
  <2>2. PICK i \in WritesIn(log, k) : \A j \in WritesIn(log, k) : j <= i
    BY <2>1, NewestWrite, Zenon
  <2>3. CurrentIn(log, k) = log[i].value
    BY <2>2, CurrentIs, Zenon
  <2> QED BY <1>1, <1>3, <2>2, <2>3, Zenon DEF Set
<1> QED BY <1>2, <1>3, Zenon
-------------------------------------------------------------------------------
LEMMA KvInitInv == KvInit => KvInv
<1> SUFFICES ASSUME KvInit PROVE KvInv
  BY Zenon
<1>1. log \in Seq(Records) /\ synced \in 0..Len(log)
  BY DEF KvInit
<1>2. Absent \in Entries
  BY DEF Absent, Entries
<1>3. index \in [Keys -> Entries]
  BY <1>2, Zenon DEF KvInit, Empty
<1> QED BY <1>1, <1>3, Zenon DEF KvInit, KvInv, KvTyped, HasCurrent, GetFresh

\* A store that is closed has nothing to keep but its types.
LEMMA ClosedInv ==
    ASSUME log' \in Seq(Records), synced' \in 0..Len(log'), isopen' = FALSE, index' = Empty
    PROVE  KvInv'
<1>2. Absent \in Entries
  BY DEF Absent, Entries
<1>3. index' \in [Keys -> Entries]
  BY <1>2, Zenon DEF Empty
<1> QED BY <1>3, Zenon DEF KvInv, KvTyped, HasCurrent, GetFresh

\* Opening replays the log: exactly, or with what follows a torn record misread.
LEMMA OpenInv == ASSUME KvInv, open PROVE KvInv'
<1>1. log \in Seq(Records) /\ log' = log /\ synced' \in 0..Len(log') /\ isopen' = TRUE
  BY Zenon DEF KvInv, KvTyped, open
<1>2. PICK n \in 0..Len(log) : Replayed = ReplayedTo[n] /\ (Intact => n = Len(log))
  BY <1>1, ReplayedLog, Zenon
<1>3. ReplayRight(Replayed, n)
  BY <1>1, <1>2, ReplayedRight, Zenon
<1>4. /\ Replayed \in [Keys -> Entries]
      /\ \A k \in Keys : Replayed[k] \in Entries
      /\ \A k \in Keys : Replayed[k].tomb \/ Replayed[k].at = "value"
      /\ \A k \in Keys : ~Replayed[k].tomb <=> Set(n, k)
  BY <1>3, Zenon DEF ReplayRight
<1>5. CASE index' = Replayed
  <2>1. GetFresh'
    <3>1. "value" # "record"
      OBVIOUS
    <3> QED BY <1>4, <1>5, <3>1, Zenon DEF GetFresh, has
  <2>2. HasCurrent'
    <3> SUFFICES ASSUME Intact', NEW k \in Keys PROVE has(k)' <=> Current(k)' # None
      BY Zenon DEF HasCurrent
    <3>1. Intact
      BY <1>1, Zenon DEF Intact, Stops
    <3>2. ~Replayed[k].tomb <=> CurrentIn(log, k) # None
      BY <1>1, <1>2, <1>4, <3>1, SetIsCurrent, Zenon
    <3>3. Current(k)' = CurrentIn(log, k)
      BY <1>1, CurrentThen, Zenon
    <3> QED BY <1>5, <3>2, <3>3, Zenon DEF has
  <2> QED BY <1>1, <1>4, <1>5, <2>1, <2>2, Zenon DEF KvInv, KvTyped
<1>6. CASE /\ Misread /\ index' \in [Keys -> UNION {Misled(Replayed[k]) : k \in Keys}]
           /\ \A k \in Keys : index'[k] \in Misled(Replayed[k])
  <2>1. ASSUME NEW k \in Keys, NEW e \in Misled(Replayed[k])
        PROVE  e \in Entries /\ (e.tomb \/ e.at = "value")
    <3>1. CASE e = Replayed[k]
      BY <1>4, <3>1, Zenon
    <3>2. CASE e = Garbage
      BY <3>2 DEF Garbage, Entries
    <3>3. CASE e = [Replayed[k] EXCEPT !.tomb = TRUE]
      <4>1. Replayed[k] \in Entries
        BY <1>4, Zenon
      <4> HIDE DEF Replayed
      <4> QED BY <3>3, <4>1, ZenonT(60) DEF Entries
    <3> QED BY <2>1, <3>1, <3>2, <3>3, Zenon DEF Misled
  <2>2. index' \in [Keys -> Entries]
    BY <1>6, <2>1, Zenon
  <2>3. GetFresh'
    <3>1. "value" # "record"
      OBVIOUS
    <3> QED BY <1>6, <2>1, <3>1, Zenon DEF GetFresh, has
  <2>4. HasCurrent'
    <3>1. PICK i \in 1..Len(log) - 1 : log[i].torn # "no"
      BY <1>6, Zenon DEF Misread
    <3>2. i \in 1..Len(log)
      BY <1>1
    <3>3. ~Intact'
      BY <1>1, <3>1, <3>2, Zenon DEF Intact, Stops
    <3> QED BY <3>3, Zenon DEF HasCurrent
  <2> QED BY <1>1, <2>2, <2>3, <2>4, Zenon DEF KvInv, KvTyped
<1> QED BY <1>5, <1>6, Zenon DEF open

\* A record is appended by a store that stays open.  An append leaves an intact log
\* only if it was one.
LEMMA AppendIntact ==
    ASSUME log \in Seq(Records), NEW r \in Records, log' = Append(log, r), Intact'
    PROVE  Intact /\ r.torn = "no"
<1>1. \A i \in 1..Len(log) : i \in 1..Len(log') /\ log'[i] = log[i]
  OBVIOUS
<1>2. Len(log) + 1 \in 1..Len(log') /\ log'[Len(log) + 1] = r
  OBVIOUS
<1>3. \A i \in 1..Len(log') : ~(log'[i].torn # "no" \/ log'[i].key \in BigKeys)
  BY Zenon DEF Intact, Stops
<1> QED BY <1>1, <1>2, <1>3, Zenon DEF Intact, Stops

LEMMA AppendTyped ==
    ASSUME KvTyped, NEW r \in Records, log' = Append(log, r), synced' = synced
    PROVE  log' \in Seq(Records) /\ synced' \in 0..Len(log')
BY DEF KvTyped

LEMMA PutInv == ASSUME KvInv, NEW k \in Keys, NEW v \in Values, put(k, v) PROVE KvInv'
<1> DEFINE r == Record(k, v, "no")
<1>1. /\ KvTyped /\ HasCurrent /\ GetFresh /\ isopen /\ isopen' = isopen
      /\ log \in Seq(Records) /\ index \in [Keys -> Entries]
      /\ log' = Append(log, r) /\ synced' = synced
      /\ index' = [index EXCEPT ![k] = Entry(v, "record")]
  BY Zenon DEF KvInv, KvTyped, put, Room, Indexed
<1>2. r \in Records /\ r.key = k /\ r.value = v /\ r.torn = "no"
  BY DEF Record, Records
<1> HIDE DEF r
<1>3. /\ Entry(v, "record") \in Entries /\ ~Entry(v, "record").tomb
      /\ Entry(v, "record").value = v
  BY EntryTyped, Zenon
<1>4. /\ index' \in [Keys -> Entries] /\ index'[k] = Entry(v, "record")
      /\ \A q \in Keys : q # k => index'[q] = index[q]
  BY <1>1, <1>3, Zenon
<1>5. KvTyped'
  BY <1>1, <1>2, <1>4, AppendTyped, Zenon DEF KvTyped
<1>6. \A q \in Keys : Current(q)' = IF q = k THEN v ELSE Current(q)
  BY <1>1, <1>2, AppendCurrent, CurrentNow, CurrentThen, Zenon
<1>7. HasCurrent'
  <2> SUFFICES ASSUME Intact', NEW q \in Keys PROVE has(q)' <=> Current(q)' # None
    BY Zenon DEF HasCurrent
  <2>1. Intact
    BY <1>1, <1>2, AppendIntact, Zenon
  <2>2. has(q) <=> Current(q) # None
    BY <1>1, <2>1, Zenon DEF HasCurrent
  <2>3. v # None
    BY KeyAssumption, Zenon
  <2> QED BY <1>3, <1>4, <1>6, <2>2, <2>3, Zenon DEF has
<1>8. GetFresh'
  <2> SUFFICES ASSUME NEW q \in Keys, has(q)', index'[q].at = "record"
               PROVE  get(q)' = Current(q)'
    BY Zenon DEF GetFresh
  <2>1. CASE q = k
    BY <1>3, <1>4, <1>6, <2>1, Zenon DEF get
  <2>2. CASE q # k
    BY <1>1, <1>4, <1>6, <2>2, Zenon DEF GetFresh, get, has
  <2> QED BY <2>1, <2>2, Zenon
<1> QED BY <1>5, <1>7, <1>8, Zenon DEF KvInv

LEMMA DeleteInv == ASSUME KvInv, NEW k \in Keys, delete(k) PROVE KvInv'
<1> DEFINE r == Record(k, None, "no")
           e == [index[k] EXCEPT !.tomb = TRUE]
<1>1. /\ KvTyped /\ HasCurrent /\ GetFresh /\ isopen /\ isopen' = isopen
      /\ log \in Seq(Records) /\ index \in [Keys -> Entries]
      /\ log' = Append(log, r) /\ synced' = synced
      /\ index' = [index EXCEPT ![k] = e]
  BY Zenon DEF KvInv, KvTyped, delete, Room
<1>2. r \in Records /\ r.key = k /\ r.value = None /\ r.torn = "no"
  BY DEF Record, Records
<1>3. e \in Entries /\ e.tomb
  <2>1. index[k] \in Entries
    BY <1>1, Zenon
  <2> QED BY <2>1, ZenonT(60) DEF Entries
<1> HIDE DEF r, e
<1>4. /\ index' \in [Keys -> Entries] /\ index'[k] = e
      /\ \A q \in Keys : q # k => index'[q] = index[q]
  BY <1>1, <1>3, Zenon
<1>5. KvTyped'
  BY <1>1, <1>2, <1>4, AppendTyped, Zenon DEF KvTyped
<1>6. \A q \in Keys : Current(q)' = IF q = k THEN None ELSE Current(q)
  BY <1>1, <1>2, AppendCurrent, CurrentNow, CurrentThen, Zenon
<1>7. HasCurrent'
  <2> SUFFICES ASSUME Intact', NEW q \in Keys PROVE has(q)' <=> Current(q)' # None
    BY Zenon DEF HasCurrent
  <2>1. Intact
    BY <1>1, <1>2, AppendIntact, Zenon
  <2>2. has(q) <=> Current(q) # None
    BY <1>1, <2>1, Zenon DEF HasCurrent
  <2> QED BY <1>3, <1>4, <1>6, <2>2, Zenon DEF has
<1>8. GetFresh'
  BY <1>1, <1>3, <1>4, <1>6, Zenon DEF GetFresh, get, has
<1> QED BY <1>5, <1>7, <1>8, Zenon DEF KvInv

\* A write that fails leaves the index, and a record that nobody counts.
LEMMA WriteFailsInv ==
    ASSUME KvInv, NEW k \in Keys, NEW v \in Values \cup {None}, NEW torn \in {"head", "tail"},
           WriteFails(k, v, torn)
    PROVE  KvInv'
<1> DEFINE r == Record(k, v, torn)
<1>1. /\ KvTyped /\ HasCurrent /\ GetFresh /\ isopen' = isopen /\ log \in Seq(Records)
      /\ log' = Append(log, r) /\ synced' = synced /\ index' = index
  BY Zenon DEF KvInv, KvTyped, WriteFails, Room
<1>2. r \in Records /\ r.torn # "no"
  BY DEF Record, Records
<1> HIDE DEF r
<1>3. KvTyped'
  BY <1>1, <1>2, AppendTyped, Zenon DEF KvTyped
<1>4. \A q \in Keys : Current(q)' = Current(q)
  BY <1>1, <1>2, AppendCurrent, CurrentNow, CurrentThen, Zenon
<1>5. ~Intact'
  BY <1>1, <1>2, AppendIntact, Zenon
<1>6. GetFresh'
  BY <1>1, <1>4, Zenon DEF GetFresh, get, has
<1> QED BY <1>3, <1>5, <1>6, Zenon DEF KvInv, HasCurrent

\* A crash closes the store and leaves records.
LEMMA CrashInv == ASSUME KvInv, Crash PROVE KvInv'
<1>1. log \in Seq(Records) /\ synced \in Nat /\ isopen' = FALSE /\ index' = Empty /\ synced' = Len(log')
  BY DEF KvInv, KvTyped, Crash
<1>2. PICK n \in synced..Len(log) :
          \/ log' = SubSeq(log, 1, n)
          \/ /\ n < Len(log)
             /\ \E torn \in {"head", "tail"} :
                    log' = Append(SubSeq(log, 1, n), [log[n + 1] EXCEPT !.torn = torn])
  BY Zenon DEF Crash
<1>3. SubSeq(log, 1, n) \in Seq(Records)
  BY <1>1
<1>4. log' \in Seq(Records)
  <2>1. CASE log' = SubSeq(log, 1, n)
    BY <1>3, <2>1, Zenon
  <2>2. ASSUME n < Len(log), NEW torn \in {"head", "tail"},
               log' = Append(SubSeq(log, 1, n), [log[n + 1] EXCEPT !.torn = torn])
        PROVE  log' \in Seq(Records)
    <3>1. n + 1 \in 1..Len(log)
      BY <1>1, <2>2
    <3>2. log[n + 1] \in Records
      BY <1>1, <3>1
    <3>3. [log[n + 1] EXCEPT !.torn = torn] \in Records
      BY <3>2 DEF Records
    <3> QED BY <1>3, <2>2, <3>3
  <2> QED BY <1>2, <2>1, <2>2, Zenon
<1>5. synced' \in 0..Len(log')
  BY <1>1, <1>4
<1> QED BY <1>1, <1>4, <1>5, ClosedInv, Zenon

LEMMA KvStepInv == ASSUME KvInv, [KvNext]_kvvars PROVE KvInv'
<1>1. CASE open
  BY <1>1, OpenInv, Zenon
<1>2. CASE close
  <2>1. log' = log /\ synced' = synced /\ isopen' = FALSE /\ index' = Empty
    BY <1>2, Zenon DEF close
  <2> QED BY <2>1, ClosedInv, Zenon DEF KvInv, KvTyped
<1>3. CASE sync
  <2>1. log' = log /\ synced' = Len(log) /\ isopen' = isopen /\ index' = index
    BY <1>3, Zenon DEF sync
  <2>2. synced' \in 0..Len(log')
    BY <2>1 DEF KvInv, KvTyped
  <2>3. \A k : Current(k)' = Current(k)
    BY <2>1, CurrentNow, CurrentThen, Zenon
  <2> QED BY <2>1, <2>2, <2>3, Zenon
          DEF KvInv, KvTyped, HasCurrent, GetFresh, Intact, Stops, has, get
<1>4. CASE Crash
  BY <1>4, CrashInv, Zenon
<1>5. CASE \E k \in Keys : delete(k)
  BY <1>5, DeleteInv, Zenon
<1>6. CASE \E k \in Keys, v \in Values : put(k, v)
  BY <1>6, PutInv, Zenon
<1>7. CASE \E k \in Keys : \E v \in Values \cup {None}, torn \in {"head", "tail"} : WriteFails(k, v, torn)
  BY <1>7, WriteFailsInv, Zenon
<1>8. CASE UNCHANGED kvvars
  <2>1. log' = log /\ synced' = synced /\ isopen' = isopen /\ index' = index
    BY <1>8, Zenon DEF kvvars
  <2>3. \A k : Current(k)' = Current(k)
    BY <2>1, CurrentNow, CurrentThen, Zenon
  <2> QED BY <2>1, <2>3, Zenon
          DEF KvInv, KvTyped, HasCurrent, GetFresh, Intact, Stops, has, get
<1> QED BY <1>1, <1>2, <1>3, <1>4, <1>5, <1>6, <1>7, <1>8, Zenon DEF KvNext

\* The index of the key-value store agrees with an intact log, and what was put since
\* the store was opened is read back, through any puts, deletes, failing writes,
\* crashes and reopens, for any keys and values (sl_kvstore.c).
THEOREM IndexRight == KvSpec => []IndexCurrent
<1>1. KvInv => IndexCurrent
  BY Zenon DEF KvInv, IndexCurrent
<1> QED BY <1>1, KvInitInv, KvStepInv, PTL DEF KvSpec
===============================================================================
