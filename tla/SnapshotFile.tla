----------------------------- MODULE SnapshotFile -----------------------------
(***************************************************************************)
(* sl_snapshot.c as SnapshotManager::save_now and restore use it: savers   *)
(* that write path.tmp part by part, fsync and rename it over path, and    *)
(* readers that load path in two passes.  A file is an inode with three    *)
(* parts (header, payload, CRC); the CRC is right when all parts are of    *)
(* one version.  Each FILE has its own position, so two savers of one tmp  *)
(* write over each other.  A crash may undo renames, and loses what was    *)
(* not fsynced.                                                            *)
(***************************************************************************)
EXTENDS Integers, FiniteSets

CONSTANTS Savers, Readers,
          MaxVersion,     \* bound: states of the component that is saved
          MaxInodes, MaxCrashes    \* bounds

ASSUME SnapshotAssumption == MaxVersion \in Nat \ {0} /\ MaxInodes \in Nat

VARIABLES version,     \* the state serialize_ would return now
          snap, snap_tmp,   \* path and path.tmp: an inode or NoInode
          data,        \* inode -> part -> version or Hole
          durable,     \* inodes whose data a crash cannot take
          renamed,     \* inodes path has named since the last crash
          saved,       \* version of the last save that returned 0, 0 after a crash
          pc, ver, fd, \* per saver
          rpc, rfd, size, got,
          floor,       \* per reader: saved when the restore began
          mixed, stale,    \* history: see RestoredWhole and RestoredFresh
          crashes,
          clean        \* history: no two saves overlapped and no fsync failed

saver == <<pc, ver, fd, saved, clean>>
reader == <<rpc, rfd, size, got, floor, mixed, stale>>
snapvars == <<version, snap, snap_tmp, data, durable, renamed, saver, reader, crashes>>

Inodes == 1..MaxInodes
NoInode == 0
Hole == 0
Failed == -1
Parts == {"header", "payload", "crc"}
After == [header |-> "payload", payload |-> "crc", crc |-> "fsync"]
Blank == [k \in Parts |-> Hole]
Whole(i) == \E v \in 1..MaxVersion : data[i] = [k \in Parts |-> v]

\* Payloads of two sizes, none empty.
Size(v) == 1 + (v % 2)

SnapInit ==
    /\ version = 1 /\ snap = NoInode /\ snap_tmp = NoInode
    /\ data = [i \in Inodes |-> Blank]
    /\ durable = {} /\ renamed = {NoInode} /\ saved = 0 /\ crashes = 0
    /\ clean = TRUE
    /\ pc = [s \in Savers |-> "idle"]
    /\ ver = [s \in Savers |-> Hole]
    /\ fd = [s \in Savers |-> NoInode]
    /\ rpc = [r \in Readers |-> "idle"]
    /\ rfd = [r \in Readers |-> NoInode]
    /\ size = [r \in Readers |-> 0]
    /\ got = [r \in Readers |-> Blank]
    /\ floor = [r \in Readers |-> 0]
    /\ mixed = FALSE /\ stale = FALSE

Goto(s, label) == pc' = [pc EXCEPT ![s] = label]

\* The component moves on.
Change ==
    /\ version < MaxVersion /\ version' = version + 1
    /\ UNCHANGED <<snap, snap_tmp, data, durable, renamed, saver, reader, crashes>>

Serialize(s) ==
    /\ pc[s] = "idle"
    /\ ver' = [ver EXCEPT ![s] = version]
    /\ Goto(s, "open")
    /\ clean' = (clean /\ \A t \in Savers : pc[t] = "idle")
    /\ UNCHANGED <<version, snap, snap_tmp, data, durable, renamed, fd, saved, reader, crashes>>

Free == Inodes \ ({snap, snap_tmp} \cup {fd[s] : s \in Savers} \cup {rfd[r] : r \in Readers}
                  \cup renamed)

\* fopen(tmp, "wb"): a new file, or the old one cut to nothing.
OpenTmp(s) ==
    /\ pc[s] = "open"
    /\ \E i \in IF snap_tmp = NoInode THEN Free ELSE {snap_tmp} :
           /\ snap_tmp = NoInode => \A j \in Free : i <= j
           /\ snap_tmp' = i /\ fd' = [fd EXCEPT ![s] = i]
           /\ data' = [data EXCEPT ![i] = Blank]
           /\ durable' = durable \ {i}
    /\ Goto(s, "header")
    /\ UNCHANGED <<version, snap, renamed, ver, saved, clean, reader, crashes>>

Write(s) ==
    /\ pc[s] \in Parts
    /\ data' = [data EXCEPT ![fd[s]][pc[s]] = ver[s]]
    /\ durable' = durable \ {fd[s]}
    /\ Goto(s, After[pc[s]])
    /\ UNCHANGED <<version, snap, snap_tmp, renamed, ver, fd, saved, clean, reader, crashes>>

\* A write or the flush fails: unlink(tmp) and return -1.  A file that has neither a
\* name nor a descriptor is gone.
SaveFails(s) ==
    /\ pc[s] \in Parts \cup {"fsync"}
    /\ snap_tmp' = NoInode
    /\ LET held == {snap} \cup renamed \cup {fd[t] : t \in Savers \ {s}}
                   \cup {rfd[r] : r \in Readers}
       IN  /\ data' = [i \in Inodes |-> IF i \in held THEN data[i] ELSE Blank]
           /\ durable' = durable \cap held
    /\ fd' = [fd EXCEPT ![s] = NoInode]
    /\ ver' = [ver EXCEPT ![s] = Hole]
    /\ Goto(s, "idle")
    /\ UNCHANGED <<version, snap, renamed, saved, clean, reader, crashes>>

\* A fsync that fails goes unnoticed.
FsyncSkipped(s) ==
    /\ pc[s] = "fsync" /\ Goto(s, "rename")
    /\ fd' = [fd EXCEPT ![s] = NoInode]
    /\ UNCHANGED <<version, snap, snap_tmp, data, durable, renamed, ver, saved, reader, crashes>>
FsyncFails(s) == FsyncSkipped(s) /\ clean' = FALSE
Fsync_never(s) == FsyncSkipped(s) /\ UNCHANGED clean

Fsync(s) ==
    /\ pc[s] = "fsync" /\ Goto(s, "rename")
    /\ durable' = durable \cup {fd[s]}
    /\ fd' = [fd EXCEPT ![s] = NoInode]
    /\ UNCHANGED <<version, snap, snap_tmp, data, renamed, ver, saved, clean, reader, crashes>>

\* rename fails when another saver has renamed or unlinked the file.  The
\* variant reports success without it.
Renamed_anyway(s) == pc[s] = "rename" /\ Goto(s, "idle")
    /\ snap_tmp' = NoInode
    /\ saved' = ver[s] /\ ver' = [ver EXCEPT ![s] = Hole]
    /\ UNCHANGED <<version, snap, renamed, data, durable, fd, clean, reader, crashes>>
Rename(s) ==
    /\ pc[s] = "rename" /\ Goto(s, "idle")
    /\ snap' = IF snap_tmp = NoInode THEN snap ELSE snap_tmp
    /\ saved' = IF snap_tmp = NoInode THEN saved ELSE ver[s]
    /\ renamed' = renamed \cup {snap'}
    /\ snap_tmp' = NoInode
    /\ ver' = [ver EXCEPT ![s] = Hole]
    /\ UNCHANGED <<version, data, durable, fd, clean, reader, crashes>>
-------------------------------------------------------------------------------
RGoto(r, label) == rpc' = [rpc EXCEPT ![r] = label]

\* restore returns: what is the version it hands over, Hole when there is nothing to
\* restore, or Failed; parts is what it read, since the version last saved at its start.
Done(r, what, parts, since) ==
    /\ RGoto(r, "idle")
    /\ mixed' = (mixed \/ (what \in 1..MaxVersion /\ parts # [k \in Parts |-> what]))
    /\ stale' = (stale \/ (clean /\ what # Failed /\ what < since))
    /\ size' = [size EXCEPT ![r] = 0] /\ floor' = [floor EXCEPT ![r] = 0]
    /\ got' = [got EXCEPT ![r] = Blank] /\ rfd' = [rfd EXCEPT ![r] = NoInode]

HeaderOf(i) == IF i = NoInode THEN Hole ELSE data[i].header

\* restore, first pass: the size; -1 (no file, no header) ends it with true.
Probe(r) ==
    /\ rpc[r] = "idle"
    /\ IF HeaderOf(snap) = Hole THEN Done(r, Hole, Blank, saved)
       ELSE /\ floor' = [floor EXCEPT ![r] = saved]
            /\ size' = [size EXCEPT ![r] = Size(HeaderOf(snap))]
            /\ RGoto(r, "open") /\ UNCHANGED <<got, rfd, mixed, stale>>
    /\ UNCHANGED <<version, snap, snap_tmp, data, durable, renamed, saver, crashes>>

\* Second pass: open, refuse a payload that has outgrown the buffer ...
Reopen(r) ==
    /\ rpc[r] = "open"
    /\ IF HeaderOf(snap) = Hole \/ Size(HeaderOf(snap)) > size[r]
       THEN Done(r, Failed, Blank, floor[r])
       ELSE /\ rfd' = [rfd EXCEPT ![r] = snap]
            /\ size' = [size EXCEPT ![r] = Size(HeaderOf(snap))]
            /\ RGoto(r, "payload") /\ UNCHANGED <<got, floor, mixed, stale>>
    /\ UNCHANGED <<version, snap, snap_tmp, data, durable, renamed, saver, crashes>>

\* ... read as many bytes as the header said, the CRC, the header once more,
\* and compare.  The variant leaves the CRC out.
Accepts_any(parts, n) == TRUE
Accepts(parts, n) ==
    /\ \A k \in Parts : parts[k] = parts.payload
    /\ parts.payload # Hole /\ Size(parts.payload) = n

ReadAfter == [payload |-> "crc", crc |-> "header"]

Read(r) ==
    /\ rpc[r] \in Parts
    /\ LET parts == [got[r] EXCEPT ![rpc[r]] = data[rfd[r]][rpc[r]]]
       IN  IF rpc[r] \in DOMAIN ReadAfter
           THEN /\ got' = [got EXCEPT ![r] = parts] /\ RGoto(r, ReadAfter[rpc[r]])
                /\ UNCHANGED <<rfd, size, floor, mixed, stale>>
           ELSE Done(r, IF Accepts(parts, size[r]) THEN parts.payload ELSE Failed, parts, floor[r])
    /\ UNCHANGED <<version, snap, snap_tmp, data, durable, renamed, saver, crashes>>

\* Renames may be undone, and data that was not fsynced is lost in any part.
SnapCrash ==
    /\ crashes < MaxCrashes /\ crashes' = crashes + 1
    /\ snap' \in renamed /\ renamed' = {snap'}
    /\ snap_tmp' = NoInode /\ saved' = 0
    /\ \E lost \in [Parts -> BOOLEAN] :
           data' = [i \in Inodes |-> IF i # snap' THEN Blank
                       ELSE IF i \in durable THEN data[i]
                       ELSE [k \in Parts |-> IF lost[k] THEN Hole ELSE data[i][k]]]
    /\ durable' = durable \cap {snap'} /\ size' = [r \in Readers |-> 0]
    /\ pc' = [s \in Savers |-> "idle"]
    /\ fd' = [s \in Savers |-> NoInode]
    /\ rpc' = [r \in Readers |-> "idle"]
    /\ rfd' = [r \in Readers |-> NoInode]
    /\ ver' = [s \in Savers |-> Hole]
    /\ floor' = [r \in Readers |-> 0]
    /\ got' = [r \in Readers |-> Blank]
    /\ UNCHANGED <<version, clean, mixed, stale>>

SaveStep(s) ==
    \/ Serialize(s) \/ OpenTmp(s) \/ Write(s) \/ SaveFails(s)
    \/ Fsync(s) \/ FsyncFails(s) \/ Rename(s)
LoadStep(r) == Probe(r) \/ Reopen(r) \/ Read(r)

SnapNext ==
    \/ Change \/ SnapCrash
    \/ \E s \in Savers : SaveStep(s)
    \/ \E r \in Readers : LoadStep(r)

SnapSpec == SnapInit /\ [][SnapNext]_snapvars
-------------------------------------------------------------------------------
\* sl_snapshot.h:7-8: "readers either see the old file or the new file, never a
\* half-written one".
OldOrNew == snap # NoInode => Whole(snap)

\* As long as one save at a time has used path.tmp and every fsync worked, path
\* names a whole snapshot, through failing writes and a crash at any point.
WholeIfClean == clean => OldOrNew

\* A restore that succeeds hands over one version as it was saved, whatever
\* savers did to the file meanwhile: the CRC rejects every mixture.
RestoredWhole == ~mixed

\* In the same circumstances, a restore that reports success has found a snapshot at least
\* as new as the last one whose save had returned when it began; it never says
\* "nothing to restore" then, and never hands over an older one.
RestoredFresh == ~stale

\* What a restore finds: all three of the above.
RestoredRight == WholeIfClean /\ RestoredWhole /\ RestoredFresh
===============================================================================
