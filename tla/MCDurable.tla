------------------------------ MODULE MCDurable -------------------------------
(***************************************************************************)
(* What is kept in files, each store checked by itself in one run: mode    *)
(* says whether the key-value store, the snapshot file, the audit log, the *)
(* event log or the identity file moves; the others stay in their initial  *)
(* state.  The savers of a snapshot are interchangeable.                   *)
(***************************************************************************)
EXTENDS KvStore, IdentityFile, SnapshotFile, TLC

CONSTANTS MaxCells, MaxEntries, MaxRecs

VARIABLES mode,
          file, isup, prev, entries, ends, astray,
          recs, evup, next_seq

audit == <<file, isup, prev, entries, ends, astray>>
events == <<recs, evup, next_seq>>

LG == INSTANCE Logs

SaverSymmetry == Permutations(Savers)

MCInit ==
    /\ mode \in {"kv", "snapshot", "audit", "events", "identity"}
    /\ KvInit /\ SnapInit /\ LG!AInit /\ LG!LInit /\ IdInit

MCNext ==
    \/ mode = "kv" /\ KvNext /\ UNCHANGED <<mode, snapvars, audit, events, ivars>>
    \/ mode = "snapshot" /\ SnapNext /\ UNCHANGED <<mode, kvvars, audit, events, ivars>>
    \/ mode = "audit" /\ LG!ANext /\ UNCHANGED <<mode, kvvars, snapvars, events, ivars>>
    \/ mode = "events" /\ LG!LNext /\ UNCHANGED <<mode, kvvars, snapvars, audit, ivars>>
    \/ mode = "identity" /\ IdNext /\ UNCHANGED <<mode, kvvars, snapvars, audit, events>>

MCSpec == MCInit /\ [][MCNext]_<<mode, kvvars, snapvars, audit, events, ivars>>

\* The two logs: see Logs.
LogsSound ==
    /\ mode = "audit" => LG!AuditSound
    /\ mode = "events" => LG!EventsNumbered
===============================================================================
