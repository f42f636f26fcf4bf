----------------------------- MODULE IdentityFile -----------------------------
(***************************************************************************)
(* sl_identity_file_load_or_create of one process that is started again    *)
(* and again, with calls that fail and a machine that crashes.  A file     *)
(* holds an identity, NoFile or Half (what load refuses).                  *)
(***************************************************************************)
EXTENDS Integers

CONSTANTS MaxIds, MaxStarts    \* bounds: identities generated, starts

VARIABLES ipc, mem,    \* step, and the key pair in memory
          path, tmp,
          fsynced,     \* identities whose file a crash cannot take
          older,       \* what path may name again after a crash
          ids, starts,
          \* history: the identity handed out last, one that differs from it was, and
          \* a reason: a file that was there could not be read, a fsync failed, or a
          \* crash undid a rename
          handed, changed, excuse

ivars == <<ipc, mem, path, tmp, fsynced, older, ids, starts, handed, changed, excuse>>

NoFile == 0
Half == -1

IdInit ==
    /\ ipc = "off" /\ mem = 0 /\ path = NoFile /\ tmp = NoFile /\ fsynced = {}
    /\ older = {} /\ ids = 0 /\ starts = 0 /\ handed = 0 /\ changed = FALSE /\ excuse = FALSE

Return == ipc' = "off" /\ mem' = 0
HandOut(id) ==
    /\ handed' = id /\ changed' = (changed \/ handed \notin {0, id})
    /\ ipc' = "up" /\ mem' = id
-------------------------------------------------------------------------------
\* sl_identity_file_load.
load ==
    /\ ipc = "off" /\ starts < MaxStarts /\ starts' = starts + 1
    /\ \/ path \notin {NoFile, Half} /\ HandOut(path) /\ UNCHANGED excuse
       \/ /\ ipc' = "keygen" /\ excuse' = (excuse \/ path \notin {NoFile, Half})
          /\ UNCHANGED <<mem, handed, changed>>
    /\ UNCHANGED <<path, tmp, fsynced, older, ids>>

keygen ==
    /\ ipc = "keygen"
    /\ \/ Return /\ UNCHANGED ids
       \/ ids < MaxIds /\ ids' = ids + 1 /\ mem' = ids + 1 /\ ipc' = "write"
    /\ UNCHANGED <<path, tmp, fsynced, older, starts, handed, changed, excuse>>

\* sl_identity_file_save: open with O_TRUNC and write, or fail and unlink.
write ==
    /\ ipc = "write"
    /\ \/ Return /\ tmp' \in {tmp, NoFile}
       \/ tmp' = mem /\ ipc' = "fsync" /\ UNCHANGED mem
    /\ UNCHANGED <<path, fsynced, older, ids, starts, handed, changed, excuse>>

\* A fsync that fails is not noticed.  The variant does not call it.
fsync_never ==
    /\ ipc = "fsync" /\ ipc' = "rename"
    /\ UNCHANGED <<mem, path, tmp, fsynced, older, ids, starts, handed, changed, excuse>>
fsync ==
    /\ ipc = "fsync" /\ ipc' = "rename"
    /\ \/ fsynced' = fsynced \cup {mem} /\ UNCHANGED excuse
       \/ excuse' = TRUE /\ UNCHANGED fsynced
    /\ UNCHANGED <<mem, path, tmp, older, ids, starts, handed, changed>>

rename ==
    /\ ipc = "rename"
    /\ \/ Return /\ UNCHANGED <<path, tmp, older, handed, changed>>
       \/ path' = tmp /\ tmp' = NoFile /\ older' = older \cup {path} /\ HandOut(mem)
    /\ UNCHANGED <<fsynced, ids, starts, excuse>>

exit ==
    /\ ipc = "up" /\ Return
    /\ UNCHANGED <<path, tmp, fsynced, older, ids, starts, handed, changed, excuse>>

\* The machine stops: a rename may be undone, what was not fsynced is cut.
crash ==
    /\ Return /\ older' = {} /\ tmp' \in {NoFile, Half}
    /\ \E named \in older \cup {path} :
          /\ path' \in IF named \in fsynced \cup {NoFile} THEN {named} ELSE {named, Half}
          /\ excuse' = (excuse \/ named # path)
    /\ fsynced' = {path'} \ {NoFile, Half}
    /\ UNCHANGED <<ids, starts, handed, changed>>

IdNext == load \/ keygen \/ write \/ fsync \/ rename \/ exit \/ crash

IdSpec == IdInit /\ [][IdNext]_ivars
-------------------------------------------------------------------------------
\* An identity that was handed out once is handed out by every later start, through
\* failing writes and crashes at any point, unless a file that was there could not be
\* read, a fsync failed unnoticed, or a crash undid the rename; and without such a
\* reason path never names half a file (sl_identity_file.c 27-101).
IdentityKept == ~excuse => ~changed /\ path # Half
===============================================================================
