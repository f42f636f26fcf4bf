----------------------------- MODULE FileTransfer -----------------------------
(***************************************************************************)
(* FileSender, FileReceiver and sl_resume_map with a channel between them  *)
(* that loses, repeats, reorders and damages frames. The source file may   *)
(* be written by somebody else while it is sent, reads and writes of the   *)
(* destination fail, either end starts again. The application sends the    *)
(* metadata until it is taken and asks for what missing_chunks names, as   *)
(* the comment on missing_chunks says. Statistics are left out; faults and *)
(* restarts are bounded by their budgets, the channel by MaxWire. A name   *)
(* is one of the kinds the validation tells apart; data is a cell, a       *)
(* version of the bytes and their length; a digest is what it is a digest  *)
(* of, and so is a CRC.                                                    *)
(***************************************************************************)
EXTENDS TokenBucket, Sequences, FiniteSets

\* sl_file_meta.c and sl_file_chunk.c.
CONSTANTS ChunkMin, ChunkMax,    \* SL_FILE_CHUNK_MIN, SL_FILE_CHUNK_MAX
          MaxCount               \* 2^32, where total_chunks wraps

Cell(v, len) == [v |-> v, len |-> len]
Nothing == Cell(0, 0)

NameKinds == {"plain", "empty", "too_long", "separator", "dotdot", "control"}

CeilDiv(n, d) == (n + d - 1) \div d

\* sl_file_meta_validate.
meta_validate(m) ==
    /\ m.chunk_size \in ChunkMin..ChunkMax
    /\ m.name = "plain"
    /\ m.total_chunks = IF m.total_size = 0 THEN 0
                        ELSE CeilDiv(m.total_size, m.chunk_size)

Meta(size, chunk_size, name, sum) ==
    [total_size |-> size, chunk_size |-> chunk_size, name |-> name, sha256 |-> sum,
     total_chunks |-> IF size = 0 THEN 0 ELSE CeilDiv(size, chunk_size) % MaxCount]

\* What arrives: a frame whole, or damaged in its header or its data.
Damages == {"none", "reserved", "cut", "data"}

chunk_pack(i, data, last) ==
    [index |-> i, data |-> data, crc |-> data, last |-> last, damage |-> "none"]
Damaged(c, how) == [c EXCEPT !.damage = how]

chunk_unpacks(c) == c.damage \notin {"reserved", "cut"} /\ c.data.len <= ChunkMax
chunk_crc_ok(c) == c.damage # "data"
-------------------------------------------------------------------------------
CONSTANTS Sizes, ChunkSize,      \* bytes of the source file, chunk_size_
          Throttles,             \* capacity_bytes of set_throttle; 0: not called
          Rate,                  \* rate_bps
          MaxWire, MaxFaults, MaxRestarts

ASSUME TransferAssumption ==
    /\ ChunkSize \in Nat \ {0} /\ ChunkSize \in ChunkMin..ChunkMax
    /\ Sizes \subseteq Nat /\ MaxCount \in Nat
    /\ \A s \in Sizes : s + ChunkSize < MaxCount

VARIABLES source,      \* index of a chunk -> its bytes, as a cell
          capacity, bucket,
          sent_meta,   \* meta_ of the sender, or NoMeta
          next_idx,
          wire,        \* frames under way
          meta,        \* meta_ of the receiver when meta_set_, else NoMeta
          bits, received,        \* sl_resume_map_t
          file,        \* the destination: cells and how far each one extends
          hash_done, rx,         \* rx: the last FileRxResult
          spoilt,      \* history: the source was written, or the final read failed
          faults, restarts
sender == <<source, capacity, bucket, sent_meta, next_idx>>
receiver == <<meta, bits, received, file, hash_done, rx>>
ftvars == <<source, capacity, bucket, sent_meta, next_idx, wire, meta, bits, received,
          file, hash_done, rx, spoilt, faults, restarts>>

NoMeta == [total_chunks |-> 0]
Torn == -1

\* A file of size bytes, as the chunks it is read in.
Source(size) ==
    LET n == CeilDiv(size, ChunkSize)
    IN  [i \in 0..(n - 1) |->
            Cell(1, IF i = n - 1 THEN size - (n - 1) * ChunkSize ELSE ChunkSize)]

TransferInit ==
    /\ \E size \in Sizes : source = Source(size)
    /\ capacity \in Throttles
    /\ bucket = Bucket(capacity, Rate)
    /\ sent_meta = NoMeta /\ next_idx = 0
    /\ wire = {}
    /\ meta = NoMeta /\ bits = {} /\ received = 0 /\ file = <<>>
    /\ hash_done = FALSE /\ rx = "none"
    /\ spoilt = FALSE /\ faults = 0 /\ restarts = 0

Fault == faults < MaxFaults /\ faults' = faults + 1
NoFault == faults' = faults

-------------------------------------------------------------------------------
\* FileSender.


Last(f) == Cardinality(DOMAIN f) - 1
FileSize == IF source = <<>> THEN 0 ELSE Last(source) * ChunkSize + source[Last(source)].len

Content == [i \in 0..(CeilDiv(FileSize, ChunkSize) - 1) |-> source[i]]

\* open and compute_meta; a name that does not validate fails here, and opening
\* again starts the transfer over.
Open ==
    /\ sent_meta = NoMeta \/ restarts < MaxRestarts
    /\ restarts' = IF sent_meta = NoMeta THEN restarts ELSE restarts + 1
    /\ \E name \in NameKinds : sent_meta' = Meta(FileSize, ChunkSize, name, Content)
    /\ meta_validate(sent_meta')
    /\ next_idx' = 0
    /\ UNCHANGED <<source, capacity, bucket, wire, receiver, spoilt, faults>>

Room == Cardinality(wire) < MaxWire

\* The application sends the metadata while the receiver has none.
send_meta ==
    /\ sent_meta # NoMeta /\ meta = NoMeta /\ Room
    /\ meta_validate(sent_meta)
    /\ wire' = wire \cup {[meta |-> sent_meta]}
    /\ UNCHANGED <<sender, receiver, spoilt, faults, restarts>>

has_more == next_idx < sent_meta.total_chunks

\* What read returns at chunk i.
ReadAt(i) == IF i \in DOMAIN source THEN source[i] ELSE Nothing

\* send_next_chunk.  The tokens are gone whether or not the frame leaves.
Advance(ok) == next_idx' = IF ok THEN next_idx + 1 ELSE next_idx
send_next_chunk ==
    /\ has_more /\ Room
    /\ bucket' = IF capacity = 0 THEN bucket ELSE try_take(bucket, ChunkSize)
    /\ LET data == ReadAt(next_idx)
           may  == capacity = 0 \/ CanTake(bucket, ChunkSize)
           c    == chunk_pack(next_idx, data, next_idx + 1 = sent_meta.total_chunks)
       IN  IF ~may \/ data.len = 0
           THEN UNCHANGED <<next_idx, wire, faults>>
           ELSE \E ok \in BOOLEAN :
                   /\ IF ok THEN NoFault ELSE Fault
                   /\ Advance(ok)
                   /\ wire' = IF ok THEN wire \cup {c} ELSE wire
    /\ UNCHANGED <<source, capacity, sent_meta, receiver, spoilt, restarts>>

\* The application goes back to the first chunk that the receiver misses.
\* The variant stops one chunk short.
missing_chunks_short == (0..(meta.total_chunks - 2)) \ bits
missing_chunks == (0..(meta.total_chunks - 1)) \ bits
seek_chunk ==
    /\ ~has_more /\ meta # NoMeta /\ missing_chunks # {}
    /\ Min(missing_chunks) <= sent_meta.total_chunks
    /\ next_idx' = Min(missing_chunks)
    /\ UNCHANGED <<source, capacity, bucket, sent_meta, wire, receiver, spoilt, faults,
                   restarts>>

\* Time passes for the bucket.
TransferTick ==
    /\ bucket' = Passed(bucket) /\ bucket' # bucket
    /\ UNCHANGED <<source, capacity, sent_meta, next_idx, wire, receiver, spoilt, faults,
                   restarts>>

\* Somebody writes the source file: a chunk changes, the last one also in length.
Edit ==
    /\ Fault
    /\ \E i \in DOMAIN source, len \in 0..ChunkSize :
          /\ i # Last(source) => len = source[i].len
          /\ source' = [source EXCEPT ![i] = Cell(2, len)]
    /\ spoilt' = TRUE
    /\ UNCHANGED <<capacity, bucket, sent_meta, next_idx, wire, receiver, restarts>>

-------------------------------------------------------------------------------
\* FileReceiver.

\* The file that ftruncate leaves for metadata m: holes of the announced sizes.
Holes(m) ==
    [i \in 0..(m.total_chunks - 1) |->
        [v |-> 0, len |-> 0,
         ext |-> IF i < m.total_chunks - 1 THEN m.chunk_size
                 ELSE m.total_size - i * m.chunk_size]]

Answer(r) == rx' = r

Fresh(m) == file' = Holes(m) /\ bits' = {} /\ received' = 0

\* A failure after unpacking leaves meta_set_ false.
on_meta(m, damage) ==
    IF meta # NoMeta \/ damage # "none" \/ ~meta_validate(m)
    THEN Answer("kBadMeta") /\ NoFault /\ UNCHANGED <<meta, bits, received, file, hash_done>>
    ELSE \/ /\ Fault /\ Answer("kIoError")
            /\ UNCHANGED <<meta, bits, received, file, hash_done>>
         \/ /\ NoFault /\ Answer("kAccepted")
            /\ meta' = m /\ Fresh(m)
            /\ UNCHANGED hash_done

BadChunk(c) ==
    \/ ~chunk_unpacks(c)
    \/ c.index >= meta.total_chunks
    \/ c.data.len > meta.chunk_size
    \/ c.index + 1 < meta.total_chunks /\ c.data.len # meta.chunk_size
    \/ ~chunk_crc_ok(c)

\* A write of d bytes at a cell leaves the file at least as long as it was.
Written(old, c) ==
    [v |-> c.data.v, len |-> c.data.len, ext |-> Max({old.ext, c.data.len})]

\* pwrite fails after some bytes, which may already have made the file longer.
TornWrite(c) ==
    \E ext \in {file[c.index].ext, Max({file[c.index].ext, c.data.len})} :
        file' = [file EXCEPT ![c.index] = [v |-> Torn, len |-> 0, ext |-> ext]]

\* The digest of the file, read back from the disk, is the announced one; the
\* variant does not compare.
Matches_any(f, sum) == TRUE
Matches(f, sum) ==
    /\ DOMAIN f = DOMAIN sum
    /\ \A i \in DOMAIN f : f[i].v = sum[i].v /\ f[i].len = sum[i].len /\ f[i].ext = sum[i].len

\* All chunks are present: one pass over the file, never repeated once it ended.
Verify(f) ==
    \/ /\ NoFault /\ hash_done' = TRUE /\ UNCHANGED spoilt
       /\ Answer(IF Matches(f, meta.sha256) THEN "kComplete" ELSE "kHashMismatch")
    \/ /\ Fault /\ spoilt' = TRUE /\ UNCHANGED hash_done
       /\ Answer("kIoError")

\* sl_resume_map_set; the variant in on_chunk marks the chunk before writing it.
Mark(i) == bits' = bits \cup {i} /\ received' = received + 1
FailedWrite_marked(c) == TornWrite(c) /\ Mark(c.index)
FailedWrite(c) == TornWrite(c) /\ UNCHANGED <<bits, received>>

\* The answer to a chunk that is not written, or kAccepted.
Screen(c) ==
    IF meta = NoMeta THEN "kBadMeta"
    ELSE IF BadChunk(c) THEN "kBadChunk"
    ELSE IF c.index \in bits THEN "kDuplicate"
    ELSE "kAccepted"

on_chunk(c) ==
    /\ UNCHANGED meta
    /\ \/ /\ Screen(c) # "kAccepted"
          /\ Answer(Screen(c))
          /\ NoFault /\ UNCHANGED <<bits, received, file, hash_done, spoilt>>
       \/ /\ Screen(c) = "kAccepted"
          /\ \/ /\ c.data.len > 0
                /\ Fault /\ FailedWrite(c) /\ Answer("kIoError")
                /\ UNCHANGED <<hash_done, spoilt>>
             \/ /\ file' = [file EXCEPT ![c.index] = Written(@, c)]
                /\ Mark(c.index)
                /\ IF received' # meta.total_chunks
                   THEN NoFault /\ Answer("kAccepted") /\ UNCHANGED <<hash_done, spoilt>>
                   ELSE IF hash_done
                   THEN NoFault /\ Answer("kComplete") /\ UNCHANGED <<hash_done, spoilt>>
                   ELSE Verify(file')

is_complete == meta # NoMeta /\ received = meta.total_chunks /\ hash_done

\* A frame arrives, perhaps damaged; the channel may keep a copy.
Arrive(f, damage, keep) ==
    /\ wire' = IF keep THEN wire ELSE wire \ {f}
    /\ UNCHANGED <<sender, restarts>>
    /\ IF "meta" \in DOMAIN f THEN on_meta(f.meta, damage) /\ UNCHANGED spoilt
       ELSE on_chunk(Damaged(f, damage))
LoseFrame(f) ==
    /\ wire' = wire \ {f}
    /\ UNCHANGED <<sender, receiver, spoilt, faults, restarts>>

\* A new FileReceiver takes the place of the old one and will truncate the file.
Restart ==
    /\ restarts < MaxRestarts /\ meta # NoMeta
    /\ restarts' = restarts + 1
    /\ meta' = NoMeta /\ bits' = {} /\ received' = 0
    /\ hash_done' = FALSE /\ rx' = "none"
    /\ UNCHANGED <<sender, wire, file, spoilt, faults>>

-------------------------------------------------------------------------------
TransferNext ==
    \/ Open \/ send_meta \/ send_next_chunk \/ seek_chunk \/ TransferTick \/ Edit \/ Restart
    \/ \E f \in wire : \E damage \in Damages, keep \in BOOLEAN : Arrive(f, damage, keep)
    \/ \E f \in wire : LoseFrame(f)

\* A frame that is sent again and again arrives whole in the end.
MetaArrives == \E f \in wire : "meta" \in DOMAIN f /\ Arrive(f, "none", FALSE)
ChunkArrives(i) ==
    \E f \in wire : "index" \in DOMAIN f /\ f.index = i /\ Arrive(f, "none", FALSE)
MaxChunks == CeilDiv(Max(Sizes), ChunkSize)

Fairness ==
    /\ WF_ftvars(Open /\ sent_meta = NoMeta) /\ WF_ftvars(send_meta)
    /\ WF_ftvars(send_next_chunk) /\ WF_ftvars(seek_chunk) /\ WF_ftvars(TransferTick)
    /\ SF_ftvars(MetaArrives) /\ \A i \in 0..(MaxChunks - 1) : SF_ftvars(ChunkArrives(i))

TransferSpec == TransferInit /\ [][TransferNext]_ftvars
FairSpec == TransferSpec /\ Fairness

-------------------------------------------------------------------------------
\* A chunk marked in the map is whole in the destination file, whatever writes
\* failed and whatever copies arrived before, and received_chunks counts the map
\* (on_chunk, sl_resume_map_set).
BitmapTruthful ==
    /\ received = Cardinality(bits)
    /\ \A i \in bits : i \in DOMAIN file /\ file[i].v # Torn /\ file[i].v # 0

\* on_chunk answers kComplete only when the destination holds, byte for byte, the
\* file whose digest was announced, however the source was written meanwhile, and
\* is_complete holds from the first verdict on.
CompleteMeansSame ==
    /\ rx = "kComplete" =>
          /\ is_complete
          /\ DOMAIN file = DOMAIN meta.sha256
          /\ \A i \in DOMAIN file :
                LET sum == meta.sha256[i]
                IN  file[i] = [v |-> sum.v, len |-> sum.len, ext |-> sum.len]
    /\ is_complete => bits = DOMAIN file

\* The transfer of a file that keeps its content reaches a verdict again after
\* every fault and restart, provided that the file is not empty, a bucket can hold
\* a chunk and the file can be read back for its digest (send_next_chunk,
\* missing_chunks, seek_chunk, on_chunk).
Hopeless == spoilt \/ source = <<>> \/ capacity \in 1..(ChunkSize - 1)
Finishes == []<>(Hopeless \/ is_complete)
===============================================================================
