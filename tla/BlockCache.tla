----------------------------- MODULE BlockCache -----------------------------
(***************************************************************************)
(* drivers/src/block/block_cache.rs and the DiskDriver of fat32/src/lib.rs *)
(* on top of it: a write-back cache of whole blocks, first in first out,   *)
(* under a cursor that the FAT library seeks, reads and writes through.    *)
(*                                                                         *)
(* A call of the driver is never suspended.  One action is one iteration   *)
(* of its loop, because the machine may be switched off (or the kernel     *)
(* panic, which powers it off without a sync) between any two of them.     *)
(***************************************************************************)
EXTENDS Integers, Sequences, FiniteSets

CONSTANTS
  Blocks,            \* number of blocks of the device
  BLOCK_SIZE,
  BLOCK_CACHE_SIZE,
  Value,             \* values of a byte
  MaxLen             \* bound on the length of a buffer

ASSUME SizesAssumption ==
  /\ Blocks \in Nat \ {0} /\ BLOCK_SIZE \in Nat \ {0}
  /\ BLOCK_CACHE_SIZE \in Nat \ {0} /\ MaxLen \in Nat
ASSUME ValueAssumption == 0 \in Value

BlockId == 0 .. Blocks - 1
Offset == 0 .. BLOCK_SIZE - 1
Content == [Offset -> Value]

VARIABLES
  device,         \* the blocks on the device
  queue,          \* BlockCacheManager
  block_id, block_offset,  \* DiskDriver: the cursor
  op,             \* the call in progress: "read", "write", "flush" or "none"
  into, left,     \* of a read: the bytes read, and how many are left to read;
                  \* of a flush: how many cached blocks are left to sync
  buf,            \* of a write: the bytes left to write
  touched         \* history: blocks written to since the last flush

cursor == <<block_id, block_offset>>
call == <<op, into, left, buf>>
vars == <<device, queue, cursor, call, touched>>

Entry == [block_id : BlockId, cache : Content, modified : BOOLEAN]

TypeOK ==
  /\ device \in [BlockId -> Content]
  /\ queue \in Seq(Entry) /\ Len(queue) <= BLOCK_CACHE_SIZE
  /\ block_id \in 0 .. Blocks /\ block_offset \in Offset
  /\ op \in {"none", "read", "write", "flush"}
  /\ into \in Seq(Value) /\ left \in Nat /\ buf \in Seq(Value)
  /\ touched \subseteq BlockId

Init ==
  /\ device = [b \in BlockId |-> [o \in Offset |-> 0]]
  /\ queue = <<>>
  /\ block_id = 0 /\ block_offset = 0
  /\ op = "none" /\ into = <<>> /\ left = 0 /\ buf = <<>>
  /\ touched = {}

-----------------------------------------------------------------------------
(* The cache.                                                              *)

Cached(q) == {q[i].block_id : i \in DOMAIN q}

\* BlockCache::sync of one block, on the device.
Synced(d, e) == IF e.modified THEN [d EXCEPT ![e.block_id] = e.cache] ELSE d

\* get_block_cache() has to load `b` and the queue is full.  The references
\* it hands out live as long as one statement of the driver, so the first
\* block of the queue is always free to go.
Evicts(b) == b \notin Cached(queue) /\ Len(queue) = BLOCK_CACHE_SIZE

\* Mutant: the evicted block is dropped without a sync.
DeviceUnsynced(b) == device

\* The device and the queue that get_block_cache(b) leaves: the evicted
\* block is dropped, which syncs it, before `b` is read.
DeviceAfter(b) == IF Evicts(b) THEN Synced(device, Head(queue)) ELSE device

Loaded(b) == [block_id |-> b, cache |-> DeviceAfter(b)[b], modified |-> FALSE]

QueueAfter(b) ==
  IF b \in Cached(queue) THEN queue
  ELSE Append(IF Evicts(b) THEN Tail(queue) ELSE queue, Loaded(b))

IndexOf(q, b) == CHOOSE i \in DOMAIN q : q[i].block_id = b

-----------------------------------------------------------------------------
(* DiskDriver.                                                             *)

\* Mutant: the last byte of a block is left out.
ChunkShort(n) ==
  IF BLOCK_SIZE - 1 - block_offset < n THEN BLOCK_SIZE - 1 - block_offset ELSE n

\* The bytes an iteration handles: to the end of the block at most.
Chunk(n) == IF BLOCK_SIZE - block_offset < n THEN BLOCK_SIZE - block_offset ELSE n

Advance(n) ==
  IF block_offset + n >= BLOCK_SIZE
  THEN block_id' = block_id + 1 /\ block_offset' = block_offset + n - BLOCK_SIZE
  ELSE block_id' = block_id /\ block_offset' = block_offset + n

\* The device ends after its last block (a comment of the driver assumes
\* that nobody reads or writes beyond).
Position == block_id * BLOCK_SIZE + block_offset
Fits(n) == Position + n <= Blocks * BLOCK_SIZE

StartRead(n) ==
  /\ op = "none" /\ Fits(n)
  /\ op' = "read" /\ left' = n
  /\ UNCHANGED <<device, queue, cursor, into, buf, touched>>

StartWrite(bytes) ==
  /\ op = "none" /\ Fits(Len(bytes))
  /\ op' = "write" /\ buf' = bytes
  /\ UNCHANGED <<device, queue, cursor, into, left, touched>>

read ==
  LET n == Chunk(left)
      q == QueueAfter(block_id)
      e == q[IndexOf(q, block_id)]
  IN
  /\ op = "read" /\ left > 0
  /\ into' = into \o [i \in 1 .. n |-> e.cache[block_offset + i - 1]]
  /\ left' = left - n
  /\ queue' = q
  /\ device' = DeviceAfter(block_id)
  /\ Advance(n)
  /\ UNCHANGED <<op, buf, touched>>

\* Mutant: the block is not marked modified.
PatchedUnmarked(e, at, n, s) ==
  [e EXCEPT !.cache = [o \in Offset |-> IF at <= o /\ o < at + n THEN s[o - at + 1]
                                        ELSE e.cache[o]]]

\* BlockCache::write of n bytes of s at offset `at`.
Patched(e, at, n, s) ==
  [block_id |-> e.block_id,
   cache |-> [o \in Offset |-> IF at <= o /\ o < at + n THEN s[o - at + 1]
                               ELSE e.cache[o]],
   modified |-> TRUE]

write ==
  LET n == Chunk(Len(buf))
      q == QueueAfter(block_id)
      k == IndexOf(q, block_id)
  IN
  /\ op = "write" /\ buf # <<>>
  /\ queue' = [q EXCEPT ![k] = Patched(@, block_offset, n, buf)]
  /\ buf' = SubSeq(buf, n + 1, Len(buf))
  /\ device' = DeviceAfter(block_id)
  /\ touched' = touched \cup {block_id}
  /\ Advance(n)
  /\ UNCHANGED <<op, into, left>>

\* block_cache_sync_all(): the blocks of the queue, one after the other.
StartFlush ==
  /\ op = "none"
  /\ op' = "flush" /\ left' = Len(queue)
  /\ UNCHANGED <<device, queue, cursor, into, buf, touched>>

\* The block whose turn it is.
Turn == Len(queue) - left + 1

\* Mutant: the mark is cleared and nothing is written.
sync_mark ==
  /\ op = "flush" /\ left > 0
  /\ queue' = [queue EXCEPT ![Turn].modified = FALSE]
  /\ left' = left - 1
  /\ UNCHANGED <<device, cursor, op, into, buf, touched>>

sync ==
  /\ op = "flush" /\ left > 0
  /\ device' = Synced(device, queue[Turn])
  /\ queue' = [queue EXCEPT ![Turn].modified = FALSE]
  /\ left' = left - 1
  /\ UNCHANGED <<cursor, op, into, buf, touched>>

\* The loop is over, the caller has its bytes.
Return ==
  /\ (op \in {"read", "flush"} /\ left = 0) \/ (op = "write" /\ buf = <<>>)
  /\ op' = "none" /\ into' = <<>>
  /\ touched' = IF op = "flush" THEN {} ELSE touched
  /\ UNCHANGED <<device, queue, cursor, left, buf>>

\* SeekFrom::Start.  SeekFrom::Current adds to the position and fails, with
\* no effect, when the sum is negative; both end in the same assignment.
seek(offset) ==
  /\ op = "none"
  /\ block_id' = offset \div BLOCK_SIZE
  /\ block_offset' = offset % BLOCK_SIZE
  /\ UNCHANGED <<device, queue, call, touched>>

PowerOff ==
  /\ queue' = <<>>
  /\ block_id' = 0 /\ block_offset' = 0
  /\ op' = "none" /\ into' = <<>> /\ left' = 0 /\ buf' = <<>>
  /\ touched' = {}
  /\ UNCHANGED device

Next ==
  \/ \E n \in 0 .. MaxLen : StartRead(n)
  \/ \E n \in 0 .. MaxLen : \E bytes \in [1 .. n -> Value] : StartWrite(bytes)
  \/ StartFlush
  \/ read \/ write \/ sync \/ Return
  \/ \E offset \in 0 .. Blocks * BLOCK_SIZE : seek(offset)
  \/ PowerOff

Spec == Init /\ [][Next]_vars

-----------------------------------------------------------------------------
(* Safety.                                                                 *)

\* What a read of block b returns: the cached copy if there is one.
Current(b) == IF b \in Cached(queue) THEN queue[IndexOf(queue, b)].cache ELSE device[b]

(* The cache holds a block at most once, and a block that is not marked    *)
(* modified is the one on the device.                                      *)
CacheCoherent ==
  /\ \A i, j \in DOMAIN queue : queue[i].block_id = queue[j].block_id => i = j
  /\ \A i \in DOMAIN queue :
       ~queue[i].modified => queue[i].cache = device[queue[i].block_id]

(* A block that was not written to since the last flush returned survives  *)
(* a loss of power as it is, wherever in a later call it happens.          *)
FlushedIsDurable == \A b \in BlockId \ touched : device[b] = Current(b)

\* A call in progress: the other one's bytes are used up, what is left to
\* read or to write fits behind the cursor, and what a flush has passed is
\* clean.
CallInv ==
  /\ op \notin {"read", "flush"} => left = 0
  /\ op # "write" => buf = <<>>
  /\ op # "read" => into = <<>>
  /\ op = "read" => Fits(left)
  /\ Fits(Len(buf))
  /\ op = "flush" => /\ left <= Len(queue)
                     /\ \A i \in 1 .. Len(queue) - left : ~queue[i].modified

Inv == TypeOK /\ CacheCoherent /\ FlushedIsDurable /\ CallInv

Bytes(blocks) ==
  [a \in 0 .. Blocks * BLOCK_SIZE - 1 |-> blocks[a \div BLOCK_SIZE][a % BLOCK_SIZE]]

Dsk == INSTANCE Disk WITH
  Size <- Blocks * BLOCK_SIZE,
  data <- Bytes([b \in BlockId |-> Current(b)]),
  stable <- Bytes(device),
  pos <- Position,
  flushing <- op = "flush"

(* Driver, cache and device together are a flat array of bytes: calls that *)
(* span blocks, evictions and write-backs change nothing that reads        *)
(* return, and a loss of power, also between two blocks of a flush, leaves *)
(* what was written back; a flush that has returned has left nothing out.  *)
ImplementsDisk == Dsk!Spec

(* The loops of the driver end: each iteration, once begun with bytes to   *)
(* read or write or blocks to sync, leaves fewer of them, wherever in a    *)
(* block the call began.                                                   *)
LoopsProgress == [][op # "none" /\ op' = op => left' + Len(buf') < left + Len(buf)]_vars
=============================================================================
