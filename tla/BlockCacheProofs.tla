-------------------------- MODULE BlockCacheProofs --------------------------
(***************************************************************************)
(* Theorems about BlockCache, for any number and size of blocks, any       *)
(* length of the queue and any length of calls.                            *)
(***************************************************************************)
EXTENDS BlockCache, TLAPS

-----------------------------------------------------------------------------
(* The queue as a set of blocks.                                           *)

Unique(q) == \A i, j \in DOMAIN q : q[i].block_id = q[j].block_id => i = j

Clean(q, d) == \A i \in DOMAIN q : ~q[i].modified => q[i].cache = d[q[i].block_id]

\* What a read of block b returns when the queue is q and the device d.
View(q, d, b) == IF b \in Cached(q) THEN q[IndexOf(q, b)].cache ELSE d[b]

LEMMA IndexOfEntry ==
  ASSUME NEW q, Unique(q), NEW i \in DOMAIN q
  PROVE  IndexOf(q, q[i].block_id) = i
  BY DEF Unique, IndexOf

LEMMA IndexOfCached ==
  ASSUME NEW q, NEW b \in Cached(q)
  PROVE  IndexOf(q, b) \in DOMAIN q /\ q[IndexOf(q, b)].block_id = b
  BY DEF Cached, IndexOf

LEMMA ViewOfEntry ==
  ASSUME NEW q, NEW d, Unique(q), NEW i \in DOMAIN q
  PROVE  View(q, d, q[i].block_id) = q[i].cache
  BY IndexOfEntry DEF View, Cached

\* Two queues and devices look alike when their entries do.
LEMMA SameView ==
  ASSUME NEW q, NEW d, Unique(q), NEW r, NEW e, NEW b,
         \A i \in DOMAIN q : q[i].block_id = b => q[i].cache = View(r, e, b),
         b \notin Cached(q) => d[b] = View(r, e, b)
  PROVE  View(q, d, b) = View(r, e, b)
  BY IndexOfCached DEF View

-----------------------------------------------------------------------------
(* get_block_cache(b).                                                     *)

CacheInv ==
  /\ device \in [BlockId -> Content]
  /\ queue \in Seq(Entry) /\ Len(queue) <= BLOCK_CACHE_SIZE
  /\ CacheCoherent
  /\ FlushedIsDurable

LEMMA CacheInvUnfolded ==
  ASSUME CacheInv
  PROVE  /\ Unique(queue) /\ Clean(queue, device)
         /\ \A i \in DOMAIN queue : queue[i] \in Entry
         /\ \A i \in DOMAIN queue :
              queue[i].block_id \notin touched => queue[i].cache = device[queue[i].block_id]
  <1>1. Unique(queue) /\ Clean(queue, device)
    BY DEF CacheInv, CacheCoherent, Unique, Clean
  <1>2. \A i \in DOMAIN queue : queue[i] \in Entry
    BY DEF CacheInv
  <1>3. ASSUME NEW i \in DOMAIN queue, queue[i].block_id \notin touched
        PROVE  queue[i].cache = device[queue[i].block_id]
    <2>1. queue[i].block_id \in BlockId \ touched
      BY <1>2, <1>3 DEF Entry
    <2>2. Current(queue[i].block_id) = queue[i].cache
      BY <1>1, ViewOfEntry DEF Current, View
    <2> QED BY <2>1, <2>2 DEF CacheInv, FlushedIsDurable
  <1> QED BY <1>1, <1>2, <1>3

\* The entries of the queue that get_block_cache(b) leaves are old entries,
\* all but an evicted first one, and the loaded block.
LEMMA QueueAfterEntries ==
  ASSUME CacheInv, NEW b \in BlockId
  PROVE  /\ QueueAfter(b) \in Seq(Entry)
         /\ Len(QueueAfter(b)) \in 1 .. BLOCK_CACHE_SIZE
         /\ DeviceAfter(b) \in [BlockId -> Content]
         /\ Unique(QueueAfter(b))
         /\ b \in Cached(QueueAfter(b))
         /\ Clean(QueueAfter(b), DeviceAfter(b))
         /\ \A x \in BlockId : View(QueueAfter(b), DeviceAfter(b), x) = Current(x)
         /\ \A x \in BlockId : DeviceAfter(b)[x] \in {device[x], Current(x)}
  <1> USE SizesAssumption
  <1>0. /\ Unique(queue) /\ Clean(queue, device)
        /\ \A i \in DOMAIN queue : queue[i] \in Entry
        /\ queue \in Seq(Entry) /\ Len(queue) <= BLOCK_CACHE_SIZE
        /\ device \in [BlockId -> Content]
    BY CacheInvUnfolded DEF CacheInv
  <1>1. CASE b \in Cached(queue)
    <2>1. QueueAfter(b) = queue /\ DeviceAfter(b) = device
      BY <1>1 DEF QueueAfter, DeviceAfter, Evicts
    <2>2. Len(queue) \in 1 .. BLOCK_CACHE_SIZE
      BY <1>1, <1>0 DEF Cached
    <2> QED BY <1>1, <1>0, <2>1, <2>2 DEF Current, View
  <1>2. CASE b \notin Cached(queue) /\ Len(queue) < BLOCK_CACHE_SIZE
    <2> DEFINE q == QueueAfter(b)
    <2>1. q = Append(queue, Loaded(b)) /\ DeviceAfter(b) = device
      BY <1>2, <1>0 DEF QueueAfter, DeviceAfter, Evicts
    <2>2. Loaded(b) = [block_id |-> b, cache |-> device[b], modified |-> FALSE]
          /\ Loaded(b) \in Entry
      BY <2>1, <1>0 DEF Loaded, Entry
    <2>3. /\ q \in Seq(Entry) /\ Len(q) = Len(queue) + 1
          /\ DOMAIN q = 1 .. Len(queue) + 1 /\ DOMAIN queue = 1 .. Len(queue)
          /\ q[Len(queue) + 1] = Loaded(b)
          /\ \A i \in DOMAIN queue : q[i] = queue[i]
      BY <2>1, <2>2, <1>0
    <2>4. \A i \in DOMAIN queue : queue[i].block_id # b
      BY <1>2 DEF Cached
    <2>5. Unique(q)
      <3> SUFFICES ASSUME NEW i \in DOMAIN q, NEW j \in DOMAIN q,
                          q[i].block_id = q[j].block_id
                   PROVE  i = j
        BY DEF Unique
      <3> HIDE DEF q
      <3>1. i \in DOMAIN queue \/ i = Len(queue) + 1
        BY <2>3, <1>0
      <3>2. j \in DOMAIN queue \/ j = Len(queue) + 1
        BY <2>3, <1>0
      <3> QED BY <3>1, <3>2, <2>2, <2>3, <2>4, <1>0 DEF Unique
    <2>6. b \in Cached(q)
      <3> HIDE DEF q
      <3> QED BY <2>2, <2>3, <1>0 DEF Cached
    <2>7. Clean(q, device)
      <3> HIDE DEF q
      <3>1. \A i \in DOMAIN q : i \in DOMAIN queue \/ i = Len(queue) + 1
        BY <2>3, <1>0
      <3> QED BY <3>1, <2>2, <2>3, <1>0 DEF Clean
    <2>8. ASSUME NEW x \in BlockId
          PROVE  View(q, device, x) = Current(x)
      <3> HIDE DEF q
      <3>1. \A i \in DOMAIN q : i \in DOMAIN queue \/ i = Len(queue) + 1
        BY <2>3, <1>0
      <3>2. \A i \in DOMAIN queue : queue[i].block_id = x => q[i].cache = View(queue, device, x)
        <4>1. \A i \in DOMAIN queue : View(queue, device, queue[i].block_id) = queue[i].cache
          BY <1>0, ViewOfEntry
        <4> QED BY <4>1, <2>3
      <3>3. q[Len(queue) + 1].block_id = x => q[Len(queue) + 1].cache = View(queue, device, x)
        BY <2>2, <2>3, <1>2 DEF View
      <3>4. x \notin Cached(q) => x \notin Cached(queue)
        BY <2>3 DEF Cached
      <3>5. x \notin Cached(q) => device[x] = View(queue, device, x)
        BY <3>4 DEF View
      <3>6. \A i \in DOMAIN q : q[i].block_id = x => q[i].cache = View(queue, device, x)
        BY <3>1, <3>2, <3>3, <2>3
      <3>7. View(q, device, x) = View(queue, device, x)
        BY <3>5, <3>6, <2>5, SameView
      <3> QED BY <3>7 DEF View, Current
    <2> QED BY <1>0, <1>2, <2>1, <2>3, <2>5, <2>6, <2>7, <2>8
  <1>3. CASE b \notin Cached(queue) /\ Len(queue) = BLOCK_CACHE_SIZE
    <2> DEFINE q == QueueAfter(b)
               d == DeviceAfter(b)
               h == Head(queue)
    <2>1. q = Append(Tail(queue), Loaded(b)) /\ d = Synced(device, h)
      BY <1>3, <1>0 DEF QueueAfter, DeviceAfter, Evicts
    <2>2. h = queue[1] /\ 1 \in DOMAIN queue /\ h \in Entry /\ DOMAIN queue = 1 .. Len(queue)
          /\ Len(queue) \in Nat \ {0}
      BY <1>3, <1>0
    <2>3. \A x \in BlockId : d[x] = IF x = h.block_id THEN h.cache ELSE device[x]
      BY <2>1, <2>2, <1>0 DEF Synced, Clean, Entry
    <2>4. d \in [BlockId -> Content]
      BY <2>1, <2>2, <1>0 DEF Synced, Entry
    <2>5. Loaded(b) = [block_id |-> b, cache |-> d[b], modified |-> FALSE]
          /\ Loaded(b) \in Entry
      BY <2>4 DEF Loaded, Entry
    <2>6. /\ q \in Seq(Entry) /\ Len(q) = Len(queue)
          /\ DOMAIN q = 1 .. Len(queue)
          /\ q[Len(queue)] = Loaded(b)
          /\ \A i \in 1 .. Len(queue) - 1 : q[i] = queue[i + 1] /\ i + 1 \in DOMAIN queue
      BY <2>1, <2>2, <2>5, <1>0
    <2> HIDE DEF q, d, h
    <2>7. \A i \in DOMAIN q : i \in 1 .. Len(queue) - 1 \/ i = Len(queue)
      BY <2>6, <2>2
    <2>8. \A i \in DOMAIN queue : queue[i].block_id # b
      BY <1>3 DEF Cached
    <2>9. \A i \in 1 .. Len(queue) - 1 : queue[i + 1].block_id # h.block_id
      BY <2>2, <2>6, <1>0 DEF Unique
    <2>10. Unique(q)
      <3> SUFFICES ASSUME NEW i \in DOMAIN q, NEW j \in DOMAIN q,
                          q[i].block_id = q[j].block_id
                   PROVE  i = j
        BY DEF Unique
      <3>1. CASE i \in 1 .. Len(queue) - 1 /\ j \in 1 .. Len(queue) - 1
        <4>1. i + 1 = j + 1
          BY <3>1, <2>6, <1>0 DEF Unique
        <4> QED BY <4>1, <3>1
      <3>2. CASE i = Len(queue) /\ j \in 1 .. Len(queue) - 1
        BY <3>2, <2>5, <2>6, <2>8
      <3>3. CASE j = Len(queue) /\ i \in 1 .. Len(queue) - 1
        <4>1. q[i] = queue[i + 1] /\ i + 1 \in DOMAIN queue /\ q[j].block_id = b
          BY <3>3, <2>5, <2>6
        <4> QED BY <4>1, <2>8
      <3> QED BY <3>1, <3>2, <3>3, <2>7
    <2>11. b \in Cached(q)
      BY <2>2, <2>5, <2>6 DEF Cached
    <2>12. Clean(q, d)
      <3> SUFFICES ASSUME NEW i \in DOMAIN q, ~q[i].modified
                   PROVE  q[i].cache = d[q[i].block_id]
        BY DEF Clean
      <3>1. CASE i \in 1 .. Len(queue) - 1
        <4>1. queue[i + 1].cache = device[queue[i + 1].block_id]
          BY <3>1, <2>6, <1>0 DEF Clean
        <4>2. queue[i + 1].block_id \in BlockId
          BY <3>1, <2>6, <1>0 DEF Entry
        <4> QED BY <4>1, <4>2, <3>1, <2>3, <2>6, <2>9
      <3>2. CASE i = Len(queue)
        BY <3>2, <2>5, <2>6
      <3> QED BY <3>1, <3>2, <2>7
    <2>13. ASSUME NEW x \in BlockId
           PROVE  View(q, d, x) = Current(x) /\ d[x] \in {device[x], Current(x)}
      <3>1. ASSUME NEW i \in 1 .. Len(queue) - 1, q[i].block_id = x
            PROVE  q[i].cache = View(queue, device, x)
        <4>1. q[i] = queue[i + 1] /\ i + 1 \in DOMAIN queue
          BY <2>6
        <4>2. View(queue, device, queue[i + 1].block_id) = queue[i + 1].cache
          BY <4>1, <1>0, ViewOfEntry
        <4> QED BY <4>1, <4>2, <3>1
      <3>2. d[x] = View(queue, device, x) \/ d[x] = device[x]
        <4>1. View(queue, device, h.block_id) = h.cache
          BY <2>2, <1>0, ViewOfEntry
        <4> QED BY <4>1, <2>3
      <3>3. x \notin Cached(queue) \/ x = h.block_id => d[x] = View(queue, device, x)
        <4>1. View(queue, device, h.block_id) = h.cache /\ h.block_id \in Cached(queue)
          BY <2>2, <1>0, ViewOfEntry DEF Cached
        <4> QED BY <4>1, <2>3 DEF View
      <3>4. q[Len(queue)].block_id = x => q[Len(queue)].cache = View(queue, device, x)
        BY <2>5, <2>6, <3>3, <1>3
      <3>5. ASSUME x \notin Cached(q), x \in Cached(queue)
            PROVE  x = h.block_id
        <4>1. PICK i \in DOMAIN queue : queue[i].block_id = x
          BY <3>5 DEF Cached
        <4>2. CASE i = 1
          BY <4>1, <4>2, <2>2
        <4>3. CASE i # 1
          <5>1. i - 1 \in 1 .. Len(queue) - 1 /\ (i - 1) + 1 = i
            BY <4>3, <2>2
          <5>2. q[i - 1] = queue[i] /\ i - 1 \in DOMAIN q
            BY <5>1, <2>6, <2>2
          <5> QED BY <5>2, <4>1, <3>5 DEF Cached
        <4> QED BY <4>2, <4>3
      <3>6. \A i \in DOMAIN q : q[i].block_id = x => q[i].cache = View(queue, device, x)
        BY <3>1, <3>4, <2>7
      <3>7. x \notin Cached(q) => d[x] = View(queue, device, x)
        BY <3>3, <3>5
      <3>8. View(q, d, x) = View(queue, device, x)
        BY <3>6, <3>7, <2>10, SameView
      <3> QED BY <3>2, <3>8 DEF View, Current
    <2> QED BY <1>3, <2>2, <2>4, <2>6, <2>10, <2>11, <2>12, <2>13 DEF q, d
  <1>4. Len(queue) \in Nat
    BY <1>0
  <1> QED BY <1>0, <1>1, <1>2, <1>3, <1>4

-----------------------------------------------------------------------------
(* Addresses and the cursor.                                               *)

LEMMA Address ==
  ASSUME NEW a \in Nat
  PROVE  /\ a \div BLOCK_SIZE \in Nat /\ a % BLOCK_SIZE \in Offset
         /\ a = (a \div BLOCK_SIZE) * BLOCK_SIZE + (a % BLOCK_SIZE)
  BY SizesAssumption, Z3 DEF Offset

LEMMA Multiple ==
  ASSUME NEW b \in Int, NEW c \in Int, b < c
  PROVE  b * BLOCK_SIZE + BLOCK_SIZE <= c * BLOCK_SIZE
  <1>1. PICK k \in Nat : c = b + 1 + k
    <2>1. c - b - 1 \in Nat /\ c = b + 1 + (c - b - 1)
      OBVIOUS
    <2> QED BY <2>1
  <1>2. c * BLOCK_SIZE = b * BLOCK_SIZE + BLOCK_SIZE + k * BLOCK_SIZE
    BY <1>1, SizesAssumption, Z3
  <1>3. k * BLOCK_SIZE \in Nat
    BY SizesAssumption
  <1>4. b * BLOCK_SIZE \in Int /\ BLOCK_SIZE \in Int /\ c * BLOCK_SIZE \in Int
    BY SizesAssumption
  <1> QED BY <1>2, <1>3, <1>4

\* Block and offset of an address are the ones it is made of.
LEMMA AddressUnique ==
  ASSUME NEW b \in Int, NEW o \in Offset, NEW c \in Int, NEW r \in Offset,
         b * BLOCK_SIZE + o = c * BLOCK_SIZE + r
  PROVE  b = c /\ o = r
  <1>1. ~(b < c)
    <2> SUFFICES ASSUME b < c PROVE FALSE
      OBVIOUS
    <2>1. b * BLOCK_SIZE + BLOCK_SIZE <= c * BLOCK_SIZE
      BY Multiple
    <2>2. b * BLOCK_SIZE \in Int /\ c * BLOCK_SIZE \in Int
      BY SizesAssumption
    <2> QED BY <2>1, <2>2, SizesAssumption DEF Offset
  <1>2. ~(c < b)
    <2> SUFFICES ASSUME c < b PROVE FALSE
      OBVIOUS
    <2>1. c * BLOCK_SIZE + BLOCK_SIZE <= b * BLOCK_SIZE
      BY Multiple
    <2>2. b * BLOCK_SIZE \in Int /\ c * BLOCK_SIZE \in Int
      BY SizesAssumption
    <2> QED BY <2>1, <2>2, SizesAssumption DEF Offset
  <1>3. b = c
    BY <1>1, <1>2
  <1>4. b * BLOCK_SIZE \in Int
    BY SizesAssumption
  <1> QED BY <1>3, <1>4, SizesAssumption DEF Offset

LEMMA AddressOf ==
  ASSUME NEW b \in Int, NEW o \in Offset, b >= 0
  PROVE  /\ b * BLOCK_SIZE + o \in Nat
         /\ (b * BLOCK_SIZE + o) \div BLOCK_SIZE = b
         /\ (b * BLOCK_SIZE + o) % BLOCK_SIZE = o
  <1>1. b * BLOCK_SIZE + o \in Nat
    BY SizesAssumption DEF Offset
  <1>2. /\ (b * BLOCK_SIZE + o) \div BLOCK_SIZE \in Nat
        /\ (b * BLOCK_SIZE + o) % BLOCK_SIZE \in Offset
        /\ b * BLOCK_SIZE + o = ((b * BLOCK_SIZE + o) \div BLOCK_SIZE) * BLOCK_SIZE
                                 + ((b * BLOCK_SIZE + o) % BLOCK_SIZE)
    BY <1>1, Address
  <1> QED BY <1>1, <1>2, AddressUnique

LEMMA AddressBound ==
  ASSUME NEW b \in Nat, NEW o \in Offset
  PROVE  /\ b * BLOCK_SIZE + o < Blocks * BLOCK_SIZE <=> b \in BlockId
         /\ b * BLOCK_SIZE + o <= Blocks * BLOCK_SIZE => b \in 0 .. Blocks
  <1>0. b * BLOCK_SIZE \in Int /\ Blocks * BLOCK_SIZE \in Int /\ BLOCK_SIZE \in Nat \ {0} /\ Blocks \in Nat
    BY SizesAssumption
  <1>1. CASE b < Blocks
    <2>1. b * BLOCK_SIZE + BLOCK_SIZE <= Blocks * BLOCK_SIZE
      BY <1>1, <1>0, Multiple
    <2> QED BY <2>1, <1>0, <1>1 DEF Offset, BlockId
  <1>2. CASE b = Blocks
    BY <1>2, <1>0 DEF Offset, BlockId
  <1>3. CASE b > Blocks
    <2>1. Blocks * BLOCK_SIZE + BLOCK_SIZE <= b * BLOCK_SIZE
      BY <1>3, <1>0, Multiple
    <2> QED BY <2>1, <1>0, <1>3 DEF Offset, BlockId
  <1> QED BY <1>0, <1>1, <1>2, <1>3

\* An iteration handles at least one byte, up to the end of the block.
LEMMA ChunkRange ==
  ASSUME block_offset \in Offset, NEW n \in Nat \ {0}
  PROVE  Chunk(n) \in 1 .. n /\ block_offset + Chunk(n) <= BLOCK_SIZE
  BY SizesAssumption DEF Chunk, Offset

LEMMA CursorMoves ==
  ASSUME block_id \in 0 .. Blocks, block_offset \in Offset,
         NEW n \in Nat \ {0}, block_offset + n <= BLOCK_SIZE, Fits(n), Advance(n)
  PROVE  /\ block_id \in BlockId
         /\ block_id' \in 0 .. Blocks /\ block_offset' \in Offset
         /\ Position \in Nat /\ Position' = Position + n
  <1>1. block_id \in BlockId
    <2>1. block_id * BLOCK_SIZE \in Nat /\ Blocks * BLOCK_SIZE \in Nat
      BY SizesAssumption
    <2> QED BY <2>1, SizesAssumption DEF Fits, Position, BlockId, Offset
  <1>2. block_id' \in 0 .. Blocks /\ block_offset' \in Offset
    BY <1>1, SizesAssumption DEF Advance, BlockId, Offset
  <1>3. Position' = Position + n
    <2>1. CASE block_offset + n >= BLOCK_SIZE
      <3>1. block_id' = block_id + 1 /\ block_offset' = block_offset + n - BLOCK_SIZE
        BY <2>1 DEF Advance
      <3>2. (block_id + 1) * BLOCK_SIZE = block_id * BLOCK_SIZE + BLOCK_SIZE
        BY <1>1, SizesAssumption DEF BlockId
      <3>3. block_id * BLOCK_SIZE \in Int
        BY <1>1, SizesAssumption DEF BlockId
      <3> QED BY <3>1, <3>2, <3>3, SizesAssumption DEF Position, Offset
    <2>2. CASE ~(block_offset + n >= BLOCK_SIZE)
      <3>1. block_id' = block_id /\ block_offset' = block_offset + n
        BY <2>2 DEF Advance
      <3>3. block_id * BLOCK_SIZE \in Int
        BY <1>1, SizesAssumption DEF BlockId
      <3> QED BY <3>1, <3>3, SizesAssumption DEF Position, Offset
    <2> QED BY <2>1, <2>2
  <1>4. Position \in Nat
    BY SizesAssumption DEF Position, Offset
  <1> QED BY <1>1, <1>2, <1>3, <1>4

\* BlockCache::write replaces one entry by a modified one of the same block.
LEMMA EntryReplaced ==
  ASSUME NEW q, NEW d, Unique(q), Clean(q, d),
         NEW k \in DOMAIN q, NEW r, DOMAIN r = DOMAIN q,
         r[k].block_id = q[k].block_id, r[k].modified,
         \A i \in DOMAIN q : i # k => r[i] = q[i]
  PROVE  /\ Unique(r) /\ Clean(r, d)
         /\ View(r, d, q[k].block_id) = r[k].cache
         /\ \A x : x # q[k].block_id => View(r, d, x) = View(q, d, x)
  <1>3. \A i \in DOMAIN r : r[i].block_id = q[i].block_id
    OBVIOUS
  <1>4. Unique(r)
    BY <1>3 DEF Unique
  <1>5. Clean(r, d)
    BY DEF Clean
  <1>6. View(r, d, q[k].block_id) = r[k].cache
    BY <1>4, ViewOfEntry
  <1>7. ASSUME NEW x, x # q[k].block_id
        PROVE  View(r, d, x) = View(q, d, x)
    <2>1. ASSUME NEW i \in DOMAIN r, r[i].block_id = x
          PROVE  r[i].cache = View(q, d, x)
      <3>1. i # k /\ i \in DOMAIN q /\ r[i] = q[i]
        BY <2>1, <1>7
      <3>2. View(q, d, q[i].block_id) = q[i].cache
        BY <3>1, ViewOfEntry
      <3> QED BY <3>1, <3>2, <2>1
    <2>2. Cached(r) = Cached(q)
      BY <1>3 DEF Cached
    <2>3. x \notin Cached(r) => d[x] = View(q, d, x)
      BY <2>2 DEF View
    <2>4. \A i \in DOMAIN r : r[i].block_id = x => r[i].cache = View(q, d, x)
      BY <2>1
    <2> QED BY <2>3, <2>4, <1>4, SameView
  <1> QED BY <1>4, <1>5, <1>6, <1>7

-----------------------------------------------------------------------------
(* Every step preserves Inv.  For the refinement the lemmas also say what  *)
(* a step does to what a read returns.                                     *)

LEMMA CacheInvFolded ==
  ASSUME Unique(queue)', Clean(queue, device)',
         \A x \in BlockId \ touched' : device'[x] = View(queue', device', x)
  PROVE  CacheCoherent' /\ FlushedIsDurable'
  BY DEF CacheCoherent, Unique, Clean, FlushedIsDurable, View, Current

LEMMA InvFacts ==
  ASSUME Inv
  PROVE  /\ CacheInv
         /\ \A x \in BlockId : Current(x) = View(queue, device, x)
         /\ \A x \in BlockId \ touched : device[x] = Current(x)
         /\ Position \in Nat
  <1>1. Position \in Nat
    BY SizesAssumption DEF Inv, TypeOK, Position, Offset
  <1> QED BY <1>1 DEF Inv, TypeOK, CacheInv, FlushedIsDurable, View, Current

\* The cached blocks, the device and the cursor are left alone.
Quiet == UNCHANGED <<device, queue, block_id, block_offset, touched>>

LEMMA QuietInv ==
  ASSUME Inv, Quiet
  PROVE  /\ CacheCoherent' /\ FlushedIsDurable'
         /\ \A x \in BlockId : (Current(x))' = Current(x)
         /\ Position' = Position
  BY DEF Quiet, Inv, CacheCoherent, FlushedIsDurable, Current, Cached, IndexOf, Position

LEMMA StartReadInv ==
  ASSUME Inv, NEW n \in 0 .. MaxLen, StartRead(n)
  PROVE  Inv' /\ Quiet
  <1>1. Quiet
    BY DEF StartRead, Quiet, cursor
  <1>2. TypeOK'
    BY DEF Inv, TypeOK, StartRead, cursor
  <1>3. CallInv'
    BY <1>1, QuietInv DEF Inv, TypeOK, CallInv, StartRead, cursor, Fits
  <1> QED BY <1>1, <1>2, <1>3, QuietInv DEF Inv

LEMMA StartWriteInv ==
  ASSUME Inv, NEW n \in 0 .. MaxLen, NEW bytes \in [1 .. n -> Value], StartWrite(bytes)
  PROVE  Inv' /\ Quiet /\ bytes \in Seq(Value)
  <1>1. Quiet
    BY DEF StartWrite, Quiet, cursor
  <1>2. bytes \in Seq(Value)
    BY SizesAssumption
  <1>3. TypeOK'
    BY <1>2 DEF Inv, TypeOK, StartWrite, cursor
  <1>4. CallInv'
    BY <1>1, QuietInv DEF Inv, TypeOK, CallInv, StartWrite, cursor, Fits
  <1> QED BY <1>1, <1>2, <1>3, <1>4, QuietInv DEF Inv

LEMMA StartFlushInv ==
  ASSUME Inv, StartFlush
  PROVE  Inv' /\ Quiet
  <1>1. Quiet
    BY DEF StartFlush, Quiet, cursor
  <1>2. Len(queue) \in Nat
    BY DEF Inv, TypeOK
  <1>3. TypeOK'
    BY <1>2 DEF Inv, TypeOK, StartFlush, cursor
  <1>4. CallInv'
    BY <1>1, <1>2, QuietInv DEF Inv, TypeOK, CallInv, StartFlush, cursor, Fits
  <1> QED BY <1>1, <1>3, <1>4, QuietInv DEF Inv

\* When every cached block is clean the device is what a read returns.
LEMMA AllClean ==
  ASSUME Inv, op = "flush", left = 0
  PROVE  \A x \in BlockId : device[x] = Current(x)
  <1>1. /\ CacheInv /\ \A x \in BlockId : Current(x) = View(queue, device, x)
    BY InvFacts
  <1>2. Unique(queue) /\ Clean(queue, device) /\ queue \in Seq(Entry)
    BY <1>1, CacheInvUnfolded DEF CacheInv
  <1>3. DOMAIN queue = 1 .. Len(queue) /\ Len(queue) \in Nat
    BY <1>2
  <1>4. \A i \in DOMAIN queue : ~queue[i].modified
    BY <1>3 DEF Inv, CallInv
  <1>5. ASSUME NEW x \in BlockId PROVE device[x] = Current(x)
    <2>1. CASE x \in Cached(queue)
      <3>1. IndexOf(queue, x) \in DOMAIN queue /\ queue[IndexOf(queue, x)].block_id = x
        BY <2>1, IndexOfCached
      <3> QED BY <3>1, <2>1, <1>2, <1>4 DEF Clean, Current
    <2>2. CASE x \notin Cached(queue)
      BY <2>2 DEF Current
    <2> QED BY <2>1, <2>2
  <1> QED BY <1>5

LEMMA ReturnInv ==
  ASSUME Inv, Return
  PROVE  /\ Inv'
         /\ UNCHANGED <<device, queue, block_id, block_offset>>
         /\ \A x \in BlockId : (Current(x))' = Current(x)
         /\ Position' = Position
  <1>1. UNCHANGED <<device, queue, block_id, block_offset, left, buf>> /\ op' = "none"
    BY DEF Return, cursor
  <1>2. /\ \A x \in BlockId : (Current(x))' = Current(x)
        /\ Position' = Position /\ CacheCoherent'
    BY <1>1 DEF Inv, CacheCoherent, Current, Cached, IndexOf, Position
  <1>3. TypeOK'
    BY <1>1 DEF Inv, TypeOK, Return
  <1>4. CallInv'
    BY <1>1, <1>2 DEF Inv, TypeOK, CallInv, Return, Fits
  <1>5. FlushedIsDurable'
    <2>1. CASE op = "flush"
      BY <2>1, <1>1, <1>2, AllClean DEF FlushedIsDurable, Return
    <2>2. CASE op # "flush"
      <3>1. touched' = touched /\ FlushedIsDurable
        BY <2>2 DEF Return, Inv
      <3> QED BY <3>1, <1>1, <1>2 DEF FlushedIsDurable
    <2> QED BY <2>1, <2>2
  <1> QED BY <1>1, <1>2, <1>3, <1>4, <1>5 DEF Inv

\* An iteration of read() changes the cache and the device below what a read
\* returns, and moves the cursor.
LEMMA ReadInv ==
  ASSUME Inv, read
  PROVE  /\ Inv'
         /\ \A x \in BlockId : (Current(x))' = Current(x)
         /\ \A x \in BlockId : device'[x] \in {device[x], Current(x)}
         /\ Chunk(left) \in 1 .. left /\ block_offset + Chunk(left) <= BLOCK_SIZE
         /\ block_id \in BlockId /\ Position' = Position + Chunk(left)
         /\ into' = into \o [i \in 1 .. Chunk(left) |-> Current(block_id)[block_offset + i - 1]]
  <1> DEFINE n == Chunk(left)
             q == QueueAfter(block_id)
             e == q[IndexOf(q, block_id)]
  <1> USE SizesAssumption
  <1>1. /\ CacheInv /\ \A x \in BlockId : Current(x) = View(queue, device, x)
        /\ \A x \in BlockId \ touched : device[x] = Current(x)
        /\ Position \in Nat
    BY InvFacts
  <1>2. left \in Nat \ {0} /\ block_offset \in Offset /\ block_id \in 0 .. Blocks
    BY DEF Inv, TypeOK, read
  <1>3. n \in 1 .. left /\ block_offset + n <= BLOCK_SIZE
    BY <1>2, ChunkRange
  <1>4. Fits(left) /\ Fits(n)
    BY <1>1, <1>2, <1>3 DEF Inv, CallInv, Fits, read
  <1>5. Advance(n) /\ left' = left - n /\ queue' = q /\ device' = DeviceAfter(block_id)
        /\ touched' = touched /\ op' = op /\ buf' = buf /\ op = "read"
        /\ into' = into \o [i \in 1 .. n |-> e.cache[block_offset + i - 1]]
    BY DEF read
  <1>6. /\ block_id \in BlockId /\ block_id' \in 0 .. Blocks /\ block_offset' \in Offset
        /\ Position' = Position + n
    BY <1>2, <1>3, <1>4, <1>5, CursorMoves
  <1>7. /\ queue' \in Seq(Entry) /\ Len(queue') <= BLOCK_CACHE_SIZE
        /\ device' \in [BlockId -> Content]
        /\ Unique(queue') /\ Clean(queue', device')
        /\ block_id \in Cached(queue')
        /\ \A x \in BlockId : View(queue', device', x) = Current(x)
        /\ \A x \in BlockId : device'[x] \in {device[x], Current(x)}
    BY <1>1, <1>5, <1>6, QueueAfterEntries
  <1>8. e.cache = Current(block_id)
    BY <1>5, <1>6, <1>7 DEF View
  <1>9. \A x \in BlockId : (Current(x))' = Current(x)
    BY <1>7 DEF View, Current
  <1>10. CacheCoherent' /\ FlushedIsDurable'
    <2>1. \A x \in BlockId \ touched' : device'[x] = View(queue', device', x)
      BY <1>1, <1>5, <1>7
    <2> QED BY <2>1, <1>7, CacheInvFolded
  <1>11. Current(block_id) \in Content
    <2>1. IndexOf(queue', block_id) \in DOMAIN queue'
      BY <1>7, IndexOfCached
    <2>2. queue'[IndexOf(queue', block_id)] \in Entry
      BY <2>1, <1>7
    <2>3. e \in Entry
      BY <2>2, <1>5
    <2> HIDE DEF e
    <2> QED BY <2>3, <1>8 DEF Entry
  <1>12. into' \in Seq(Value)
    <2>1. [i \in 1 .. n |-> Current(block_id)[block_offset + i - 1]] \in Seq(Value)
      <3>1. \A i \in 1 .. n : block_offset + i - 1 \in Offset
        BY <1>2, <1>3 DEF Offset
      <3>2. \A i \in 1 .. n : Current(block_id)[block_offset + i - 1] \in Value
        BY <3>1, <1>11 DEF Content
      <3> HIDE DEF n
      <3> QED BY <3>2, <1>3, <1>2
    <2>2. into' = into \o [i \in 1 .. n |-> Current(block_id)[block_offset + i - 1]]
      BY <1>5, <1>8
    <2>3. into \in Seq(Value)
      BY DEF Inv, TypeOK
    <2> QED BY <2>1, <2>2, <2>3
  <1>13. TypeOK'
    <2>1. left' \in Nat
      <3> HIDE DEF n
      <3> QED BY <1>2, <1>3, <1>5
    <2>2. op' \in {"none", "read", "write", "flush"} /\ buf' \in Seq(Value) /\ touched' \subseteq BlockId
      BY <1>5 DEF Inv, TypeOK
    <2> QED BY <2>1, <2>2, <1>6, <1>7, <1>12 DEF TypeOK
  <1>14. CallInv'
    <2>1. left' \in Nat /\ Position' + left' = Position + left
      BY <1>1, <1>2, <1>3, <1>5, <1>6, SMTT(40)
    <2>2. buf = <<>> /\ Len(buf) = 0
      BY <1>5 DEF Inv, CallInv
    <2>3. Position' + 0 <= Blocks * BLOCK_SIZE
      BY <1>1, <1>3, <1>4, <1>6 DEF Fits
    <2> QED BY <2>1, <2>2, <2>3, <1>4, <1>5 DEF CallInv, Fits
  <1> QED BY <1>3, <1>5, <1>6, <1>7, <1>8, <1>9, <1>10, <1>13, <1>14 DEF Inv

\* An iteration of write() changes the bytes at the cursor and no others.
LEMMA WriteInv ==
  ASSUME Inv, write
  PROVE  /\ Inv'
         /\ \A x \in BlockId : (Current(x))' =
              IF x # block_id THEN Current(x)
              ELSE [o \in Offset |-> IF block_offset <= o /\ o < block_offset + Chunk(Len(buf))
                                     THEN buf[o - block_offset + 1] ELSE Current(x)[o]]
         /\ \A x \in BlockId : device'[x] \in {device[x], Current(x)}
         /\ Chunk(Len(buf)) \in 1 .. Len(buf)
         /\ block_offset + Chunk(Len(buf)) <= BLOCK_SIZE
         /\ block_id \in BlockId /\ Position' = Position + Chunk(Len(buf))
  <1> DEFINE n == Chunk(Len(buf))
             q == QueueAfter(block_id)
             k == IndexOf(q, block_id)
             new == [o \in Offset |-> IF block_offset <= o /\ o < block_offset + n
                                      THEN buf[o - block_offset + 1] ELSE q[k].cache[o]]
  <1> USE SizesAssumption
  <1>1. /\ CacheInv /\ \A x \in BlockId : Current(x) = View(queue, device, x)
        /\ \A x \in BlockId \ touched : device[x] = Current(x)
        /\ Position \in Nat
    BY InvFacts
  <1>2. buf \in Seq(Value) /\ Len(buf) \in Nat \ {0}
        /\ block_offset \in Offset /\ block_id \in 0 .. Blocks
    BY DEF Inv, TypeOK, write
  <1>3. n \in 1 .. Len(buf) /\ block_offset + n <= BLOCK_SIZE
    BY <1>2, ChunkRange
  <1>4. Fits(Len(buf)) /\ Fits(n)
    BY <1>1, <1>2, <1>3 DEF Inv, CallInv, Fits
  <1>5. Advance(n) /\ buf' = SubSeq(buf, n + 1, Len(buf)) /\ device' = DeviceAfter(block_id)
        /\ queue' = [q EXCEPT ![k] = Patched(@, block_offset, n, buf)]
        /\ touched' = touched \cup {block_id} /\ op' = op /\ into' = into /\ left' = left
        /\ op = "write"
    BY DEF write
  <1>6. /\ block_id \in BlockId /\ block_id' \in 0 .. Blocks /\ block_offset' \in Offset
        /\ Position' = Position + n
    <2> HIDE DEF n
    <2>1. n \in Nat \ {0}
      BY <1>2, <1>3
    <2> QED BY <2>1, <1>2, <1>3, <1>4, <1>5, CursorMoves
  <1>7. /\ q \in Seq(Entry) /\ Len(q) <= BLOCK_CACHE_SIZE
        /\ device' \in [BlockId -> Content]
        /\ Unique(q) /\ Clean(q, device')
        /\ block_id \in Cached(q)
        /\ \A x \in BlockId : View(q, device', x) = Current(x)
        /\ \A x \in BlockId : device'[x] \in {device[x], Current(x)}
    BY <1>1, <1>5, <1>6, QueueAfterEntries
  <1>8. k \in DOMAIN q /\ q[k].block_id = block_id /\ q[k] \in Entry
    BY <1>7, IndexOfCached
  <1>9. q[k].cache = Current(block_id)
    BY <1>6, <1>7 DEF View
  <1>10. new \in Content
    <2> SUFFICES ASSUME NEW o \in Offset
                 PROVE  new[o] \in Value
      BY DEF Content
    <2>1. CASE block_offset <= o /\ o < block_offset + n
      <3>1. o - block_offset + 1 \in 1 .. Len(buf)
        BY <2>1, <1>2, <1>3 DEF Offset
      <3> HIDE DEF n
      <3> QED BY <3>1, <2>1, <1>2
    <2>2. CASE ~(block_offset <= o /\ o < block_offset + n)
      BY <2>2, <1>8 DEF Entry, Content
    <2> QED BY <2>1, <2>2
  <1>11. Patched(q[k], block_offset, n, buf)
           = [block_id |-> block_id, cache |-> new, modified |-> TRUE]
    BY <1>8 DEF Patched
  <1>12. [block_id |-> block_id, cache |-> new, modified |-> TRUE] \in Entry
    BY <1>6, <1>10 DEF Entry
  <1> HIDE DEF new, q, k
  <1>13. /\ queue' \in Seq(Entry) /\ Len(queue') = Len(q) /\ DOMAIN queue' = DOMAIN q
         /\ queue'[k] = [block_id |-> block_id, cache |-> new, modified |-> TRUE]
         /\ \A i \in DOMAIN q : i # k => queue'[i] = q[i]
    BY <1>5, <1>7, <1>8, <1>11, <1>12
  <1>14. /\ Unique(queue') /\ Clean(queue', device')
         /\ View(queue', device', block_id) = new
         /\ \A x : x # block_id => View(queue', device', x) = View(q, device', x)
    <2>1. queue'[k].block_id = q[k].block_id /\ queue'[k].modified /\ queue'[k].cache = new
      BY <1>8, <1>13
    <2>2. Unique(q) /\ Clean(q, device') /\ k \in DOMAIN q
      BY <1>7, <1>8
    <2>3. DOMAIN queue' = DOMAIN q /\ \A i \in DOMAIN q : i # k => queue'[i] = q[i]
      BY <1>13
    <2>4. /\ Unique(queue') /\ Clean(queue', device')
          /\ View(queue', device', q[k].block_id) = queue'[k].cache
          /\ \A x : x # q[k].block_id => View(queue', device', x) = View(q, device', x)
      BY <2>1, <2>2, <2>3, EntryReplaced
    <2> QED BY <2>1, <2>4, <1>8
  <1>15. ASSUME NEW x \in BlockId
         PROVE  (Current(x))' = IF x # block_id THEN Current(x) ELSE new
    <2>1. (Current(x))' = View(queue', device', x)
      BY DEF View, Current
    <2> QED BY <2>1, <1>7, <1>14
  <1>16. CacheCoherent' /\ FlushedIsDurable'
    <2>1. \A x \in BlockId \ touched' : device'[x] = View(queue', device', x)
      BY <1>1, <1>5, <1>7, <1>14
    <2> QED BY <2>1, <1>14, CacheInvFolded
  <1>17. buf' \in Seq(Value) /\ Len(buf') = Len(buf) - n
    <2> HIDE DEF n
    <2> QED BY <1>2, <1>3, <1>5
  <1>18. TypeOK'
    BY <1>5, <1>6, <1>7, <1>13, <1>17 DEF Inv, TypeOK
  <1>19. CallInv'
    <2>1. Position' + Len(buf') = Position + Len(buf)
      BY <1>1, <1>2, <1>3, <1>6, <1>17
    <2>2. left = 0 /\ into = <<>>
      BY <1>5 DEF Inv, CallInv
    <2>3. Position' + 0 <= Blocks * BLOCK_SIZE
      BY <1>1, <1>3, <1>4, <1>6 DEF Fits
    <2> QED BY <2>1, <2>2, <2>3, <1>4, <1>5 DEF CallInv, Fits
  <1>20. new = [o \in Offset |-> IF block_offset <= o /\ o < block_offset + n
                                  THEN buf[o - block_offset + 1] ELSE Current(block_id)[o]]
    BY <1>9 DEF new
  <1> QED BY <1>3, <1>6, <1>7, <1>15, <1>16, <1>18, <1>19, <1>20 DEF Inv

\* An iteration of block_cache_sync_all() brings one block of the device up to
\* date and changes nothing that a read returns.
LEMMA SyncInv ==
  ASSUME Inv, sync
  PROVE  /\ Inv'
         /\ \A x \in BlockId : /\ (Current(x))' = Current(x)
                               /\ device'[x] \in {device[x], Current(x)}
         /\ Position' = Position
  <1> DEFINE k == Turn
             e == queue[k]
  <1>1. /\ CacheInv /\ \A x \in BlockId : Current(x) = View(queue, device, x)
        /\ \A x \in BlockId \ touched : device[x] = Current(x)
    BY InvFacts
  <1>2. /\ Unique(queue) /\ Clean(queue, device)
        /\ queue \in Seq(Entry) /\ Len(queue) <= BLOCK_CACHE_SIZE
        /\ device \in [BlockId -> Content]
        /\ \A i \in DOMAIN queue : queue[i] \in Entry
    BY <1>1, CacheInvUnfolded DEF CacheInv
  <1>3. /\ op = "flush" /\ left > 0 /\ left' = left - 1
        /\ device' = Synced(device, e)
        /\ queue' = [queue EXCEPT ![k].modified = FALSE]
        /\ UNCHANGED <<block_id, block_offset, op, into, buf, touched>>
    BY DEF sync, cursor
  <1>4. /\ left \in Nat /\ Len(queue) \in Nat /\ left <= Len(queue)
        /\ DOMAIN queue = 1 .. Len(queue) /\ k = Len(queue) - left + 1
    BY <1>2, <1>3 DEF Inv, TypeOK, CallInv, Turn
  <1>5. k \in DOMAIN queue
    BY <1>3, <1>4
  <1> HIDE DEF k
  <1>6. /\ e \in Entry /\ e.block_id \in BlockId /\ e.cache \in Content
        /\ ~e.modified => e.cache = device[e.block_id]
    BY <1>2, <1>5 DEF Clean, Entry
  <1>7. /\ DOMAIN queue' = DOMAIN queue /\ ~queue'[k].modified
        /\ \A i \in DOMAIN queue : /\ queue'[i].block_id = queue[i].block_id
                                   /\ queue'[i].cache = queue[i].cache
                                   /\ i # k => queue'[i] = queue[i]
    BY <1>2, <1>3, <1>5 DEF Entry
  <1>8. queue' \in Seq(Entry) /\ Len(queue') = Len(queue)
    <2>1. [e EXCEPT !.modified = FALSE] \in Entry
      BY <1>6 DEF Entry
    <2>2. queue' = [queue EXCEPT ![k] = [e EXCEPT !.modified = FALSE]]
      BY <1>3, <1>5
    <2> QED BY <2>1, <2>2, <1>2, <1>5
  <1>9. /\ \A x \in BlockId : device'[x] = IF x = e.block_id THEN e.cache ELSE device[x]
        /\ device' \in [BlockId -> Content]
    <2> HIDE DEF e
    <2>1. CASE e.modified
      BY <2>1, <1>2, <1>3, <1>6 DEF Synced
    <2>2. CASE ~e.modified
      BY <2>2, <1>2, <1>3, <1>6 DEF Synced
    <2> QED BY <2>1, <2>2
  <1>10. \A i \in DOMAIN queue : queue[i].block_id \in BlockId
                                 /\ queue[i].cache = Current(queue[i].block_id)
    <2>1. \A i \in DOMAIN queue : queue[i].block_id \in BlockId
      BY <1>2 DEF Entry
    <2>2. \A i \in DOMAIN queue : View(queue, device, queue[i].block_id) = queue[i].cache
      BY <1>2, ViewOfEntry
    <2> QED BY <1>1, <2>1, <2>2
  <1>11. Unique(queue')
    BY <1>2, <1>7 DEF Unique
  <1>12. Clean(queue', device')
    <2> SUFFICES ASSUME NEW i \in DOMAIN queue, ~queue'[i].modified
                 PROVE  queue'[i].cache = device'[queue'[i].block_id]
      BY <1>7 DEF Clean
    <2>1. CASE i = k
      BY <2>1, <1>6, <1>7, <1>9
    <2>2. CASE i # k
      <3>1. queue'[i] = queue[i] /\ queue[i].block_id # e.block_id
        BY <2>2, <1>2, <1>5, <1>7 DEF Unique
      <3> QED BY <3>1, <1>2, <1>9, <1>10 DEF Clean
    <2> QED BY <2>1, <2>2
  <1>13. ASSUME NEW x \in BlockId
         PROVE  device'[x] \in {device[x], Current(x)}
    BY <1>5, <1>9, <1>10
  <1>14. ASSUME NEW x \in BlockId
         PROVE  View(queue', device', x) = Current(x)
    <2>1. \A i \in DOMAIN queue' :
            queue'[i].block_id = x => queue'[i].cache = View(queue, device, x)
      BY <1>1, <1>7, <1>10
    <2>2. x \notin Cached(queue') => device'[x] = View(queue, device, x)
      <3>1. Cached(queue') = Cached(queue)
        BY <1>7 DEF Cached
      <3>2. e.block_id \in Cached(queue)
        BY <1>5 DEF Cached
      <3> QED BY <3>1, <3>2, <1>9 DEF View
    <2>3. View(queue', device', x) = View(queue, device, x)
      BY <2>1, <2>2, <1>11, SameView
    <2> QED BY <2>3, <1>1
  <1>15. CacheCoherent' /\ FlushedIsDurable'
    <2>1. \A x \in BlockId \ touched' : device'[x] = View(queue', device', x)
      BY <1>1, <1>3, <1>13, <1>14
    <2> QED BY <2>1, <1>11, <1>12, CacheInvFolded
  <1>16. \A x \in BlockId : (Current(x))' = Current(x)
    BY <1>14 DEF View, Current
  <1>17. Position' = Position
    BY <1>3 DEF Position
  <1>18. TypeOK'
    BY <1>2, <1>3, <1>4, <1>8, <1>9 DEF Inv, TypeOK
  <1>19. CallInv'
    <2>1. ASSUME NEW i \in 1 .. Len(queue') - left' PROVE ~queue'[i].modified
      <3>1. i \in DOMAIN queue /\ (i = k \/ i \in 1 .. Len(queue) - left)
        BY <1>3, <1>4, <1>8
      <3>2. CASE i = k
        BY <3>2, <1>7
      <3>3. CASE i # k /\ i \in 1 .. Len(queue) - left
        BY <3>1, <3>3, <1>3, <1>7 DEF Inv, CallInv
      <3> QED BY <3>1, <3>2, <3>3
    <2>2. left' <= Len(queue')
      BY <1>3, <1>4, <1>8
    <2> QED BY <2>1, <2>2, <1>3, <1>17 DEF Inv, CallInv, Fits
  <1> QED BY <1>13, <1>15, <1>16, <1>17, <1>18, <1>19 DEF Inv

LEMMA SeekInv ==
  ASSUME Inv, NEW offset \in 0 .. Blocks * BLOCK_SIZE, seek(offset)
  PROVE  /\ Inv' /\ Position' = offset
         /\ \A x \in BlockId : (Current(x))' = Current(x)
  <1> USE SizesAssumption
  <1>0. Blocks * BLOCK_SIZE \in Nat /\ offset \in Nat
    OBVIOUS
  <1>1. /\ offset \div BLOCK_SIZE \in Nat /\ offset % BLOCK_SIZE \in Offset
        /\ offset = (offset \div BLOCK_SIZE) * BLOCK_SIZE + (offset % BLOCK_SIZE)
    BY <1>0, Address
  <1>2. offset \div BLOCK_SIZE \in 0 .. Blocks
    <2>1. (offset \div BLOCK_SIZE) * BLOCK_SIZE + (offset % BLOCK_SIZE) <= Blocks * BLOCK_SIZE
      BY <1>1, <1>0
    <2> QED BY <2>1, <1>1, AddressBound
  <1>3. /\ block_id' = offset \div BLOCK_SIZE /\ block_offset' = offset % BLOCK_SIZE
        /\ op = "none" /\ UNCHANGED <<device, queue, op, into, left, buf, touched>>
    BY DEF seek, call
  <1>4. Position' = offset
    BY <1>1, <1>3 DEF Position
  <1>5. TypeOK'
    BY <1>1, <1>2, <1>3 DEF Inv, TypeOK
  <1>6. CacheCoherent' /\ FlushedIsDurable' /\ \A x \in BlockId : (Current(x))' = Current(x)
    BY <1>3 DEF Inv, CacheCoherent, FlushedIsDurable, Current, Cached, IndexOf
  <1>7. CallInv'
    <2>1. left = 0 /\ buf = <<>> /\ Len(buf) = 0 /\ into = <<>>
      BY <1>3 DEF Inv, CallInv
    <2> QED BY <2>1, <1>0, <1>3, <1>4 DEF CallInv, Fits
  <1> QED BY <1>4, <1>5, <1>6, <1>7 DEF Inv

LEMMA PowerOffInv ==
  ASSUME Inv, PowerOff
  PROVE  /\ Inv' /\ Position' = 0
         /\ \A x \in BlockId : (Current(x))' = device[x]
  <1> USE SizesAssumption
  <1>1. /\ queue' = <<>> /\ block_id' = 0 /\ block_offset' = 0 /\ device' = device
        /\ op' = "none" /\ into' = <<>> /\ left' = 0 /\ buf' = <<>> /\ touched' = {}
    BY DEF PowerOff
  <1>2. Position' = 0
    BY <1>1 DEF Position
  <1>3. \A x \in BlockId : (Current(x))' = device[x]
    BY <1>1 DEF Current, Cached
  <1>4. TypeOK'
    BY <1>1 DEF Inv, TypeOK, Offset
  <1>5. CacheCoherent' /\ FlushedIsDurable'
    BY <1>1, <1>3 DEF CacheCoherent, FlushedIsDurable
  <1>6. CallInv'
    <2>1. Blocks * BLOCK_SIZE \in Nat
      OBVIOUS
    <2> QED BY <2>1, <1>1, <1>2 DEF CallInv, Fits
  <1> QED BY <1>2, <1>3, <1>4, <1>5, <1>6 DEF Inv

LEMMA InitInv ==
  ASSUME Init
  PROVE  Inv /\ \A x \in BlockId : Current(x) = device[x]
  <1> USE SizesAssumption, ValueAssumption
  <1>1. \A x \in BlockId : Current(x) = device[x]
    BY DEF Init, Current, Cached
  <1>2. TypeOK
    BY DEF Init, TypeOK, Content, Offset
  <1>3. CacheCoherent /\ FlushedIsDurable
    BY <1>1 DEF Init, CacheCoherent, FlushedIsDurable
  <1>4. CallInv
    <2>1. Blocks * BLOCK_SIZE \in Nat
      OBVIOUS
    <2> QED BY <2>1 DEF Init, CallInv, Fits, Position
  <1> QED BY <1>1, <1>2, <1>3, <1>4 DEF Inv

LEMMA NextInv ==
  ASSUME Inv, [Next]_vars
  PROVE  Inv'
  <1>1. CASE \E n \in 0 .. MaxLen : StartRead(n)
    BY <1>1, StartReadInv
  <1>2. CASE \E n \in 0 .. MaxLen : \E bytes \in [1 .. n -> Value] : StartWrite(bytes)
    BY <1>2, StartWriteInv
  <1>3. CASE read
    BY <1>3, ReadInv
  <1>4. CASE write
    BY <1>4, WriteInv
  <1>5. CASE Return
    BY <1>5, ReturnInv
  <1>6. CASE sync
    BY <1>6, SyncInv
  <1>7. CASE \E offset \in 0 .. Blocks * BLOCK_SIZE : seek(offset)
    BY <1>7, SeekInv
  <1>8. CASE PowerOff
    BY <1>8, PowerOffInv
  <1>9. CASE UNCHANGED vars
    BY <1>9 DEF vars, cursor, call, Inv, TypeOK, CacheCoherent, FlushedIsDurable, CallInv,
                Fits, Position, Current, Cached, IndexOf
  <1>10. CASE StartFlush
    BY <1>10, StartFlushInv
  <1> QED BY <1>1, <1>2, <1>3, <1>4, <1>5, <1>6, <1>7, <1>8, <1>9, <1>10 DEF Next

-----------------------------------------------------------------------------
(* Theorems.                                                               *)

(* Whatever the driver is asked to do, however calls span blocks and       *)
(* wherever the power goes off, Inv holds: it is inductive.                *)
THEOREM Invariance == Spec => []Inv
  <1>1. Init => Inv
    BY InitInv
  <1>2. Inv /\ [Next]_vars => Inv'
    BY NextInv
  <1> QED BY <1>1, <1>2, PTL DEF Spec

(* The queue never outgrows BLOCK_CACHE_SIZE, the cursor stays on the      *)
(* device or at its end, and every block is a block.                       *)
THEOREM Typing == Spec => []TypeOK
  <1>1. Inv => TypeOK
    BY DEF Inv
  <1> QED BY <1>1, Invariance, PTL

(* get_block_cache() never caches a block twice and never leaves a changed *)
(* block unmarked, so evicting one loses nothing.                          *)
THEOREM Coherence == Spec => []CacheCoherent
  <1>1. Inv => CacheCoherent
    BY DEF Inv
  <1> QED BY <1>1, Invariance, PTL

(* After block_cache_sync_all() a loss of power takes only blocks that     *)
(* were written to since.                                                  *)
THEOREM Durability == Spec => []FlushedIsDurable
  <1>1. Inv => FlushedIsDurable
    BY DEF Inv
  <1> QED BY <1>1, Invariance, PTL

(* Every iteration of the driver's loops leaves fewer bytes to read or to  *)
(* write, or blocks to sync, whatever the block size and wherever the call began: they end.   *)
THEOREM Progress == Spec => LoopsProgress
  <1> DEFINE Shrinks == op # "none" /\ op' = op => left' + Len(buf') < left + Len(buf)
  <1>1. ASSUME Inv, [Next]_vars
        PROVE  [Shrinks]_vars
    <2>1. CASE read
      <3>1. Chunk(left) \in 1 .. left /\ left' = left - Chunk(left) /\ buf' = buf
        BY <1>1, <2>1, ReadInv DEF read
      <3>2. left \in Nat /\ Len(buf) \in Nat
        BY <1>1 DEF Inv, TypeOK
      <3> QED BY <3>1, <3>2
    <2>2. CASE write
      <3>1. Chunk(Len(buf)) \in 1 .. Len(buf) /\ left' = left
            /\ buf' = SubSeq(buf, Chunk(Len(buf)) + 1, Len(buf))
        BY <1>1, <2>2, WriteInv DEF write
      <3>2. left \in Nat /\ buf \in Seq(Value) /\ Len(buf) \in Nat
        BY <1>1 DEF Inv, TypeOK
      <3>3. Len(buf') = Len(buf) - Chunk(Len(buf))
        BY <3>1, <3>2
      <3> QED BY <3>1, <3>2, <3>3
    <2>3. CASE \E n \in 0 .. MaxLen : StartRead(n)
      BY <2>3 DEF StartRead
    <2>4. CASE \E n \in 0 .. MaxLen : \E bytes \in [1 .. n -> Value] : StartWrite(bytes)
      BY <2>4 DEF StartWrite
    <2>5. CASE StartFlush \/ Return \/ PowerOff
      BY <2>5 DEF StartFlush, Return, PowerOff
    <2>6. CASE \E offset \in 0 .. Blocks * BLOCK_SIZE : seek(offset)
      BY <2>6 DEF seek
    <2>7. CASE sync
      <3>1. left \in Nat /\ Len(buf) \in Nat
        BY <1>1 DEF Inv, TypeOK
      <3> QED BY <2>7, <3>1 DEF sync
    <2> QED BY <1>1, <2>1, <2>2, <2>3, <2>4, <2>5, <2>6, <2>7 DEF Next
  <1> QED BY <1>1, Invariance, PTL DEF Spec, LoopsProgress

-----------------------------------------------------------------------------
(* The refinement of Disk.                                                 *)

Data == Bytes([b \in BlockId |-> Current(b)])

\* Each address has a block and an offset in it.
LEMMA ByteOf ==
  ASSUME NEW a \in 0 .. Blocks * BLOCK_SIZE - 1
  PROVE  /\ a \div BLOCK_SIZE \in BlockId /\ a % BLOCK_SIZE \in Offset
         /\ a = (a \div BLOCK_SIZE) * BLOCK_SIZE + (a % BLOCK_SIZE)
         /\ Data[a] = Current(a \div BLOCK_SIZE)[a % BLOCK_SIZE]
         /\ Bytes(device)[a] = device[a \div BLOCK_SIZE][a % BLOCK_SIZE]
  <1>0. Blocks * BLOCK_SIZE \in Nat /\ a \in Nat
    BY SizesAssumption
  <1>1. /\ a \div BLOCK_SIZE \in Nat /\ a % BLOCK_SIZE \in Offset
        /\ a = (a \div BLOCK_SIZE) * BLOCK_SIZE + (a % BLOCK_SIZE)
    BY <1>0, Address
  <1>2. a \div BLOCK_SIZE \in BlockId
    <2>1. (a \div BLOCK_SIZE) * BLOCK_SIZE + (a % BLOCK_SIZE) < Blocks * BLOCK_SIZE
      BY <1>1, <1>0
    <2> QED BY <2>1, <1>1, AddressBound
  <1> HIDE DEF BlockId
  <1> QED BY <1>1, <1>2 DEF Data, Bytes

\* The bytes of a block behind the cursor.
LEMMA ByteAt ==
  ASSUME Inv, block_id \in BlockId, NEW o \in Offset
  PROVE  /\ block_id * BLOCK_SIZE + o \in 0 .. Blocks * BLOCK_SIZE - 1
         /\ Data[block_id * BLOCK_SIZE + o] = Current(block_id)[o]
  <1>0. block_id \in Nat /\ Blocks * BLOCK_SIZE \in Nat /\ block_id * BLOCK_SIZE + o \in Int
    BY SizesAssumption DEF BlockId, Offset
  <1>1. /\ block_id * BLOCK_SIZE + o \in Nat
        /\ (block_id * BLOCK_SIZE + o) \div BLOCK_SIZE = block_id
        /\ (block_id * BLOCK_SIZE + o) % BLOCK_SIZE = o
    BY <1>0, AddressOf
  <1>2. block_id * BLOCK_SIZE + o < Blocks * BLOCK_SIZE
    BY <1>0, AddressBound
  <1>3. block_id * BLOCK_SIZE + o \in 0 .. Blocks * BLOCK_SIZE - 1
    BY <1>0, <1>1, <1>2
  <1>4. Data[block_id * BLOCK_SIZE + o]
          = Current((block_id * BLOCK_SIZE + o) \div BLOCK_SIZE)[(block_id * BLOCK_SIZE + o) % BLOCK_SIZE]
    BY <1>3, ByteOf
  <1> QED BY <1>1, <1>3, <1>4

LEMMA SameData ==
  ASSUME \A x \in BlockId : (Current(x))' = Current(x)
  PROVE  Data' = Data
  <1>1. [b \in BlockId |-> Current(b)]' = [b \in BlockId |-> Current(b)]
    OBVIOUS
  <1> HIDE DEF Current
  <1> QED BY <1>1 DEF Data, Bytes

LEMMA BytesWrittenBack ==
  ASSUME \A x \in BlockId : device'[x] \in {device[x], Current(x)}
  PROVE  /\ DOMAIN Bytes(device') = 0 .. Blocks * BLOCK_SIZE - 1
         /\ \A a \in 0 .. Blocks * BLOCK_SIZE - 1 :
              Bytes(device')[a] \in {Bytes(device)[a], Data[a]}
  <1>1. DOMAIN Bytes(device') = 0 .. Blocks * BLOCK_SIZE - 1
    BY DEF Bytes
  <1>2. ASSUME NEW a \in 0 .. Blocks * BLOCK_SIZE - 1
        PROVE  Bytes(device')[a] \in {Bytes(device)[a], Data[a]}
    <2>1. Bytes(device')[a] = device'[a \div BLOCK_SIZE][a % BLOCK_SIZE]
      BY DEF Bytes
    <2> QED BY <2>1, ByteOf
  <1> QED BY <1>1, <1>2

\* An iteration of read() is a read of the flat array.
LEMMA ReadImplements ==
  ASSUME Inv, read
  PROVE  Dsk!Next
  <1> DEFINE n == Chunk(left)
  <1> USE SizesAssumption
  <1>1. /\ Inv' /\ n \in 1 .. left /\ block_offset + n <= BLOCK_SIZE
        /\ block_id \in BlockId /\ Position' = Position + n
        /\ into' = into \o [i \in 1 .. n |-> Current(block_id)[block_offset + i - 1]]
        /\ Data' = Data /\ buf' = buf /\ op' = op
        /\ \A x \in BlockId : device'[x] \in {device[x], Current(x)}
    BY ReadInv, SameData DEF read
  <1>2. left \in Nat /\ block_offset \in Offset /\ Position \in Nat
        /\ Blocks * BLOCK_SIZE \in Nat /\ Position + left <= Blocks * BLOCK_SIZE
    BY InvFacts DEF Inv, TypeOK, CallInv, Fits, read
  <1> HIDE DEF n
  <1>3. n \in 1 .. Blocks * BLOCK_SIZE /\ Position + n <= Blocks * BLOCK_SIZE
    BY <1>1, <1>2
  <1>4. ASSUME NEW i \in 1 .. n
        PROVE  Current(block_id)[block_offset + i - 1] = Data[Position + i - 1]
    <2>1. block_offset + i - 1 \in Offset
      BY <1>1, <1>2 DEF Offset
    <2>2. Data[block_id * BLOCK_SIZE + (block_offset + i - 1)]
            = Current(block_id)[block_offset + i - 1]
      BY <2>1, <1>1, ByteAt
    <2>3. block_id * BLOCK_SIZE + (block_offset + i - 1) = Position + i - 1
      BY <1>1, <1>2 DEF Position, Offset, BlockId
    <2> QED BY <2>2, <2>3
  <1>5. into' = into \o [i \in 1 .. n |-> Data[Position + i - 1]]
    <2>1. [i \in 1 .. n |-> Current(block_id)[block_offset + i - 1]]
            = [i \in 1 .. n |-> Data[Position + i - 1]]
      BY <1>4
    <2> QED BY <2>1, <1>1
  <1>6. Dsk!WrittenBack
    BY <1>1, BytesWrittenBack DEF Dsk!WrittenBack, Dsk!Addr, Data
  <1>7. Dsk!Read(n)
    BY <1>1, <1>3, <1>5, <1>6 DEF Dsk!Read, Data
  <1> QED BY <1>3, <1>7 DEF Dsk!Next

\* An iteration of write() is a write of the flat array.
LEMMA WriteImplements ==
  ASSUME Inv, write
  PROVE  Dsk!Next
  <1> DEFINE n == Chunk(Len(buf))
  <1> USE SizesAssumption
  <1>1. /\ Inv' /\ n \in 1 .. Len(buf) /\ block_offset + n <= BLOCK_SIZE
        /\ block_id \in BlockId /\ Position' = Position + n
        /\ buf' = SubSeq(buf, n + 1, Len(buf)) /\ into' = into /\ op' = op
        /\ \A x \in BlockId : device'[x] \in {device[x], Current(x)}
    BY WriteInv DEF write
  <1>2. Len(buf) \in Nat /\ block_offset \in Offset /\ Position \in Nat
        /\ Blocks * BLOCK_SIZE \in Nat /\ Position + Len(buf) <= Blocks * BLOCK_SIZE
    BY InvFacts DEF Inv, TypeOK, CallInv, Fits
  <1>3. \A x \in BlockId : (Current(x))' =
              IF x # block_id THEN Current(x)
              ELSE [o \in Offset |-> IF block_offset <= o /\ o < block_offset + n
                                     THEN buf[o - block_offset + 1] ELSE Current(x)[o]]
    BY WriteInv
  <1> HIDE DEF n
  <1>4. n \in 1 .. Blocks * BLOCK_SIZE /\ Position + n <= Blocks * BLOCK_SIZE /\ n <= Len(buf)
    BY <1>1, <1>2
  <1>5. ASSUME NEW a \in 0 .. Blocks * BLOCK_SIZE - 1
        PROVE  (Current(a \div BLOCK_SIZE))'[a % BLOCK_SIZE] =
                 IF a \in Position .. Position + n - 1
                 THEN buf[a - Position + 1] ELSE Data[a]
    <2> DEFINE b == a \div BLOCK_SIZE
               o == a % BLOCK_SIZE
    <2>1. b \in BlockId /\ o \in Offset /\ a = b * BLOCK_SIZE + o /\ Data[a] = Current(b)[o]
      BY ByteOf
    <2> HIDE DEF b, o
    <2>2. CASE b = block_id
      <3>1. block_id * BLOCK_SIZE \in Int /\ o \in Int /\ block_offset \in Int /\ n \in Int
        BY <1>1, <1>2, <2>1 DEF BlockId, Offset
      <3>2. a \in Position .. Position + n - 1 <=> block_offset <= o /\ o < block_offset + n
        <4> DEFINE base == block_id * BLOCK_SIZE
        <4>1. base \in Int /\ a = base + o /\ Position = base + block_offset
          BY <2>1, <2>2, <3>1 DEF Position
        <4> HIDE DEF base
        <4> QED BY <4>1, <3>1
      <3>3. a - Position = o - block_offset
        BY <2>1, <2>2, <3>1 DEF Position
      <3>4. (Current(b))' = [x \in Offset |-> IF block_offset <= x /\ x < block_offset + n
                                              THEN buf[x - block_offset + 1] ELSE Current(b)[x]]
        BY <2>1, <2>2, <1>3
      <3>5. (Current(b))'[o] = IF block_offset <= o /\ o < block_offset + n
                               THEN buf[o - block_offset + 1] ELSE Current(b)[o]
        BY <3>4, <2>1
      <3> QED BY <3>2, <3>3, <3>5, <2>1 DEF b, o
    <2>3. CASE b # block_id
      <3>1. a \notin Position .. Position + n - 1
        <4> SUFFICES ASSUME a \in Position .. Position + n - 1 PROVE FALSE
          OBVIOUS
        <4>1. a - block_id * BLOCK_SIZE \in Offset /\ block_id \in Int /\ b \in Int
          BY <1>1, <1>2, <2>1 DEF Position, BlockId, Offset
        <4>2. b * BLOCK_SIZE + o = block_id * BLOCK_SIZE + (a - block_id * BLOCK_SIZE)
          BY <2>1, <4>1 DEF BlockId, Offset
        <4>3. b = block_id
          BY <4>1, <4>2, <2>1, AddressUnique
        <4> QED BY <4>3, <2>3
      <3> QED BY <3>1, <2>1, <2>3, <1>3 DEF b, o
    <2> QED BY <2>2, <2>3
  <1>6. Data' = [a \in 0 .. Blocks * BLOCK_SIZE - 1 |->
                   IF a \in Position .. Position + n - 1 THEN buf[a - Position + 1] ELSE Data[a]]
    <2>1. Data' = [a \in 0 .. Blocks * BLOCK_SIZE - 1 |-> (Current(a \div BLOCK_SIZE))'[a % BLOCK_SIZE]]
      <3>1. \A a \in 0 .. Blocks * BLOCK_SIZE - 1 : a \div BLOCK_SIZE \in BlockId
        BY ByteOf
      <3> HIDE DEF BlockId
      <3> QED BY <3>1 DEF Data, Bytes
    <2> QED BY <2>1, <1>5
  <1>7. Dsk!WrittenBack
    BY <1>1, BytesWrittenBack DEF Dsk!WrittenBack, Dsk!Addr, Data
  <1>8. Dsk!Write(n)
    BY <1>1, <1>4, <1>6, <1>7 DEF Dsk!Write, Dsk!Addr, Data
  <1> QED BY <1>4, <1>8 DEF Dsk!Next

LEMMA NextImplements ==
  ASSUME Inv, [Next]_vars
  PROVE  [Dsk!Next]_(Dsk!disk_vars)
  <1> USE SizesAssumption
  <1>1. CASE \E n \in 0 .. MaxLen : StartRead(n)
    <2>1. Data' = Data /\ Position' = Position /\ device' = device
          /\ into' = into /\ buf' = buf /\ (op = "flush")' = (op = "flush")
      BY <1>1, StartReadInv, QuietInv, SameData DEF StartRead, Quiet
    <2> QED BY <2>1 DEF Dsk!disk_vars, Data
  <1>2. CASE \E n \in 0 .. MaxLen : \E bytes \in [1 .. n -> Value] : StartWrite(bytes)
    <2>1. PICK n \in 0 .. MaxLen : \E bytes \in [1 .. n -> Value] : StartWrite(bytes)
      BY <1>2
    <2>2. PICK bytes \in [1 .. n -> Value] : StartWrite(bytes)
      BY <2>1
    <2>3. Data' = Data /\ Position' = Position /\ device' = device /\ into' = into
          /\ buf' \in Seq(Value) /\ (op = "flush")' = (op = "flush")
      BY <2>2, StartWriteInv, QuietInv, SameData DEF StartWrite, Quiet
    <2>4. buf = <<>>
      BY <2>2 DEF StartWrite, Inv, CallInv
    <2> QED BY <2>3, <2>4 DEF Dsk!Next, Dsk!StartWrite, Data
  <1>3. CASE read
    BY <1>3, ReadImplements
  <1>4. CASE write
    BY <1>4, WriteImplements
  <1>5. CASE Return
    <2>1. Data' = Data /\ Position' = Position /\ device' = device
          /\ into' = <<>> /\ buf' = buf /\ (op = "flush")' = FALSE
      BY <1>5, ReturnInv, SameData DEF Return
    <2>2. CASE op = "flush"
      <3>1. left = 0 /\ \A x \in BlockId : device[x] = Current(x)
        BY <1>5, <2>2, AllClean DEF Return
      <3>2. device = [b \in BlockId |-> Current(b)]
        BY <3>1 DEF Inv, TypeOK
      <3>3. Bytes(device) = Data
        BY <3>2 DEF Data
      <3>4. into = <<>>
        BY <2>2 DEF Inv, CallInv
      <3> QED BY <2>1, <2>2, <3>3, <3>4 DEF Dsk!Next, Dsk!EndFlush, Data
    <2>3. CASE op # "flush"
      BY <2>1, <2>3 DEF Dsk!Next, Dsk!Done, Data
    <2> QED BY <2>2, <2>3
  <1>6. CASE sync
    <2>1. /\ Data' = Data /\ Position' = Position /\ into' = into /\ buf' = buf
          /\ \A x \in BlockId : device'[x] \in {device[x], Current(x)}
          /\ op = "flush" /\ op' = op
      BY <1>6, SyncInv, SameData DEF sync
    <2>2. Dsk!WrittenBack
      BY <2>1, BytesWrittenBack DEF Dsk!WrittenBack, Dsk!Addr, Data
    <2> QED BY <2>1, <2>2 DEF Dsk!Next, Dsk!Sync, Data
  <1>7. CASE \E offset \in 0 .. Blocks * BLOCK_SIZE : seek(offset)
    <2>1. /\ Data' = Data /\ Position' \in 0 .. Blocks * BLOCK_SIZE
          /\ device' = device /\ into' = into /\ buf' = buf /\ op' = op
      BY <1>7, SeekInv, SameData DEF seek, call
    <2> QED BY <2>1 DEF Dsk!Next, Dsk!Seek, Data
  <1>8. CASE PowerOff
    <2>1. /\ Position' = 0 /\ into' = <<>> /\ buf' = <<>> /\ device' = device
          /\ (op = "flush")' = FALSE
          /\ \A x \in BlockId : (Current(x))' = device[x]
      BY <1>8, PowerOffInv DEF PowerOff
    <2>2. [b \in BlockId |-> Current(b)]' = device
      BY <2>1 DEF Inv, TypeOK
    <2>3. Data' = Bytes(device)
      BY <2>2 DEF Data
    <2> QED BY <2>1, <2>3 DEF Dsk!Next, Dsk!PowerOff, Data
  <1>9. CASE UNCHANGED vars
    BY <1>9 DEF vars, cursor, call, Dsk!disk_vars, Bytes, Position, Current, Cached, IndexOf
  <1>10. CASE StartFlush
    <2>1. /\ Data' = Data /\ Position' = Position /\ device' = device
          /\ into' = into /\ buf' = buf
          /\ (op = "flush") = FALSE /\ (op = "flush")' = TRUE
      BY <1>10, StartFlushInv, QuietInv, SameData DEF StartFlush, Quiet
    <2> QED BY <2>1 DEF Dsk!Next, Dsk!StartFlush, Data
  <1> QED BY <1>1, <1>2, <1>3, <1>4, <1>5, <1>6, <1>7, <1>8, <1>9, <1>10 DEF Next

LEMMA InitImplements ==
  ASSUME Init
  PROVE  Dsk!Init
  <1> USE SizesAssumption
  <1>1. Inv /\ \A x \in BlockId : Current(x) = device[x]
    BY InitInv
  <1>2. [b \in BlockId |-> Current(b)] = device
    BY <1>1 DEF Inv, TypeOK
  <1>3. Data = Bytes(device)
    BY <1>2 DEF Data
  <1>4. ASSUME NEW a \in 0 .. Blocks * BLOCK_SIZE - 1
        PROVE  device[a \div BLOCK_SIZE][a % BLOCK_SIZE] \in Value
    BY <1>1, ByteOf DEF Inv, TypeOK, Content
  <1>5. Bytes(device) \in [0 .. Blocks * BLOCK_SIZE - 1 -> Value]
    BY <1>4 DEF Bytes
  <1>6. Position = 0 /\ into = <<>> /\ buf = <<>> /\ (op = "flush") = FALSE
    BY DEF Init, Position
  <1> QED BY <1>3, <1>5, <1>6 DEF Dsk!Init, Dsk!Addr, Data

(* The driver, the cache and the device implement a flat array of bytes:   *)
(* an iteration reads or writes a run of it, whatever is evicted under it, *)
(* a loss of power between two blocks of a flush leaves a mixture of old   *)
(* and new, and when the flush has returned nothing is left to write back. *)
THEOREM Refinement == Spec => ImplementsDisk
  <1>1. Init => Dsk!Init
    BY InitImplements
  <1>2. Inv /\ [Next]_vars => [Dsk!Next]_(Dsk!disk_vars)
    BY NextImplements
  <1> QED BY <1>1, <1>2, Invariance, PTL DEF Spec, ImplementsDisk, Dsk!Spec
=============================================================================
