---------------------------- MODULE BlockBuffer ----------------------------
(***************************************************************************)
(* One worker's multi-tenant block buffer (src/cfs/include/BlockBuffer.h,  *)
(* src/cfs/src/BlockBuffer.cc) together with its Flusher                   *)
(* (src/cfs/include/BlockBufferFlusher.h) and the tag-partitioned          *)
(* SharedCache it sits on (gcache, not part of this repository: modelled   *)
(* from its contract in spec.md section 3).                                *)
(*                                                                         *)
(* A slot is a cache entry with a fixed raw buffer.  It belongs to one tag *)
(* (a tenant, or UNALLOC for the free pool), or is Gone while its buffer   *)
(* is exported to another worker during inode migration.  The worker-side  *)
(* callers (read submission, write, flush submission and completion,       *)
(* fsync, unlink, migration) are not in this repository either; they are   *)
(* modelled as the environment that calls the BlockBuffer operations with  *)
(* the arguments spec.md section 4 says they pass.                         *)
(***************************************************************************)
EXTENDS Naturals, FiniteSets, Sequences, SequencesExt, TLC

CONSTANTS
    Slots,          \* the cache slots (their raw buffer pointers)
    Blocks,         \* block numbers
    Apps,           \* tenants of this worker; each is its own cache tag
    UNALLOC,        \* the tag of unallocated slots (sched::tag::unalloc)
    Gone,           \* "tag" of a slot whose buffer was exported
    NoKey,          \* key of a slot holding no block
    NoTenant,       \* getBlock called with tenant == nullptr
    BlockIndex,     \* [Blocks -> Nat]: inode (index) a block belongs to, 0 = none
    InitTag,        \* [Slots -> Apps \cup {UNALLOC}]: partition at construction
    FgFlushLimit,   \* Flusher::fgFlushLimit
    SubmitNum,      \* Flusher::dirtyFlushOneTimeSubmitNum
    RatioNum, RatioDen, \* Flusher::dirtyRatioThreshold = RatioNum / RatioDen
    MaxVer,         \* bound on the content version of a block
    MaxHeld,        \* bound on the requests holding one slot
    MinCache        \* params::min_cache, in the model's slots

Tags == Apps \cup {UNALLOC}
Indices == {BlockIndex[b] : b \in Blocks} \ {0}

ASSUME /\ NoKey \notin Blocks /\ Gone \notin Tags /\ NoTenant \notin Apps
       /\ InitTag \in [Slots -> Tags]
       /\ BlockIndex \in [Blocks -> Nat]
       /\ FgFlushLimit \in Nat /\ SubmitNum \in Nat /\ MaxVer \in Nat /\ MaxHeld \in Nat
       /\ RatioNum \in Nat /\ RatioDen \in Nat \ {0}

VARIABLES
    tagOf,          \* SharedCache: partition owning each slot, or Gone
    keyOf,          \* SharedCache: block cached in each slot, or NoKey
    refs,           \* SharedCache: pin count of each slot
    held,           \* handles on each slot held by requests in progress
    index,          \* BlockBufferItem::index
    dirty,          \* BlockBufferItem::isBufDirty
    inMem,          \* BlockBufferItem::inMem
    pending,        \* BlockBufferItem::pendingBlockReq # nullptr
    ver,            \* version of the data in each slot's buffer
    disk,           \* version of each block on the device
    blockIndexMap,  \* BlockBuffer::blockIndexMap (partial function)
    dirtyIndexMap,  \* Flusher::dirtyIndexMap (partial function)
    numDirty,       \* Flusher::tenantInfoMap[tag].numDirty
    numFgFlush,     \* Flusher::numFgFlush
    bgFlushSent,    \* Flusher::bgFlushSent
    fgIndices,      \* Flusher::fgIndices
    bgBatch,        \* writes of the background flush in flight
    fgFlights,      \* writes of each foreground flush in flight
    owned,          \* inodes this worker owns (the rest are migrated away)
    exported,       \* exported item sets on their way to a destination
    discarded       \* slots whose data an unlink threw away (history)

cacheVars == <<tagOf, keyOf, refs, held>>
itemVars == <<index, dirty, inMem, pending, ver>>
flushVars == <<dirtyIndexMap, numDirty, numFgFlush, bgFlushSent, fgIndices>>
ioVars == <<disk, bgBatch, fgFlights>>
vars == <<cacheVars, itemVars, flushVars, ioVars, blockIndexMap, owned, exported, discarded>>

(* The capacity tenantInfoMap records at construction; adjustCacheSize    *)
(* never updates it.                                                       *)
InitCap(t) == Cardinality({s \in Slots : InitTag[s] = t})

InBuffer == {s \in Slots : tagOf[s] # Gone}
Cached(b) == {s \in InBuffer : keyOf[s] = b}
SlotsOfTag(t) == {s \in Slots : tagOf[s] = t}

\* map[k].emplace(x) / map[k].erase(x) on an unordered_map of sets:
\* operator[] creates the entry when it is absent.
AddTo(m, k, x) ==
    IF k \in DOMAIN m THEN [m EXCEPT ![k] = @ \cup {x}] ELSE m @@ (k :> {x})
EraseFrom(m, k, x) ==
    IF k \in DOMAIN m THEN [m EXCEPT ![k] = @ \ {x}] ELSE m @@ (k :> {})
DropKey(m, k) == [j \in DOMAIN m \ {k} |-> m[j]]
Dirties(m) == UNION {m[k] : k \in DOMAIN m}

-----------------------------------------------------------------------------
(* SharedCache::relocate(t, dst, K[t]) for each tag t of DOMAIN K, on the *)
(* tags tg and pin counts rf the handler has reached: Min({K[t], #cands}) *)
(* unpinned slots of t move to dst, and a moved slot's block leaves the    *)
(* cache.  Which slots move (the LRU tail) is left open.                   *)
Relocate(tg, ky, rf, K, dst) ==
    LET C(t) == {s \in Slots : tg[s] = t /\ rf[s] = 0}
    IN  \E M \in SUBSET UNION {C(t) : t \in DOMAIN K} :
          /\ \A t \in DOMAIN K :
                Cardinality(M \cap C(t)) = Min({K[t], Cardinality(C(t))})
          /\ tagOf' = [s \in Slots |-> IF s \in M THEN dst ELSE tg[s]]
          /\ keyOf' = [s \in Slots |-> IF s \in M THEN NoKey ELSE ky[s]]

(* Flusher::removeDirtyItem(item) for every slot of D: each is erased from *)
(* the entry of its current index, and an entry left empty is erased.      *)
RemoveDirtyItems(dim, D) ==
    LET ks == DOMAIN dim \cup {index[s] : s \in D}
        m == [k \in ks |-> (IF k \in DOMAIN dim THEN dim[k] ELSE {})
                             \ {s \in D : index[s] = k}]
    IN  [k \in {j \in ks : m[j] # {}} |-> m[k]]

(* Mutant: unsetBlockDirty without the used_to_be_dirty test.              *)
UnsetBlockDirtyUnchecked(S) ==
    /\ dirty' = [s \in Slots |-> IF s \in S THEN FALSE ELSE dirty[s]]
    /\ refs' = [s \in Slots |-> IF s \in S THEN refs[s] - 1 ELSE refs[s]]
    /\ dirtyIndexMap' = RemoveDirtyItems(dirtyIndexMap, S)
    /\ numDirty' = [t \in Tags |-> numDirty[t] - Cardinality({s \in S : tagOf[s] = t})]

(* BlockBuffer::unsetBlockDirty(item) for every slot of S.                 *)
UnsetBlockDirty(S) ==
    LET D == {s \in S : dirty[s]}
    IN  /\ dirty' = [s \in Slots |-> IF s \in S THEN FALSE ELSE dirty[s]]
        /\ refs' = [s \in Slots |-> IF s \in D THEN refs[s] - 1 ELSE refs[s]]
        /\ dirtyIndexMap' = RemoveDirtyItems(dirtyIndexMap, D)
        /\ numDirty' = [t \in Tags |->
                          numDirty[t] - Cardinality({s \in D : tagOf[s] = t})]

(* Flusher::removeDirtyItemByIndex(i): subtracts the size of the entry     *)
(* from the count of the tag of its first element (hash order: any one).   *)
RemoveDirtyItemByIndex(i) ==
    IF i \in DOMAIN dirtyIndexMap
    THEN \E first \in dirtyIndexMap[i] :
           /\ numDirty' = [numDirty EXCEPT ![tagOf[first]] =
                                       @ - Cardinality(dirtyIndexMap[i])]
           /\ dirtyIndexMap' = DropKey(dirtyIndexMap, i)
    ELSE UNCHANGED <<numDirty, dirtyIndexMap>>

\* checkIfNeedBgFlush: some tag's numDirty / capacity > dirtyRatioThreshold
\* (compared in doubles, so capacity 0 gives inf when numDirty > 0).
IsAboveThreshold(t) == numDirty[t] * RatioDen > RatioNum * InitCap(t)
checkIfNeedBgFlush ==
    /\ ~bgFlushSent
    /\ numFgFlush = 0 /\ fgIndices = {}
    /\ \E t \in Tags : IsAboveThreshold(t)

\* doFlushByIndex(0): the loop stops once bnum >= dirtyFlushOneTimeSubmitNum,
\* which it tests after pushing, so at least one block is taken.
BgBatchSize(n) == IF SubmitNum = 0 THEN 1 ELSE Min({n, SubmitNum})

\* a device write of slot s as submitted: the block and the data version
WriteOf(s) == [slot |-> s, block |-> keyOf[s], v |-> ver[s]]
Persist(W) == [b \in Blocks |->
                 IF \E w \in W : w.block = b
                 THEN (CHOOSE w \in W : w.block = b).v ELSE disk[b]]

\* no request of the inode is in progress (Tenant drained / file closed)
Quiescent(i) ==
    /\ \A s \in InBuffer : keyOf[s] # NoKey /\ BlockIndex[keyOf[s]] = i => held[s] = 0
    /\ i \notin fgIndices
    /\ \A k \in 1..Len(fgFlights) : fgFlights[k].idx # i

-----------------------------------------------------------------------------
Init ==
    /\ tagOf = InitTag
    /\ keyOf = [s \in Slots |-> NoKey]
    /\ refs = [s \in Slots |-> 0]
    /\ held = [s \in Slots |-> 0]
    /\ index = [s \in Slots |-> 0]
    /\ dirty = [s \in Slots |-> FALSE]
    /\ inMem = [s \in Slots |-> FALSE]
    /\ pending = [s \in Slots |-> FALSE]
    /\ ver = [s \in Slots |-> 0]
    /\ disk = [b \in Blocks |-> 0]
    /\ blockIndexMap = [i \in {} |-> {}]
    /\ dirtyIndexMap = [i \in {} |-> {}]
    /\ numDirty = [t \in Tags |-> 0]
    /\ numFgFlush = 0
    /\ bgFlushSent = FALSE
    /\ fgIndices = {}
    /\ bgBatch = {}
    /\ fgFlights = <<>>
    /\ owned = Indices
    /\ exported = {}
    /\ discarded = {}

-----------------------------------------------------------------------------
(* BlockBuffer::getBlock(b, BlockIndex[b], tenant): lookup with pin; on a  *)
(* miss insert into the tenant's tag (UNALLOC without a tenant), reusing a *)
(* free slot or evicting an unpinned one, reset the slot and move it       *)
(* between blockIndexMap entries.  insert returning nullptr changes        *)
(* nothing.  Only shared metadata (index 0) is read without a tenant.      *)
GetBlock(b, tn) ==
    LET i == BlockIndex[b]
        tag == IF tn = NoTenant THEN UNALLOC ELSE tn
        Free == {s \in SlotsOfTag(tag) : keyOf[s] = NoKey}
        Cands == IF Free # {} THEN Free ELSE {s \in SlotsOfTag(tag) : refs[s] = 0}
    IN
    /\ i = 0 \/ i \in owned
    /\ tn = NoTenant => i = 0
    /\ \/ \E s \in Cached(b) :
            /\ held[s] < MaxHeld
            /\ refs' = [refs EXCEPT ![s] = @ + 1]
            /\ held' = [held EXCEPT ![s] = @ + 1]
            /\ UNCHANGED <<tagOf, keyOf, itemVars, blockIndexMap, discarded>>
       \/ /\ Cached(b) = {}
          /\ \E s \in Cands :
               /\ keyOf' = [keyOf EXCEPT ![s] = b]
               /\ refs' = [refs EXCEPT ![s] = 1]
               /\ held' = [held EXCEPT ![s] = @ + 1]
               /\ dirty' = [dirty EXCEPT ![s] = FALSE]
               /\ inMem' = [inMem EXCEPT ![s] = FALSE]
               /\ pending' = [pending EXCEPT ![s] = FALSE]
               /\ index' = [index EXCEPT ![s] = i]
               /\ blockIndexMap' =
                    IF index[s] = i THEN blockIndexMap
                    ELSE LET m == IF index[s] # 0
                                  THEN EraseFrom(blockIndexMap, index[s], s)
                                  ELSE blockIndexMap
                         IN  IF i # 0 THEN AddTo(m, i, s) ELSE m
               /\ discarded' = discarded \ {s}
               /\ UNCHANGED <<tagOf, ver>>
    /\ UNCHANGED <<flushVars, ioVars, owned, exported>>

(* Mutant: releaseBlock drops the request's handle without               *)
(* lruCache.release.                                                       *)
ReleaseBlockNoUnpin(s) ==
    /\ held[s] > 0 /\ inMem[s]
    /\ held' = [held EXCEPT ![s] = @ - 1]
    /\ UNCHANGED <<tagOf, keyOf, refs, itemVars, flushVars, ioVars, blockIndexMap,
                   owned, exported, discarded>>

(* BlockBuffer::releaseBlock: a request done with the block unpins it.    *)
(* inMem: its callers release a block only once its read completed.     *)
ReleaseBlock(s) ==
    /\ held[s] > 0 /\ inMem[s]
    /\ refs' = [refs EXCEPT ![s] = @ - 1]
    /\ held' = [held EXCEPT ![s] = @ - 1]
    /\ UNCHANGED <<tagOf, keyOf, itemVars, flushVars, ioVars, blockIndexMap,
                   owned, exported, discarded>>

(* The worker submits the read of a missed block: set_IO_submitted.       *)
SubmitRead(s) ==
    /\ held[s] > 0 /\ ~inMem[s] /\ ~pending[s]
    /\ pending' = [pending EXCEPT ![s] = TRUE]
    /\ UNCHANGED <<cacheVars, index, dirty, inMem, ver, flushVars, ioVars,
                   blockIndexMap, owned, exported, discarded>>

(* The read completes: set_IO_done, the buffer holds the device data.     *)
ReadDone(s) ==
    /\ pending[s]
    /\ inMem' = [inMem EXCEPT ![s] = TRUE]
    /\ pending' = [pending EXCEPT ![s] = FALSE]
    /\ ver' = [ver EXCEPT ![s] = disk[keyOf[s]]]
    /\ discarded' = discarded \ {s}
    /\ UNCHANGED <<cacheVars, index, dirty, flushVars, ioVars, blockIndexMap,
                   owned, exported>>

(* Mutant: setBlockDirty without lruCache.pin.                             *)
WriteBlockNoPin(s) ==
    /\ held[s] > 0 /\ inMem[s] /\ ver[s] < MaxVer
    /\ ver' = [ver EXCEPT ![s] = @ + 1]
    /\ dirty' = [dirty EXCEPT ![s] = TRUE]
    /\ IF dirty[s]
       THEN UNCHANGED <<dirtyIndexMap, numDirty>>
       ELSE /\ dirtyIndexMap' = AddTo(dirtyIndexMap, index[s], s)
            /\ numDirty' = [numDirty EXCEPT ![tagOf[s]] = @ + 1]
    /\ UNCHANGED <<tagOf, keyOf, refs, held, index, inMem, pending, numFgFlush,
                   bgFlushSent, fgIndices, ioVars, blockIndexMap, owned,
                   exported, discarded>>

(* A request writes a held block and calls setBlockDirty(item, index):    *)
(* on the false->true flip addDirtyItem and pin.                           *)
WriteBlock(s) ==
    /\ held[s] > 0 /\ inMem[s] /\ ver[s] < MaxVer
    /\ ver' = [ver EXCEPT ![s] = @ + 1]
    /\ dirty' = [dirty EXCEPT ![s] = TRUE]
    /\ IF dirty[s]
       THEN UNCHANGED <<refs, dirtyIndexMap, numDirty>>
       ELSE /\ dirtyIndexMap' = AddTo(dirtyIndexMap, index[s], s)
            /\ numDirty' = [numDirty EXCEPT ![tagOf[s]] = @ + 1]
            /\ refs' = [refs EXCEPT ![s] = @ + 1]
    /\ UNCHANGED <<tagOf, keyOf, held, index, inMem, pending, numFgFlush,
                   bgFlushSent, fgIndices, ioVars, blockIndexMap, owned,
                   exported, discarded>>

(* Worker loop: if checkIfNeedBgFlush, doFlush (doFlushByIndex(0)) picks a *)
(* batch of dirty blocks, sets bgFlushSent, and the writes are submitted.  *)
DoFlush ==
    LET D == Dirties(dirtyIndexMap)
    IN  /\ checkIfNeedBgFlush
        /\ numFgFlush < FgFlushLimit
        /\ D # {}
        /\ \E B \in kSubset(BgBatchSize(Cardinality(D)), D) :
              bgBatch' = {WriteOf(s) : s \in B}
        /\ bgFlushSent' = TRUE
        /\ UNCHANGED <<cacheVars, itemVars, dirtyIndexMap, numDirty,
                       numFgFlush, fgIndices, disk, fgFlights, blockIndexMap,
                       owned, exported, discarded>>

(* The background writes complete: unsetBlockDirty on every flushed       *)
(* handle, then doFlushDone.                                               *)
BgFlushDone ==
    /\ bgBatch # {}
    /\ disk' = Persist(bgBatch)
    /\ UnsetBlockDirty({w.slot : w \in bgBatch})
    /\ bgFlushSent' = FALSE
    /\ bgBatch' = {}
    /\ UNCHANGED <<tagOf, keyOf, held, index, inMem, pending, ver, numFgFlush,
                   fgIndices, fgFlights, blockIndexMap, owned, exported,
                   discarded>>

(* Mutant: doFlushByIndex(i) without checkIfFgFlushReachLimit.            *)
FgFlushNoLimit(i) ==
    LET D == IF i \in DOMAIN dirtyIndexMap THEN dirtyIndexMap[i] ELSE {}
    IN  /\ i \in owned
        /\ fgIndices' = fgIndices \ {i}
        /\ IF D = {}
           THEN UNCHANGED <<numFgFlush, fgFlights>>
           ELSE /\ numFgFlush' = numFgFlush + 1
                /\ fgFlights' = Append(fgFlights,
                                  [idx |-> i, writes |-> {WriteOf(s) : s \in D}])
        /\ UNCHANGED <<cacheVars, itemVars, dirtyIndexMap, numDirty,
                       bgFlushSent, disk, bgBatch, blockIndexMap, owned,
                       exported, discarded>>

(* An fsync of inode i: doFlushByIndex(i).  At the FG limit canFlush is    *)
(* false and the index waits (addFgFlushWaitIndex); otherwise the index's  *)
(* dirty blocks are submitted, addFgFlushInflightNum(1) when there are     *)
(* any, and removeFgFlushWaitIndex(i).                                     *)
FgFlush(i) ==
    LET D == IF i \in DOMAIN dirtyIndexMap THEN dirtyIndexMap[i] ELSE {}
    IN  /\ i \in owned
        /\ \/ /\ numFgFlush >= FgFlushLimit
              /\ i \notin fgIndices
              /\ fgIndices' = fgIndices \cup {i}
              /\ UNCHANGED <<numFgFlush, fgFlights>>
           \/ /\ numFgFlush < FgFlushLimit
              /\ fgIndices' = fgIndices \ {i}
              /\ IF D = {}
                 THEN UNCHANGED <<numFgFlush, fgFlights>>
                 ELSE /\ numFgFlush' = numFgFlush + 1
                      /\ fgFlights' = Append(fgFlights,
                                        [idx |-> i, writes |-> {WriteOf(s) : s \in D}])
        /\ UNCHANGED <<cacheVars, itemVars, dirtyIndexMap, numDirty,
                       bgFlushSent, disk, bgBatch, blockIndexMap, owned,
                       exported, discarded>>

(* The k-th foreground flush completes: unsetBlockDirty on its handles     *)
(* and addFgFlushInflightNum(-1).                                          *)
FgFlushDone(k) ==
    LET W == fgFlights[k].writes
    IN  /\ disk' = Persist(W)
        /\ UnsetBlockDirty({w.slot : w \in W})
        /\ numFgFlush' = numFgFlush - 1
        /\ fgFlights' = RemoveAt(fgFlights, k)
        /\ UNCHANGED <<tagOf, keyOf, held, index, inMem, pending, ver,
                       bgFlushSent, fgIndices, bgBatch, blockIndexMap, owned,
                       exported, discarded>>

(* BlockBuffer::releaseUnlinkedInodeDirtyBlocks(i) when inode i is        *)
(* deleted: every handle of the index has its dirty flag cleared and is    *)
(* released, the blockIndexMap entry is erased, and removeDirtyItemByIndex *)
(* drops the flusher's entry.  The inode is dead afterwards: its blocks   *)
(* are not requested again.                                                *)
ReleaseUnlinkedInodeDirtyBlocks(i) ==
    LET H == IF i \in DOMAIN blockIndexMap THEN blockIndexMap[i] ELSE {}
    IN  /\ i \in owned /\ Quiescent(i)
        /\ dirty' = [s \in Slots |-> IF s \in H THEN FALSE ELSE dirty[s]]
        /\ refs' = [s \in Slots |-> IF s \in H THEN refs[s] - 1 ELSE refs[s]]
        /\ blockIndexMap' = DropKey(blockIndexMap, i)
        /\ RemoveDirtyItemByIndex(i)
        /\ discarded' = discarded \cup H
        /\ owned' = owned \ {i}
        /\ UNCHANGED <<tagOf, keyOf, held, index, inMem, pending, ver,
                       numFgFlush, bgFlushSent, fgIndices, ioVars, exported>>

(* Migration source, once the tenant is drained: splitBufferItemsByIndex. *)
(* Each handle of the index is exported {ptr, block_no, is_dirty, aid},    *)
(* released if dirty and erased (a pinned one would throw), and one slot   *)
(* is relocated from UNALLOC to the handle's tag; then the blockIndexMap   *)
(* entry is erased and removeDirtyItemByIndex(i).  An index with no entry  *)
(* returns -1 and nothing happens.                                         *)
SplitBufferItemsByIndex(i) ==
    LET H == blockIndexMap[i]
        C == {s \in SlotsOfTag(UNALLOC) : refs[s] = 0}
        K(t) == Cardinality({s \in H : tagOf[s] = t})
    IN  /\ i \in owned \cap DOMAIN blockIndexMap /\ Quiescent(i)
        /\ \A s \in H : refs[s] = (IF dirty[s] THEN 1 ELSE 0)
        /\ \A s \in H : tagOf[s] \in Apps
        /\ \E M \in kSubset(Min({Cardinality(H), Cardinality(C)}), C) :
           \E f \in [M -> {tagOf[s] : s \in H}] :
              /\ \A t \in Apps : Cardinality({m \in M : f[m] = t}) <= K(t)
              /\ tagOf' = [s \in Slots |-> IF s \in H THEN Gone
                                           ELSE IF s \in M THEN f[s]
                                           ELSE tagOf[s]]
              /\ keyOf' = [s \in Slots |-> IF s \in M THEN NoKey ELSE keyOf[s]]
        /\ refs' = [s \in Slots |-> IF s \in H THEN 0 ELSE refs[s]]
        /\ blockIndexMap' = DropKey(blockIndexMap, i)
        /\ RemoveDirtyItemByIndex(i)
        /\ owned' = owned \ {i}
        /\ exported' = exported \cup
              {[idx |-> i,
                items |-> {[slot |-> s, block_no |-> keyOf[s],
                            is_dirty |-> dirty[s], aid |-> tagOf[s]] : s \in H}]}
        /\ UNCHANGED <<held, itemVars, numFgFlush, bgFlushSent, fgIndices,
                       ioVars, discarded>>

(* Migration destination: installBufferItemsOfIndex(i, items).  Each item  *)
(* is installed under its tenant's tag with its buffer, init (reset) and   *)
(* setIndex(i), set_IO_done; a dirty one is set dirty, added to the        *)
(* flusher and pinned; it joins blockIndexMap[i]; one unpinned slot of the *)
(* tag is relocated to UNALLOC per item.  An empty set returns at once.    *)
(* Here the destination is this same worker taking the inode back.         *)
InstallBufferItemsOfIndex(e) ==
    LET i == e.idx
        S == {r.slot : r \in e.items}
        it(s) == CHOOSE r \in e.items : r.slot = s
        tg == [s \in Slots |-> IF s \in S THEN it(s).aid ELSE tagOf[s]]
        rf == [s \in Slots |-> IF s \in S THEN IF it(s).is_dirty THEN 1 ELSE 0
                               ELSE refs[s]]
        ky == [s \in Slots |-> IF s \in S THEN it(s).block_no ELSE keyOf[s]]
        D == {s \in S : it(s).is_dirty}
        K == [t \in {r.aid : r \in e.items} |->
                Cardinality({r \in e.items : r.aid = t})]
    IN  /\ exported' = exported \ {e}
        /\ owned' = owned \cup {i}
        /\ IF S = {}
           THEN UNCHANGED <<cacheVars, itemVars, blockIndexMap, dirtyIndexMap,
                            numDirty>>
           ELSE /\ Relocate(tg, ky, rf, K, UNALLOC)
                /\ refs' = rf
                /\ held' = held
                /\ index' = [s \in Slots |-> IF s \in S THEN i ELSE index[s]]
                /\ inMem' = [s \in Slots |-> IF s \in S THEN TRUE ELSE inMem[s]]
                /\ pending' = [s \in Slots |-> IF s \in S THEN FALSE ELSE pending[s]]
                /\ dirty' = [s \in Slots |-> IF s \in S THEN s \in D ELSE dirty[s]]
                /\ ver' = ver
                /\ blockIndexMap' =
                     [k \in DOMAIN blockIndexMap \cup {i} |->
                        IF k = i THEN (IF i \in DOMAIN blockIndexMap
                                       THEN blockIndexMap[i] ELSE {}) \cup S
                        ELSE blockIndexMap[k]]
                /\ dirtyIndexMap' =
                     IF D = {} THEN dirtyIndexMap
                     ELSE [k \in DOMAIN dirtyIndexMap \cup {i} |->
                             IF k = i THEN (IF i \in DOMAIN dirtyIndexMap
                                            THEN dirtyIndexMap[i] ELSE {}) \cup D
                             ELSE dirtyIndexMap[k]]
                /\ numDirty' = [t \in Tags |->
                                  numDirty[t] + Cardinality({s \in D : tg[s] = t})]
        /\ UNCHANGED <<numFgFlush, bgFlushSent, fgIndices, ioVars, discarded>>

\* Tenant::get_max_cache_size: the allocated cache_size, at least min_cache
GetMaxCacheSize(cacheSize) == IF cacheSize < MinCache THEN MinCache ELSE cacheSize

(* BlockBuffer::adjustCacheSize(a) after the Allocator set the tenant's    *)
(* cache size: n is get_max_cache_size(); relocate                          *)
(* the difference from or to UNALLOC; a shortfall is only logged.  The     *)
(* Flusher's TenantInfo capacity is not updated.                           *)
AdjustCacheSize(a, n) ==
    LET old == Cardinality(SlotsOfTag(a))
    IN  /\ old # n
        /\ IF old < n
           THEN Relocate(tagOf, keyOf, refs, UNALLOC :> (n - old), a)
           ELSE Relocate(tagOf, keyOf, refs, a :> (old - n), UNALLOC)
        /\ UNCHANGED <<refs, held, itemVars, flushVars, ioVars, blockIndexMap,
                       owned, exported, discarded>>

-----------------------------------------------------------------------------
Next ==
    \/ \E b \in Blocks, tn \in Apps \cup {NoTenant} : GetBlock(b, tn)
    \/ \E s \in Slots : \/ ReleaseBlock(s) \/ SubmitRead(s)
                        \/ ReadDone(s) \/ WriteBlock(s)
    \/ DoFlush
    \/ BgFlushDone
    \/ \E i \in Indices : \/ FgFlush(i)
                          \/ ReleaseUnlinkedInodeDirtyBlocks(i)
                          \/ SplitBufferItemsByIndex(i)
    \/ \E k \in 1..Len(fgFlights) : FgFlushDone(k)
    \/ \E e \in exported : InstallBufferItemsOfIndex(e)
    \/ \E a \in Apps, c \in 0..Cardinality(Slots) : AdjustCacheSize(a, GetMaxCacheSize(c))

Spec == Init /\ [][Next]_vars

-----------------------------------------------------------------------------
Writes == [slot : Slots, block : Blocks, v : 0..MaxVer]

TypeOK ==
    /\ tagOf \in [Slots -> Tags \cup {Gone}]
    /\ keyOf \in [Slots -> Blocks \cup {NoKey}]
    /\ refs \in [Slots -> Int] /\ held \in [Slots -> Nat]
    /\ index \in [Slots -> Indices \cup {0}]
    /\ dirty \in [Slots -> BOOLEAN] /\ inMem \in [Slots -> BOOLEAN]
    /\ pending \in [Slots -> BOOLEAN]
    /\ ver \in [Slots -> 0..MaxVer] /\ disk \in [Blocks -> 0..MaxVer]
    /\ DOMAIN blockIndexMap \subseteq Indices
    /\ DOMAIN dirtyIndexMap \subseteq Indices \cup {0}
    /\ numDirty \in [Tags -> Int]
    /\ numFgFlush \in 0..FgFlushLimit /\ bgFlushSent \in BOOLEAN
    /\ fgIndices \subseteq Indices
    /\ bgBatch \subseteq Writes
    /\ owned \subseteq Indices

(* Flusher accounting (spec.md section 8, invariant 2): for every tag,    *)
(* tenantInfoMap[tag].numDirty counts exactly the dirty slots of that tag, *)
(* and dirtyIndexMap holds exactly the dirty slots of the buffer, each     *)
(* under its own index.  Broken if unsetBlockDirty, the unlink path,       *)
(* removeDirtyItemByIndex or install count a dirty block on the wrong tag  *)
(* or index, or twice.                                                     *)
DirtyAccounting ==
    /\ \A t \in Tags : numDirty[t] = Cardinality({s \in SlotsOfTag(t) : dirty[s]})
    /\ Dirties(dirtyIndexMap) = {s \in InBuffer : dirty[s]}
    /\ \A k \in DOMAIN dirtyIndexMap : \A s \in dirtyIndexMap[k] : index[s] = k

(* Dirty slots are pinned (spec.md section 8, invariant 3): the dirty    *)
(* pin is on top of every pin held by a request, so neither the requests  *)
(* releasing their handles nor eviction or relocation can free a dirty     *)
(* slot before a flush completion or an unlink clears it.                  *)
DirtyPinned ==
    \A s \in InBuffer : dirty[s] => refs[s] > held[s]

(* Pin accounting (spec.md section 8, invariant 3, made exact): a slot's   *)
(* SharedCache refcount is the number of requests holding it plus one if  *)
(* it is dirty.  So a dirty slot is never evicted or relocated, and a      *)
(* drained inode's slots can be erased by splitBufferItemsByIndex.  Broken *)
(* by a release that was never matched by a pin.                           *)
PinAccounting ==
    \A s \in InBuffer : refs[s] = held[s] + (IF dirty[s] THEN 1 ELSE 0)

(* The flusher avoids using up a tenant's slots (BlockBufferFlusher.h:55):  *)
(* when every slot of a tenant's partition holds a dirty, pinned block, a  *)
(* flush is due or under way.  Broken when checkIfNeedBgFlush weighs       *)
(* numDirty against a capacity that adjustCacheSize has since changed.     *)
FullPartitionFlushes ==
    \A t \in Apps :
        (SlotsOfTag(t) # {} /\ \A s \in SlotsOfTag(t) : dirty[s]) =>
            \/ checkIfNeedBgFlush \/ bgFlushSent
            \/ numFgFlush > 0 \/ fgIndices # {}

(* Migration never throws half-way (BlockBuffer.cc:27): once the inode is *)
(* quiescent -- no request of the drained tenant holds one of its blocks   *)
(* and no FG flush of it is queued or in flight -- every handle in        *)
(* blockIndexMap[i] carries at most its dirty pin, so the release of that *)
(* pin makes every lruCache.erase of splitBufferItemsByIndex succeed.  It  *)
(* ties the pins taken and dropped by getBlock, releaseBlock,              *)
(* setBlockDirty, the flush completions and eviction to the drain test.    *)
SplitSafe ==
    \A i \in owned \cap DOMAIN blockIndexMap :
        Quiescent(i) =>
            \A s \in blockIndexMap[i] : refs[s] = (IF dirty[s] THEN 1 ELSE 0)

(* Durability of flushing: a clean in-memory cached block holds exactly   *)
(* the data on the device, unless an unlink discarded it.  Broken if a    *)
(* flush completion marks clean a block rewritten after the flush was      *)
(* submitted, or if an older write reaches the device after a newer one.   *)
CleanMatchesDisk ==
    \A s \in InBuffer \ discarded :
        keyOf[s] # NoKey /\ inMem[s] /\ ~dirty[s] => ver[s] = disk[keyOf[s]]

(* blockIndexMap names, for each inode, cached slots of that inode that   *)
(* belong to a tenant -- what splitBufferItemsByIndex relies on when it    *)
(* exports block_no and derefs get_tenant() of every handle.               *)
IndexMapConsistent ==
    \A i \in DOMAIN blockIndexMap : \A s \in blockIndexMap[i] :
        /\ tagOf[s] \in Apps
        /\ keyOf[s] # NoKey /\ BlockIndex[keyOf[s]] = i
        /\ index[s] = i

(* A flush in flight only ever completes on slots still in this buffer:   *)
(* migration never exports a block whose write is outstanding.            *)
FlightsInBuffer ==
    \A w \in bgBatch \cup UNION {fgFlights[k].writes : k \in 1..Len(fgFlights)} :
        tagOf[w.slot] # Gone
=============================================================================
