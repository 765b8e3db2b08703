# TLA+ models of bunnyfs

This directory holds TLA+ specifications of the parts of bunnyfs whose
correctness depends on the order in which things happen. That means the
per-worker block buffer cache with its flusher, a worker's tenants with
their rate limiters and the allocator thread that drives them, the
allocator's round of collection, harvest and distribution with the ghost-cache
hit-rate curves it predicts from, its weight partition and per-app decision, and the benchmark's
processes and threads: the parent's `fork_and_wait`, the process-shared barrier, the file workloads and offset generators. Each model is
checked with TLC. `PROJECT.json` lists every component with its status, every
run with what it checks, the mutants that show each property can fail, the
source lines each definition models, and the hazards of the code.

## The system

bunnyfs is a user-level file system. FS *workers* each own some inodes and
serve the requests of *apps*. Each app on a worker is a *tenant*, named by a
`sched::Tag` (`src/cfs/sched/Tag.h`).

- **Block buffer** (`src/cfs/include/BlockBuffer.h`, `src/cfs/src/BlockBuffer.cc`,
  `BlockBufferItem.h`). This is a worker's cache of disk blocks, built on a
  shared LRU cache that is partitioned by tag (gcache, not under `src/`).
  - `getBlock` looks a block up or loads it into a free or evictable slot.
    `releaseBlock` unpins it. `releaseBlock` has no guard of its own; the model
    lets a request release a block only once its read completed, as the
    callers (outside `src/`) do.
  - `setBlockDirty` / `unsetBlockDirty` mark a block dirty and clean. A dirty
    block keeps one extra pin until it is flushed.
  - `releaseUnlinkedInodeDirtyBlocks` drops an unlinked inode's blocks.
  - `splitBufferItemsByIndex` / `installBufferItemsOfIndex` export an inode's
    blocks from one worker and install them on another when the inode migrates.
  - `adjustCacheSize` moves cache slots between a tenant and the unallocated
    pool after an allocator decision.
- **Flusher** (`src/cfs/include/BlockBufferFlusher.h`). It keeps per-tenant
  dirty counts and `dirtyIndexMap` (inode → dirty blocks).
  - It runs one background (BG) flush at a time when a tenant is above its
    dirty ratio (`checkIfNeedBgFlush`, `doFlush`, `doFlushDone`).
  - It runs up to `fgFlushLimit` foreground (FG) flushes of single inodes for
    fsync (`fgIndices`, `numFgFlush`).
- **Tenant** (`src/cfs/sched/Tenant.h`). These are per-tenant request queues
  and accounting. An inode migrates only when its tenant is drained
  (`should_migrate`).
- **Allocator** (`src/cfs/sched/Alloc.h`, `Alloc.cpp`, `View.h`). On a
  scheduling thread, it periodically computes each app's CPU, cache and
  bandwidth, and partitions CPU weight over workers. `do_apply_to_app` then
  turns the weights into a number of files per worker, a plan of inode moves
  and a resource decision sent to each worker.
- **Benchmark** (`src/bench/src`). It forks one process per app and one thread
  per benchmark thread. All threads of all apps synchronise on one spin
  `Barrier` in shared memory (`utils/barrier.h`). RW threads call it three
  times and DB threads once (`thread.h`). `workload.h` issues the I/O.

These parts interact as follows:
- The allocator's decisions reach the workers as messages. They become
  `adjustCacheSize` calls and migrations (drain, split, install).
- The flusher's completions come back from the device asynchronously and
  interleave with the requests of the tenants.

## Modules

| Module | Models | State ↔ code |
|---|---|---|
| `BlockBuffer` | block buffer, flusher, the tenant drain | see below |
| `MC_BlockBuffer` | model values and two universes for TLC | |
| `AllocApply` | `Allocator::do_apply_to_app` apportionment, move plan and resource shares | `nfiles_curr`, `weights` = the inputs; `nfiles_next`, `inode_move`, `Share` = operators |
| `MC_AllocApply` | 4 workers, ≤ 2 files, weight ≤ 2 per worker, app cache or bandwidth 1 or 5 | |
| `AllocPartition` | `Allocator::do_apply` partition step: `do_symm_partition`, `do_asymm_partition_naive`, `do_asymm_partition_avoid_tiny`, `View.h` pending weights | `cpu`, `weights` (previous decision), `policy` = the inputs; `partition` = an operator |
| `MC_AllocPartition` | 3 workers of weight 5, 2 apps of weight ≤ 10 | |
| `AllocRound` | one round of `Allocator::do_alloc`: `collect_idle`, `do_harvest`, `do_distribute`, and the views' predictions (`View.h`) | `resrc` = each view's `curr_resrc`; `cpuAvail`, `bwAvail`; `relBid`, `compBid`, `relOrd`, `compOrd` = `bw_rel_list`, `bw_comp_list`; `curve`, `cpb` = what `poll_stat` left |
| `GhostView` | the hit-rate curve of `DistrGhostCacheView`: `poll`'s clamp, `get_hit_rate_cnt`'s interpolation, the weighted sum over workers | operators over window images |
| `StdAlgorithm` | libstdc++ `std::sort` and `std::nth_element` on short ranges | operators |
| `MC_AllocRound` | 2 apps, 2 workers, ghost sizes 4/8/12, 3 weightings | |
| `TenantSched` | one worker's tenants (`Tenant.h`), their rate limiters (`RateLimit.h`), the worker loop's stages, and the allocator thread (`Alloc.h`) | see below |
| `MC_TenantSched` | 2 apps, queue depth 1, weight 2, `rate_inv` 1 | |
| `BarrierAbstract` | what a reusable barrier promises | `phase`, `waiting` |
| `BenchBarrier` | `Barrier::arrive_and_wait` as used by `Thread::main` | `count` = `ShmBuf::count`, `pc`, `passed` |
| `MC_BenchBarrier` | 4 RW threads × 3 calls, for the reuse race (a DB thread calls once, a case the reuse subsumes) | |
| `Workload` | `Workload::run(fds)` of `workload.h`: sync path, async context ring, dirty counting, final drain | `wpc` = where the thread is in `run`; `gidx` = the generator's `index`; `opCnt`, `ctxIdx`, `fdIdx`, `ctxs_is_read` = `isRead`, `per_fd_dirty_sizes` = `dirty`; `ctx` = what each `async_ctx_rw` holds; `subs`, `waits` = history |
| `Offsets` | the SEQ, SHUFFLE and UNIF generators of `offset.h` | operators of `min`, `max`, `align` and `index` |
| `BenchThread` | an experiment, `run_expr`: one child process per app under `fork_and_wait`, the apps' RW threads (`Thread::main`) at the shared barrier (`BenchBarrier`) around their workloads (`Workload`), and process death on a throw | the union of both, and the parent's `waitIdx`, `parent` and `killed` |
| `MC_BenchThread` | 2 apps of one thread each: a sync SEQ run over 2 files; two async runs (3 ops, 1 op) with 2 contexts over 1 file | |

### BlockBuffer

**State.**
- A slot has:
  - a tag: a tenant, `UNALLOC`, or `Gone` once exported;
  - a key (the block number, or `NoKey`);
  - `refs`: the LRU refcount, which includes the dirty pin;
  - `held`: the pins held by requests;
  - the item fields `index`, `dirty`, `inMem` and `pending` (I/O submitted).
- `blockIndexMap` and `dirtyIndexMap` are partial functions from inode index
  to sets of slots, as in the code.
- `numDirty` is per tag. `numFgFlush`, `bgFlushSent` and `fgIndices` are as in
  the flusher.
- `bgBatch` and `fgFlights` are the writes in flight to the device.
- `ver` / `disk` are versions of each block in memory and on the device. They
  let a lost write be seen.
- `owned` is the set of inodes the worker owns. `exported` holds the items in
  transit to the destination worker.
- `discarded` is a history variable: data thrown away by unlink.

**Actions.** There is one action per handler:
- `GetBlock`, `ReleaseBlock`, `SubmitRead`, `ReadDone`;
- `WriteBlock` (`setBlockDirty`), `DoFlush`, `BgFlushDone`, `FgFlush`,
  `FgFlushDone`;
- `ReleaseUnlinkedInodeDirtyBlocks`;
- `SplitBufferItemsByIndex`, `InstallBufferItemsOfIndex`;
- `AdjustCacheSize`, for any cache size the allocator may set, taken
  through `GetMaxCacheSize` (`Tenant::get_max_cache_size`, at least
  `min_cache`).

The flush completions include the `unsetBlockDirty` calls of the worker that
receives them. The worker code that calls these handlers (the FsProc worker
loop, the device completion path) and the gcache `SharedCache` are not under
`src/`. Their part is modelled from `spec.md` and marked `spec_modelled` in
the map:
- `Relocate` moves slots between tags. A moved slot loses its block.
- `WriteOf` and `Persist` stand for a device write.

**Universes.**
- Main: 3 slots, two of them a1's and one unallocated; blocks `b1`, `b2` of
  inode 2 and `b3` of inode 0 (the metadata index the BG flusher uses); one
  app. Symmetry is over the two tenant slots and the two inode blocks.
  `MaxVer = 1`: each block is written at most once.
- Small: 2 slots, 2 blocks, `MaxVer = 2`. Here a dirty block can be written
  again, including while its flush is in flight.
- `FgFlushLimit = 1`, so the limit is reached. `RatioNum/RatioDen = 1/2`, so
  one dirty block of a two-slot tenant triggers the BG flush.
- `MinCache = 1` stands for `params::min_cache`, in slots: a resize may
  leave a tenant a single slot, which is where the stale flusher capacity
  shows.
- `MaxHeld = 1` caps the pins of a request. `MCConstraint` cuts behaviours
  after a refcount underflow, which would otherwise grow forever.

### AllocApply

The function is pure. Its inputs are the files of the app on each worker and
the pending weights of each worker. `Init` chooses any such input with a
positive total weight, and `Next` leaves it unchanged, so checking an
invariant checks the operators on every input. The code can meet a total
weight of 0: `cycles_to_weight` truncates an app's `cpu_cycles`, and
`collect_idle` may lower them below one weight. The division at
`Alloc.cpp:244` is then 0.0 / 0. `AllocRound` counts CPU in units far
coarser than a weight, so it cannot reach this case. It is listed as a
hazard.
- `NFilesNext` is the floor-plus-largest-remainder rounding. The fractional
  parts are kept exactly, as numerators over the total weight.
  `FirstLargest` is `std::max_element`.
- `Endpoints` is the scan that builds sources and destinations, including its
  `break`.
- `MatchSrc` / `MatchDst` are the two nested loops, with the destination's
  deficit updated in place as the code does through `auto& [dst_wid, m]`.
- `Share` is the cache or bandwidth of one worker's `AllocDecision`:
  `std::ceil` of the app's total times the worker's share of the files.
  With an app that has no open files the quotient is `0.0 / 0`, and its
  integer cast is undefined; that case is left out of `SharesCoverTotal`.

### AllocPartition

The partition is pure, like `AllocApply`: `Init` picks the apps' cycles, the
weights of the previous decision and a policy, and `Next` leaves them alone.
- `ResetPendingWeights` turns cycles into `pending_weight_unalloc`.
  `AddPendingWeight` is `add_pending_weight`.
- `DoSymmPartition` gives every worker `weight / num_workers` of each app,
  then places the rounding leftovers one unit per worker, starting again
  from `worker_avail_weight` for every app.
- `DoAsymmPartitionNaive` sorts the views and the workers and fills greedily
  (`FillLeftover`).
- `DoAsymmPartitionAvoidTiny` first hands out whole dedicated workers
  (`DedicatedOrder`, `TakeDedicated`), then splits tiny weights
  (`SplitTiny`), then fills the leftover list sorted by `LeftoverOrder`.
- `StdSort` is libstdc++'s insertion sort for short ranges. It is written
  out because the avoid-tiny comparator is not a strict weak order, and the
  result of `std::sort` then depends on the algorithm.

### AllocRound and GhostView

`Init` gives every app a hit-rate curve and a `cycles_per_block`, and sets
every view to `base_resrc` (`do_alloc`, lines 160-164). A curve is what
`GhostView` computes from each worker's window image of its ghost cache
(hit and miss counts per ghost size) and the app's per-worker weights:
- `Poll` is `GhostCacheView::poll`'s clamp, which makes a torn read
  inclusive (hits rise and misses fall with size). `ClampFrom` walks the
  sizes.
- `GetHitRateCnt` scales below `min_size` and interpolates between two
  ticks, truncating to counts as the `uint64_t` casts do.
- `DistrHitRateCnt` adds up every weighted worker's counts at its share
  `w * size / weight_sum`.
A rate is kept as its pair of counts, so no floating point is needed;
`RateLeq` compares two rates by cross-multiplying.

The round is one action per phase of `do_alloc`:
- `CollectAll` runs `collect_idle` on every view (`PredCpuDemand`,
  `PredBandwidthDemand`), sums what was taken back, and builds the two bid
  lists (`PredWhatIfMoreCache`, `PredWhatIfLessCache`).
- `HarvestRound` is one iteration of `do_harvest`'s loop. `nth_element`
  (`NthElementSmall`) picks the largest release and the smallest
  compensation. `CompPick` takes the second one when both are the same
  view. The deal (`Deal`) moves `cache_delta` and the two bids' bandwidth,
  and `RefreshBids` recomputes the bids of the two views; otherwise the loop
  ends.
- `Distribute` is `do_distribute` under `strict_weight_distr`: bandwidth
  and CPU in proportion, the rounding rest to view 0.
- `Done` stutters: `do_apply` (`AllocPartition`, `AllocApply`) follows.


**State.** A request is a token, and the queues are counters: `recv`,
`intl`, `blk`, the device `dev`, and `cq` (completed, not yet polled).
- `inflight` is `num_reqs_inflight`. `prog` is `cpu_prog`.
- `weight` and `rateInv` are the resources `set_resrc` installs.
- `numBlks` is the limiter's `curr_num_blks`. `cached` is the size of the
  tenant's cache partition.
- `isDrain` and `pending` are `is_drain` and a non-empty
  `pending_inode_move`. `mig` says whether the inodes were exported and
  acknowledged.
- `served` says whether the app's client got an answer since it last sent.
  `active` says whether the tenant finished blocks since the allocator's
  `reset_stat`.
- The clock is `now` (ticks into the CPU epoch), `offset` (ticks into the
  limiter frame) and `ticks` (ticks since the worker last picked).
- `inbox` is the messenger queue from the allocator. `aphase` and `rounds`
  are the allocator thread's.

**Actions.** The worker loop (not under `src/`; its stages are from
`spec.md` 4.6) is one action per stage:
- `Serve` polls completions into `intl_queue`. At an epoch boundary it
  resets `cpu_prog` first. It picks the schedulable tenant with least
  progress (`CanSched`, `Picked`) and serves up to `num_reqs_per_loop` of its
  requests: from `intl_queue` (they complete), and through
  `pop_recv_queue` (a cache hit completes, a miss waits in `blk_queue`).
  `record_cpu_consump` then adds the cycles.
- `SubmitBlocks` submits blocks until the limiter denies (`Submittable`).
  While the cache partition is not full, the limiter is bypassed.
- `PollMessage` applies one message. A decision runs `set_resrc` and, with
  moves, `set_drain_for_migration`. An ack runs `unset_drain_for_migration`.
  With the inbox empty, `Migrate` exports the inodes of every tenant that
  `should_migrate`.

The environment actions are:
- `ClientSend`: a closed-loop client keeps at most `QDepth` requests
  outstanding.
- `DeviceDone`: the device completes a block.
- `Tick`: the clock advances. A new frame resets `curr_num_blks`.
- `MigrationAck`: the destination worker acknowledges a migration.

The allocator thread is `ResetStat` (`reset_stat` of all views) and
`Allocate` (`poll_stat`). Decisions are sent only when every app was active
in the window. Each carries a weight and a `rate_inv` from small sets, and
inode moves unless the partition is symmetric.

### BenchBarrier

- `Arrive` is the atomic `__sync_add_and_fetch`.
- `Reset` is the last arriver's store of 0.
- `Spin` returns after reading 0, and `SpinWait` is a read of a non-zero
  count.
- `AfterBarrier` says where a thread goes after a barrier: on to its next
  call, or done.

The refinement mapping to `BarrierAbstract` maps `phase` to `passed`, and
`waiting` to "spinning or about to store 0". `ImplementsBarrier ==
Abs!Spec` is checked as a property.

### Workload, Offsets and BenchThread

- `StartRun` is the constructor and the set-up of `run`: fresh contexts,
  `ctxs_is_read` and per-fd counters. `EndRun` is the return and
  `~Workload`'s `fs_free`: `Workload(workload).run(fds)` is a temporary.
- `SyncOp` (qdepth 1) and `AsyncOp` are one body of the loop, each with
  `LoopTail`: the two duration breaks, the advance of `ctx_idx`, `fd_idx`
  and `op_cnt`, the `op_cnt > spec.ops` break and `goto begin`. `AsyncOp`
  waits first when `op_cnt >= qdepth` (`MustWait`); the wait blocks until the
  FS completed that context's request (`FsComplete`, at any time).
- `LoopExit` is the generator running out (`gen.index < num`); `Break` starts
  the cleanup at context 0, and `DrainWait` waits for `min(qdepth, op_cnt)`
  contexts (`DrainCount`).
- `Expire` is the elapsed time reaching `duration_sec`. It is abstracted to
  "at any step once `expiryMinOps` operations were counted".
- `FsFail` is an `fs_*` call returning something unexpected: `run` throws.
  In `BenchThread` the throw leaves `std::thread`, `std::terminate` ends
  the app's process (`Abort`, `Failed`), and no thread of that app moves
  again; the other apps' threads go on.
- `WaitChild` is one turn of `fork_and_wait`'s wait loop. It waits for child
  `waitIdx` only, in fork order. A child that exited with 0 (`Exited`: all
  its threads joined) moves the loop on. Any other end (`Ended`) makes the
  parent SIGTERM children `waitIdx..` (`killed`) and exit 1.
  `ParentReturn` is the loop ending after every child.
- In `BenchThread`, the workloads start after the second
  `arrive_and_wait` (`RunsWorkloads`), and the third waits for them
  (`WorkloadsDone`).
- `Offsets` is constant-level: `SeqGet`, `ShuffleGet` over every
  permutation `std::shuffle` can produce (`SetToSeqs`), and `UnifGets`.

## Runs

| Run | Expect | What it shows |
|---|---|---|
| `bb_core` | pass | With all handlers interleaved, `numDirty` and `dirtyIndexMap` match the dirty slots (`DirtyAccounting`), every dirty slot keeps its dirty pin (`DirtyPinned`), and when an inode is drained for export each of its slots is unpinned but for the dirty pin, so `splitBufferItemsByIndex` cannot throw after erasing part of the inode (`SplitSafe`). 390k states. |
| `bb_unlink_pins` | violation | `releaseUnlinkedInodeDirtyBlocks` releases a clean, unpinned block: refcount −1 (`PinAccounting`). |
| `bb_lost_write` | violation | A rewrite during a flush is marked clean by the completion although the disk has the old version (`CleanMatchesDisk`). |
| `bb_migrate_flush` | violation | A drained tenant's inode is exported while its BG flush is in flight (`FlightsInBuffer`). |
| `bench_thread` | pass | Two apps of one RW thread each, under `fork_and_wait`, three barriers each, around their workloads, with completions in any order, the clock expiring and `fs_*` calls failing. No early release (`ImplementsBarrier`); every submitted request is held by a context or was waited for (`InFlightAccounted`); no run frees its buffers while the FS holds one of its requests (`BuffersIdleAtExit`); every run ends unless its app died (`RunEnds`); the parent exits 0 only when every child exited with 0, and exits 1 only once no child is left running (`ParentExitMatches`); every SEQ, SHUFFLE and UNIF offset lies in range, aligned, and SEQ and SHUFFLE cover the range in any `n_` calls (`OffsetsInRange`). 43k states. |
| `barrier_rw_hang` | violation | Three reuses: a fast re-arrival strands the spinners, so `AllThreadsFinish` fails. |
| `alloc_apply` | pass | The rounding is a largest-remainder apportionment, and no move exceeds a surplus or deficit. The shares give the workers at least the app's cache and bandwidth, and less than one unit more per worker with files; a worker without files gets none (`SharesCoverTotal`). With a total of 1 over two workers the decision gives out 2. |
| `alloc_apply_realize` | violation | The `break` at `Alloc.cpp:285` skips a later source, so the moves do not reach `nfiles_next`. |
| `alloc_partition` | pass | Under all three policies every app's weight is placed (`PartitionComplete`). The asymmetric policies never oversubscribe a worker (`AsymmNotOversubscribed`). The avoid-tiny leftover list comes out sorted, although its comparator is not a strict weak order (`LeftoverOrderSorted`). 215k states. |
| `alloc_partition_symm` | violation | The symmetric rounding pass puts more than `worker_avail_weight` on worker 0 (`WorkerNotOversubscribed`). |
| `tenant_sched` | pass | `num_reqs_inflight` counts exactly the popped, unanswered requests (`InflightAccounting`). No request of a tenant is in flight from export until the ack (`MigrationQuiesced`). Every drain ends (`DrainCompletes`), and every app's requests are answered (`AppProgress`). 122k states. |
| `alloc_round` | pass | Over every curve the ghost windows can produce: no resource is lost or goes negative in a round (`ResourcesConserved`), and the monotonicity asserts of the what-if predictions hold (`WhatIfAssertsHold`). 218k states. |

`TenantSched` states `SetDrainWhenIdle`, the assert at `Tenant.h:268`: a
decision with moves reaches only a tenant that is not draining. With two
allocation rounds TLC finds it violated, but the worker loop that orders the
messages is not under `src/`, so the case is listed as a hazard without a run.

`AllocRound` states `CacheAboveMinTotal`: no deal takes a view below
`min_cache_total`. TLC finds it violated: `pred_what_if_less_cache` tests
`cache_size > min_cache_total` before taking `cache_delta` away
(`View.h:420`), so a view just above the floor gives a whole `cache_delta`
and ends below it: in the configuration, 5 → 3 → 1 with a floor of 2. It is
listed as a hazard.

`BlockBuffer` also states `IndexMapConsistent`: `blockIndexMap` names only
slots of the inode's own tag. TLC finds it violated after `adjustCacheSize`
relocates a cold slot. The relocation is gcache code outside `src/`, so no
run is given to it; it is listed as a hazard.

`BlockBuffer` states `FullPartitionFlushes`: when every slot of a tenant is
dirty, a BG or FG flush is due or under way, so `getBlock` does not return
`nullptr` for good. TLC finds it violated in 6 steps. The flusher's
`TenantInfo.capacity` is set in its constructor and `adjustCacheSize` never
updates it, so after a shrink to one slot, one dirty block is below half of
the old capacity and no BG flush is due. All run slots are in use, so it is
listed as a hazard (`BlockBufferFlusher.h:29`) rather than given a run.

`BenchThread` states `FailureReported`: every child that dies is reported
by the parent. TLC finds it violated in 18 steps: app 1's thread fails
during its run, app 0's thread arrives at the third barrier and spins
waiting for it, and the parent, waiting on child 0 first, never returns
and never kills app 0. The experiment hangs instead of exiting 1. All run
slots are in use, so it is listed as a hazard (`fork.h:30`) rather than
given a run.

Each property of a passing run has a mutant in `PROJECT.json`: a plausible bug
in the definition it names, which TLC finds. For example:
- `WriteBlockNoPin` forgets `lruCache.pin`;
- `WaitChildNoKill` exits 1 without the kill loop;
- `ReleaseBlockNoUnpin` drops a request's handle without `lruCache.release`;
- `UnsetBlockDirtyUnchecked` drops the `used_to_be_dirty` test;
- `FgFlushNoLimit` ignores `fgFlushLimit`;
- `ArriveEarly` releases one thread early;
- `ResetNoStore` forgets to store 0;
- `GiveRemainingNoDec` forgets `nfiles_diff[wid]--`;
- `MatchDstByValue` takes `m` by value;
- `FillLeftoverByValue` does not carry a worker's remaining weight across
  apps;
- `RecordReqDoneNoop` forgets `--num_reqs_inflight`;
- `ShouldMigrateNoWait` migrates without waiting for in-flight requests;
- `UnsetDrainKeepDrain` leaves `is_drain` set;
- `CanSchedRecvOnly` ignores `intl_queue` when deciding a tenant is
  schedulable;
- `CollectIdleSigned` lets `collect_idle` take back a negative amount;
- `DistributeBwNoRest` forgets the rounding rest;
- `PollNoClamp` (in `GhostView`) drops `poll`'s clamp;
- `MustWaitOffByOne` waits only once `op_cnt > qdepth`;
- `BreakKeepIdx` starts the cleanup where the ring stopped instead of at 0;
- `DrainCountAll` waits on all `qdepth` contexts, used or not;
- `SeqNOffByOne` counts one aligned offset too many;
- `ShareFloor` rounds the shares down.

## Fairness

- **Barrier.** Each benchmark thread is an OS thread pinned to its own core
  (`pin_to_core`), so each of its steps is weakly fair. The spinner's exit
  (`Spin`) is enabled only while `count = 0`. Weak fairness therefore does
  not force a spinner to see a 0 that another thread overwrites at once,
  which is the real hazard.
- **TenantSched.** The worker thread and the allocator thread each run on
  their own core, so `WorkerStep`, `ResetStat` and `Allocate` are weakly
  fair. So are the clock, the device's completions, the destination
  worker's acks and each client's sends.
- **The clock against the loop.** `TicksPerLoop = 1` lets the clock advance
  at most one tick between two picks of the worker. The code justifies this:
  a CPU epoch is 100 ms, and one iteration of the worker loop takes
  microseconds. Without the bound, TLC finds a starvation that the real
  speeds exclude: every epoch reset puts all progress at 0, and the tie goes
  to app 1 each time.
- **AllocRound.** The round is sequential code on one thread; the only
  liveness question is whether the harvest loop ends. It is not stated as a
  property: with the two apps TLC can hold, every deal is forced to be
  between the two views and `DealWorthIt` demands a bandwidth gain, so a
  property about it would only restate those guards. No fairness is assumed.
- **BlockBuffer.** These runs check safety only. Nothing in the worker loop
  guarantees that a given request or flush is ever scheduled.

- **BenchThread.** Each thread is pinned to a core, and the FS worker
  serves every request it is sent (`AppProgress` of `TenantSched`), so the
  threads' steps and `FsComplete` are weakly fair. The clock (`Expire`) and
  the failures (`FsFail`, `Abort`) are not: a run may end by its count or
  its clock, and need not fail. The parent blocked in `waitpid` is woken
  by the kernel when the child it waits for ends, so `WaitChild` and
  `ParentReturn` are weakly fair.

## Bounds

- Three slots are enough for a tenant to have a dirty slot, a clean slot and
  a victim, and for `UNALLOC` to hold one slot to relocate.
- Two blocks of one inode let split, install and unlink act on several blocks.
  The index-0 block exercises the BG flusher.
- `MaxVer = 2` on the small universe (`bb_lost_write`) is the least that lets
  a write follow a write.
- Four workers are the least for two sources and two destinations in
  `AllocApply`, which the by-value mutant needs.
- **Partition.** Three workers of weight 5 give `soft_min_weight` 1.
  - Apps of up to 10 span less than one worker, one worker exactly, and
    two workers.
  - Two cycles per weight unit let equal weights come from different cycles.
  - The old weights range over the weak orders of the workers, since only
    their order is compared.
- **TenantSched.** Two apps are the least for the pick, the tie-break and
  starvation.
  - Queue depth 1 keeps a request at every stage of its path. Queue depth
    2, where the drain test in `pop_recv_queue` first matters, is planned.
  - Weight 2 of 2, against one cycle per tick, lets `strict_cpu_usage`
    throttle within an epoch of 2 ticks.
  - `rate_inv` 1 over a frame of 2 ticks lets the limiter deny a third
    block.
  - A one-block cache ends the unpopulated-cache bypass after the first
    miss.
  - One allocation round lets a drain run to its ack. Two rounds reach a
    decision during a drain.
- **AllocRound.** Two apps are what a deal needs; `CompPick`'s skip
  happens when one app both releases most and asks least.
  - Cache 10 gives a base of 5 and, with `cache_delta` 2, the sizes 1..9
    the round can reach; ghost sizes 4, 8, 12 put them below `min_size`,
    on a tick and between ticks.
  - Two workers and three weightings (even, uneven, one worker only) make
    the weighted sum and its truncated shares matter.
  - Window counts of 0..2 hits and 0..1 misses per size include empty
    windows (infinite rate), torn reads that `poll` must clamp, and full
    hits.
  - Bandwidth 16 and CPU 32 with `cycles_per_block` 1 or 2 let
    `collect_idle` take back some of a resource and not all of it.
- Four RW threads for the hang run; the barrier race needs only two
  threads and two reuses, as in `bench_thread`.
- **BenchThread.** Two apps of one thread each are the least that shows
  the wait order: either app may die while the other is at the barrier.
  Thread 1's qdepth-1 SEQ run over two files reaches
  `goto begin` and the `op_cnt > ops` break. Thread 2's two-context ring
  with three operations wraps the ring once, so `MustWait` waits on a
  context the FS may not have completed; its second run of one operation
  leaves a context unused, so the drain's `min(qdepth, op_cnt)` matters.
  `dirty_threshold` 2 makes a second write fdatasync. `expiryMinOps` 2 lets
  the clock break the ring mid-run once every context was used.
- **Offsets.** `min` ∈ {0, 2}, `max` ∈ {4, 6}, `align` ∈ {1, 2, 4} give
  ranges of one to six offsets, aligned and not, and all 720 orders of a
  six-offset shuffle.

## Not modelled, and the plan

Not modelled now, in the order planned:
1. **The zero-files case of the resource shares** (`Alloc.cpp:326`), with
   the cast of NaN as a choice over what the build produces, and its effect
   on the worker's rate limiter.
2. **Tenant queue depth 2 and harvest rounds.** A configuration where a
   request waits in `recv_queue` while the tenant drains, so the `is_drain`
   test of `pop_recv_queue` matters. Several allocation rounds with
   symmetry over the apps.
3. **The drain race as a run.** `Workload`'s cleanup waits for
   `min(qdepth, op_cnt)` contexts, but the duration break (`workload.h:186`)
   comes before `op_cnt++`. `Stat`'s elapsed time advances only in `op_stop`,
   which the ring first calls at `op_cnt = qdepth`, so this needs
   `duration_sec` 0. With `expiryMinOps` below `qdepth` TLC finds
   `BuffersIdleAtExit` violated: a submitted context is never waited for and
   its buffer is freed under the FS. It is a hazard without a run for now.
4. A two-app `BlockBuffer` configuration for `removeDirtyItemByIndex`'s
   first-tag choice. `SplitSafe` shows the drain keeps `splitBufferItemsByIndex`
   from throwing; a run that drops that guard and lets split fail midway is
   not yet written.
5. The full-hit and fallback passes of `do_alloc` without
   `strict_weight_distr`.
6. A composition of `TenantSched`'s migration with `BlockBuffer`'s split
   and install, in place of the `mig` abstraction.

Out of reach or pure I/O:
- the ghost cache itself (gcache, not under `src/`): window images are
  left open instead;
- the `uint32_t` share product of `DistrGhostCacheView` (TLC integers are
  32-bit signed, so the wrap cannot be stated);
- parameters, logging and statistics;
- `FsProc_FsMain.cc` configuration and start-up;
- the benchmark's argument and JSON parsing and file preparation;
- the ZIPF and MIXGRAPH offset generators (floating point), and
  `Workload::run(leveldb::DB*)` with the DB threads (LevelDB is not under `src/`);
- `Workload::run`'s `op_cnt > spec.ops` test lets a SEQ run over several
  files issue `ops + 1` operations; the model does this, but the count is a
  statistic and no property is about it;
- the unit tests, whose sequences are behaviours of `BlockBuffer`.
