----------------------------- MODULE AllocRound -----------------------------
(***************************************************************************)
(* One allocation round of the allocator thread, Allocator::do_alloc      *)
(* (src/cfs/sched/Alloc.h) over the apps' views (AppResrcView, View.h):    *)
(* every app starts from the equal share base_resrc; collect_idle takes    *)
(* back the bandwidth or CPU an app is predicted not to use; do_harvest    *)
(* trades cache_delta of cache for bandwidth between apps, one deal per    *)
(* round of its loop, while the bandwidth one app can release exceeds what *)
(* another asks in compensation; do_distribute hands out what was         *)
(* collected.  The partition of CPU into per-worker weights that follows  *)
(* is AllocPartition.                                                      *)
(*                                                                         *)
(* Hit rates are what DistrGhostCacheView::get_hit_rate returns for the    *)
(* cache sizes the round asks about, computed by GhostView from each       *)
(* app's window images of its workers' ghost caches and its weights; a     *)
(* rate is the pair of counts it divides.  Doubles are exact rationals     *)
(* here, truncated toward zero where the code converts to int64_t.         *)
(***************************************************************************)
EXTENDS Naturals, Integers, Sequences, FiniteSets, Functions, StdAlgorithm,
        GhostView

CONSTANTS
    NumApps,              \* views.size()
    TotalCache,           \* total_resrc.cache_size
    TotalBw,              \* total_resrc.bandwidth
    TotalCpu,             \* total_resrc.cpu_cycles
    CacheDelta,           \* params::cache_delta
    MinBandwidth,         \* params::min_bandwidth
    MinBandwidthHarvest,  \* params::min_bandwidth_harvest
    FullHitNum,           \* params::full_hit_threshold = FullHitNum / FullHitDen
    FullHitDen,
    NumWorkers,           \* workers, each with a tenant of every app
    WindowImages,         \* ghost counts per size a worker's window can show
    Weights,              \* the apps' per-worker weights at poll time
    WindowAccts,          \* ResrcAcct totals a view's statistics window can show
    AbortOffer,           \* std::numeric_limits<int64_t>::max()
    HarvestEnabled        \* params::policy::harvest_enabled

Apps == 0..NumApps-1

\* ResrcAlloc (Resrc.h): cache, bandwidth and CPU; operator/ shares it
ResrcAlloc(c, b, p) == [cache |-> c, bw |-> b, cpu |-> p]

\* Alloc.h add_total_resrc: base_resrc = total_resrc / views.size()
Base == ResrcAlloc(TotalCache \div NumApps, TotalBw \div NumApps,
                   TotalCpu \div NumApps)

\* ResrcAcct (Resrc.h): blocks done, blocks read from the device, cycles
ResrcAcct(done, bw, cpu) == [done |-> done, bw |-> bw, cpu |-> cpu]

\* AppResrcView::poll_stat (View.cpp) over the window's accounting summed
\* over the app's tenants: active if a block was done, and then
\* cycles_per_block = cpu_consump / num_blks_done; else int64 max
PollStat(acct) ==
    [active |-> acct.done > 0,
     cpb |-> IF acct.done > 0 THEN acct.cpu \div acct.done ELSE AbortOffer]

\* Param.h: min_cache_total = cache_delta
MinCacheTotal == CacheDelta

\* cache sizes a round can ask about: base_resrc.cache_size moved by whole
\* cache_deltas, up to all the cache and one delta more
CachePoints ==
    {c \in 0..TotalCache + CacheDelta : (c - Base.cache) % CacheDelta = 0}

Workers == 0..NumWorkers-1

\* the hit rates an app's view can answer with, at every cache point
Curves ==
    {GhostCurve(raw, w, CachePoints) : raw \in [Workers -> WindowImages],
                                       w \in Weights}

\* a double converted to int64_t: truncated toward zero
TruncDiv(x, y) == IF x >= 0 THEN x \div y ELSE -((-x) \div y)

VARIABLES
    curve,      \* aid -> cache size -> hit rate of the app's ghost view
    cpb,        \* aid -> cycles_per_block
    resrc,      \* aid -> curr_resrc of the view: [cache, bw, cpu]
    cpuAvail,   \* cpu_avail of do_alloc
    bwAvail,    \* bw_avail of do_alloc
    relBid,     \* aid -> its entry of bw_rel_list
    compBid,    \* aid -> its entry of bw_comp_list
    relOrd,     \* the order of bw_rel_list, as a sequence of aids
    compOrd,    \* the order of bw_comp_list
    phase       \* "collect", "harvest", "distribute" or "done"

vars == <<curve, cpb, resrc, cpuAvail, bwAvail, relBid, compBid, relOrd,
          compOrd, phase>>

SumOf(f) == SumFunction(f)

-----------------------------------------------------------------------------
(* The predictions of AppResrcView (View.h).                               *)

HitRate(a, c) == curve[a][c]

IsInf(h) == IsInfRate(h)
\* hit_rate >= params::full_hit_threshold; true of infinity
AtFullHit(h) == IsInf(h) \/ h.hit * FullHitDen >= FullHitNum * (h.hit + h.miss)

\* pred_cpu_demand: the CPU to saturate the bandwidth
PredCpuDemand(a, r) ==
    LET h == HitRate(a, r.cache)
    IN  IF AtFullHit(h) THEN AbortOffer
        ELSE (r.bw * cpb[a] * (h.hit + h.miss)) \div h.miss

\* pred_bandwidth_demand under cache_partition: the bandwidth to saturate
\* the CPU
PredBandwidthDemand(a, r) ==
    LET h == HitRate(a, r.cache)
    IN  IF IsInf(h) \/ AtFullHit(h) THEN 0
        ELSE (r.cpu * h.miss) \div ((h.hit + h.miss) * cpb[a])

\* a collect_idle that takes back any difference from the demand
CollectIdleSigned(a, r) ==
    LET bwDemand == PredBandwidthDemand(a, r)
    IN  [r |-> [r EXCEPT !.bw = bwDemand], cpu |-> 0, bw |-> r.bw - bwDemand]

\* collect_idle: bandwidth first, else CPU; the new curr_resrc and the
\* <cpu, bw> taken back
CollectIdle(a, r) ==
    LET bwDemand == PredBandwidthDemand(a, r)
        bwIdle == r.bw - bwDemand
        cpuDemand == PredCpuDemand(a, r)
        cpuIdle == r.cpu - cpuDemand
    IN  IF bwIdle > MinBandwidth
        THEN [r |-> [r EXCEPT !.bw = bwDemand], cpu |-> 0, bw |-> bwIdle]
        ELSE IF cpuIdle > 0
        THEN [r |-> [r EXCEPT !.cpu = cpuDemand], cpu |-> cpuIdle, bw |-> 0]
        ELSE [r |-> r, cpu |-> 0, bw |-> 0]

\* pred_what_if_more_cache: the bandwidth the app can give up for one more
\* cache_delta at the same throughput; 0 aborts the deal
PredWhatIfMoreCache(a, r) ==
    LET old == HitRate(a, r.cache)
        new == HitRate(a, r.cache + CacheDelta)
    IN  IF AtFullHit(old) \/ IsInf(new) THEN 0
        ELSE TruncDiv(r.bw * (new.hit * (old.hit + old.miss)
                              - old.hit * (new.hit + new.miss)),
                      (new.hit + new.miss) * old.miss)

\* pred_what_if_less_cache: the bandwidth the app asks for one cache_delta
\* less; int64 max aborts the deal
PredWhatIfLessCache(a, r) ==
    LET old == HitRate(a, r.cache)
        new == HitRate(a, r.cache - CacheDelta)
    IN  IF r.cache <= MinCacheTotal THEN AbortOffer
        ELSE IF IsInf(old) \/ IsInf(new) THEN AbortOffer
        ELSE IF AtFullHit(new) THEN 0
        ELSE IF AtFullHit(old) THEN AbortOffer
        ELSE TruncDiv(r.bw * (old.hit * (new.hit + new.miss)
                              - new.hit * (old.hit + old.miss)),
                      (new.hit + new.miss) * old.miss)

-----------------------------------------------------------------------------
(* The inputs: each app's ghost curve and cycles per block as poll_stat    *)
(* left them, every app active (Allocator::run allocates only then), and   *)
(* every view set to base_resrc (do_alloc, lines 161-164; there are at     *)
(* least two views, or do_alloc returns at once).                          *)
Init ==
    /\ curve \in [Apps -> Curves]
    /\ cpb \in [Apps -> {PollStat(w).cpb : w \in {x \in WindowAccts : PollStat(x).active}}]
    /\ resrc = [a \in Apps |-> Base]
    /\ cpuAvail = 0 /\ bwAvail = 0
    /\ relBid = [a \in Apps |-> 0] /\ compBid = [a \in Apps |-> 0]
    /\ relOrd = <<>> /\ compOrd = <<>>
    /\ phase = "collect"

(* do_alloc lines 174-195: collect every view's idle resources; then       *)
(* do_harvest lines 255-261 builds its two bid lists in aid order.         *)
CollectAll ==
    LET c == [a \in Apps |-> CollectIdle(a, resrc[a])]
        r == [a \in Apps |-> c[a].r]
        ids == [i \in 1..NumApps |-> i - 1]
    IN  /\ phase = "collect"
        /\ resrc' = r
        /\ cpuAvail' = SumOf([a \in Apps |-> c[a].cpu])
        /\ bwAvail' = SumOf([a \in Apps |-> c[a].bw])
        /\ relBid' = [a \in Apps |-> PredWhatIfMoreCache(a, r[a])]
        /\ compBid' = [a \in Apps |-> PredWhatIfLessCache(a, r[a])]
        /\ relOrd' = ids /\ compOrd' = ids
        /\ phase' = IF HarvestEnabled THEN "harvest" ELSE "distribute"
        /\ UNCHANGED <<curve, cpb>>

\* the deal: one cache_delta from the compensated view to the releasing
\* one, and their bandwidths moved by the two bids
Deal(r, rel, comp, bwRel, bwComp) ==
    LET r1 == [r EXCEPT ![rel].cache = @ + CacheDelta, ![rel].bw = @ - bwRel]
    IN  [r1 EXCEPT ![comp].cache = @ - CacheDelta, ![comp].bw = @ + bwComp]

\* lines 312-326: the bids of the two views of the deal, recomputed
RefreshBids(r, rel, comp) ==
    [rb |-> [a \in Apps |-> IF a \in {rel, comp}
                            THEN PredWhatIfMoreCache(a, r[a]) ELSE relBid[a]],
     cb |-> [a \in Apps |-> IF a \in {rel, comp}
                            THEN PredWhatIfLessCache(a, r[a]) ELSE compBid[a]]]

\* bw_comp_list ordered by the compensation asked, smallest first
ByComp(x, y) == compBid[x] < compBid[y]

\* lines 282-294: the cheapest compensation; when it is the releasing view,
\* the second after one more nth_element: the list and the view picked
CompPick(ord, rel) ==
    IF ord[1] = rel THEN LET o == NthElementSmall(ord, ByComp) IN <<o, o[2]>>
    ELSE <<ord, ord[1]>>

\* line 296: a deal is made only if it gains more than min_bandwidth_harvest
DealWorthIt(gain) == gain > MinBandwidthHarvest

(* do_harvest lines 266-328, one round of the loop: nth_element brings the *)
(* largest release and the smallest compensation to the front; if both    *)
(* are one view's, the second-smallest compensation is taken; the loop     *)
(* ends unless the deal gains more than min_bandwidth_harvest.  The bound *)
(* max_trade_round (UINT32_MAX) is never what ends it here.               *)
HarvestRound ==
    LET ro == NthElementSmall(relOrd, LAMBDA x, y : relBid[x] > relBid[y])
        co1 == NthElementSmall(compOrd, ByComp)
        rel == ro[1]
        pick == CompPick(co1, rel)
        co == pick[1]
        comp == pick[2]
        gain == relBid[rel] - compBid[comp]
        r == Deal(resrc, rel, comp, relBid[rel], compBid[comp])
    IN  /\ phase = "harvest"
        /\ relOrd' = ro /\ compOrd' = co
        /\ \/ /\ gain <= MinBandwidthHarvest
              /\ phase' = "distribute"
              /\ UNCHANGED <<resrc, bwAvail, relBid, compBid>>
           \/ /\ DealWorthIt(gain)
              /\ resrc' = r
              /\ bwAvail' = bwAvail + gain
              /\ relBid' = RefreshBids(r, rel, comp).rb
              /\ compBid' = RefreshBids(r, rel, comp).cb
              /\ UNCHANGED phase
        /\ UNCHANGED <<curve, cpb, cpuAvail>>

\* a distribution that forgets the rounding rest
DistributeBwNoRest(r, avail) ==
    LET bwSum == TotalBw - avail
    IN  [a \in Apps |-> [r[a] EXCEPT !.bw = @ + (IF bwSum > 0
                          THEN IF r[a].bw = 0 THEN 0 ELSE (avail * r[a].bw) \div bwSum
                          ELSE avail \div NumApps)]]

\* do_distribute lines 340-358: bandwidth in proportion to each view's, the
\* rounding rest to view 0
DistributeBw(r, avail) ==
    LET bwSum == TotalBw - avail
        share == [a \in Apps |->
                    IF bwSum > 0
                    THEN IF r[a].bw = 0 THEN 0 ELSE (avail * r[a].bw) \div bwSum
                    ELSE avail \div NumApps]
        rest == avail - SumOf(share)
    IN  [a \in Apps |-> [r[a] EXCEPT !.bw = @ + share[a]
                                              + (IF a = 0 THEN rest ELSE 0)]]

\* lines 361-380 under strict_weight_distr: CPU in proportion to each
\* view's, the rounding rest to view 0
DistributeCpu(r, avail) ==
    LET cpuSum == TotalCpu - avail
        share == [a \in Apps |-> (avail * r[a].cpu) \div cpuSum]
        rest == avail - SumOf(share)
    IN  [a \in Apps |-> [r[a] EXCEPT !.cpu = @ + share[a]
                                               + (IF a = 0 THEN rest ELSE 0)]]

(* do_alloc lines 197-249: with nothing collected the round is done;      *)
(* otherwise do_distribute, which under strict_weight_distr returns no     *)
(* CPU left, so the full-hit and fallback passes are skipped.              *)
Distribute ==
    /\ phase = "distribute"
    /\ resrc' = IF bwAvail = 0 /\ cpuAvail = 0 THEN resrc
                ELSE DistributeCpu(DistributeBw(resrc, bwAvail), cpuAvail)
    /\ bwAvail' = 0 /\ cpuAvail' = 0
    /\ phase' = "done"
    /\ UNCHANGED <<curve, cpb, relBid, compBid, relOrd, compOrd>>

\* do_apply follows; this round is over
Done == phase = "done" /\ UNCHANGED vars

Next == CollectAll \/ HarvestRound \/ Distribute \/ Done

Spec == Init /\ [][Next]_vars

-----------------------------------------------------------------------------
TypeOK ==
    /\ phase \in {"collect", "harvest", "distribute", "done"}
    /\ \A a \in Apps : resrc[a].cache \in CachePoints
                       /\ resrc[a].bw \in Int /\ resrc[a].cpu \in Int
    /\ cpuAvail \in Nat /\ bwAvail \in Nat

(* What the round takes from one view it gives to another or keeps in the *)
(* pool: cache is only traded, bandwidth and CPU are in a view or in      *)
(* bw_avail / cpu_avail, and at the end the pool is empty ("bw_avail must  *)
(* be zero after return"; do_distribute returns 0 CPU left).  No view ever *)
(* holds a negative amount.                                                *)
ResourcesConserved ==
    /\ SumOf([a \in Apps |-> resrc[a].cache]) = NumApps * Base.cache
    /\ SumOf([a \in Apps |-> resrc[a].bw]) + bwAvail = NumApps * Base.bw
    /\ SumOf([a \in Apps |-> resrc[a].cpu]) + cpuAvail = NumApps * Base.cpu
    /\ \A a \in Apps : resrc[a].bw >= 0 /\ resrc[a].cpu >= 0
    /\ phase = "done" => bwAvail = 0 /\ cpuAvail = 0

(* The hit rate never falls as the cache grows wherever a harvest round   *)
(* asks (the asserts of pred_what_if_more_cache and pred_what_if_less_     *)
(* cache, View.h:396 and 435): the clamp of GhostCacheView::poll, the      *)
(* interpolation of get_hit_rate_cnt, its truncation to counts and the     *)
(* weighted sum of DistrGhostCacheView keep the finite rates in order.     *)
WhatIfAssertsHold ==
    phase = "harvest" =>
        \A a \in Apps :
            LET c == resrc[a].cache
                old == HitRate(a, c)
            IN  /\ ~AtFullHit(old) /\ ~IsInf(HitRate(a, c + CacheDelta))
                    => RateLeq(old, HitRate(a, c + CacheDelta))
                /\ c > MinCacheTotal /\ ~IsInf(old) /\ ~IsInf(HitRate(a, c - CacheDelta))
                    => RateLeq(HitRate(a, c - CacheDelta), old)

(* No deal takes a tenant's cache below min_cache_total, "the least amount *)
(* of cache that a tenant could have (no more trading beyond this point)"  *)
(* (Param.h:138), unless it started below it.                              *)
CacheAboveMinTotal ==
    \A a \in Apps : resrc[a].cache >= MinCacheTotal \/ resrc[a].cache >= Base.cache

=============================================================================
