------------------------------ MODULE GhostView ------------------------------
(***************************************************************************)
(* The hit-rate curves the allocator predicts with (src/cfs/sched/View.h,  *)
(* Resrc.h): each worker's tenant of an app keeps a ghost cache that       *)
(* counts, for every size GhostMin, GhostMin + GhostTick, ... up to        *)
(* GhostMax, the hits and misses an LRU cache of that size would have had. *)
(* GhostCacheView::reset snapshots those counters and poll takes the       *)
(* difference, so the allocator sees the counts of its statistics window;  *)
(* DistrGhostCacheView adds up the workers' views, each at the share of   *)
(* the cache its weight gives it.                                          *)
(*                                                                         *)
(* The ghost cache itself (gcache, not under src/) is left open: a window  *)
(* image is any hit and miss count per size.  The worker updates the       *)
(* counters while the allocator reads them, so an image need not be       *)
(* inclusive; poll makes it so.  Doubles are exact rationals here,         *)
(* truncated where the code converts them to the uint64_t counts.          *)
(***************************************************************************)
EXTENDS Naturals, Functions

CONSTANTS
    GhostMin,     \* params::ghost::min_size
    GhostTick,    \* params::ghost::tick
    GhostTicks    \* params::ghost::num_ticks

\* the sizes the ghost cache counts for, by index
Ticks == 0..GhostTicks-1
GhostMax == GhostMin + (GhostTicks - 1) * GhostTick

\* GhostCacheView's stat images: one count per size the ghost cache keeps
StatImages(Counts) == [Ticks -> Counts]

\* HitRateCnt: a hit count and a miss count
HitRateCnt(h, m) == [hit |-> h, miss |-> m]

\* HitRateCnt::operator+ (and +=, which sums in place)
AddCnt(x, y) == HitRateCnt(x.hit + y.hit, x.miss + y.miss)

\* HitRateCnt::get_hit_rate is hit / (hit + miss), infinity for no access;
\* a rate is kept as the pair of the two counts it divides
IsInfRate(x) == x.hit + x.miss = 0

\* finite rates compared without dividing
RateLeq(x, y) == x.hit * (y.hit + y.miss) <= y.hit * (x.hit + x.miss)

-----------------------------------------------------------------------------
(* GhostCacheView::poll: the window's counts, made inclusive: walking up   *)
(* the sizes, a larger cache gets at least the hits and at most the misses *)
(* of the one below it.                                                    *)
\* a poll that keeps the counts as read
PollNoClamp(img) == img

RECURSIVE ClampFrom(_, _)
ClampFrom(img, i) ==
    IF i >= GhostTicks THEN img
    ELSE LET lo == img[i - 1]
             c == img[i]
             c2 == HitRateCnt(IF c.hit < lo.hit THEN lo.hit ELSE c.hit,
                              IF c.miss > lo.miss THEN lo.miss ELSE c.miss)
         IN  ClampFrom([img EXCEPT ![i] = c2], i + 1)

Poll(img) == ClampFrom(img, 1)

(* GhostCacheView::get_hit_rate_cnt: the counts for any size up to        *)
(* GhostMax; below GhostMin the hits of the smallest size are scaled down  *)
(* and the rest counted as misses; between two sizes the counts are        *)
(* interpolated linearly.  A size beyond GhostMax fails the assert.        *)
GetHitRateCnt(img, c) ==
    IF c < GhostMin
    THEN HitRateCnt((img[0].hit * c) \div GhostMin,
                    (img[0].hit * (GhostMin - c) + img[0].miss * GhostMin)
                        \div GhostMin)
    ELSE LET idx == (c - GhostMin) \div GhostTick
             left == idx * GhostTick + GhostMin
             lDist == c - left
             rDist == left + GhostTick - c
         IN  IF c = left THEN img[idx]
             ELSE HitRateCnt(
                    (img[idx].hit * rDist + img[idx + 1].hit * lDist) \div GhostTick,
                    (img[idx].miss * rDist + img[idx + 1].miss * lDist) \div GhostTick)

(* DistrGhostCacheView::get_hit_rate: the counts of every worker with a    *)
(* weight, each at w * cache_size / weight_sum, added up.  The product is  *)
(* uint32_t in the code; the sizes here are far too small for it to wrap.  *)
DistrHitRateCnt(imgs, wts, c) ==
    LET W == SumFunction(wts)
        share(i) == (wts[i] * c) \div W
    IN  FoldFunctionOnSet(AddCnt, HitRateCnt(0, 0),
            [i \in DOMAIN imgs |-> GetHitRateCnt(imgs[i], share(i))],
            {i \in DOMAIN imgs : wts[i] # 0})

\* DistrGhostCacheView::poll: every worker's view polled
DistrPoll(raw) == [i \in DOMAIN raw |-> Poll(raw[i])]

\* what a DistrGhostCacheView answers, memoised per size in hit_rate_map
\* until the next poll: the hit rate at every size in Sizes, from its
\* workers' window images as read and their weights
GhostCurve(raw, wts, Sizes) ==
    [c \in Sizes |-> DistrHitRateCnt(DistrPoll(raw), wts, c)]
=============================================================================
