----------------------------- MODULE AllocApply -----------------------------
(***************************************************************************)
(* Allocator::do_apply_to_app (src/cfs/sched/Alloc.cpp): given how many   *)
(* files an app has on each worker (nfiles_curr) and the pending CPU       *)
(* weights the partition step gave it on each worker, it apportions the    *)
(* app's files to workers in proportion to the weights (nfiles_next), and  *)
(* plans the inode moves that take nfiles_curr to nfiles_next: a list of   *)
(* (dst_wid, nfiles) per source worker, shipped in each worker's           *)
(* AllocDecision.  Workers are 0..NumWorkers-1 as in the code.             *)
(*                                                                         *)
(* The operators are pure; the specification fixes one input in Init and  *)
(* never changes it, so that TLC checks the properties on every input of   *)
(* the bounded input space.                                                *)
(***************************************************************************)
EXTENDS Naturals, Integers, Sequences, SequencesExt, Functions

CONSTANTS
    NumWorkers,     \* fs_proc->getNumThreads()
    MaxFiles,       \* bound on an app's files on one worker
    MaxWeight,      \* bound on the pending weight of one worker
    SymmPartition,  \* params::policy::symm_partition
    ResrcAmounts    \* values of view.get_resrc().cache_size and .bandwidth

Workers == 0..NumWorkers-1

VARIABLES
    nfiles_curr,    \* wid -> files of the app on the worker
    weights         \* wid -> view.get_pending_weights()

vars == <<nfiles_curr, weights>>

SumOver(f) == SumFunction(f)

-----------------------------------------------------------------------------
(* Lines 236-258: nfiles_next[wid] = floor(total * w / W); the fractional  *)
(* parts, kept exactly as numerators over W, decide who gets the files     *)
(* still left: std::max_element picks the first largest, which then loses  *)
(* one whole unit.                                                         *)
FirstLargest(d) ==
    CHOOSE w \in Workers : \A v \in Workers : d[v] < d[w] \/ (d[v] = d[w] /\ w <= v)

\* a remainder pick that forgets nfiles_diff[wid]--
RECURSIVE GiveRemainingNoDec(_, _, _, _)
GiveRemainingNoDec(next, diff, k, W) ==
    IF k <= 0 THEN next
    ELSE LET w == FirstLargest(diff)
         IN  GiveRemainingNoDec([next EXCEPT ![w] = @ + 1], diff, k - 1, W)

RECURSIVE GiveRemaining(_, _, _, _)
GiveRemaining(next, diff, k, W) ==
    IF k <= 0 THEN next
    ELSE LET w == FirstLargest(diff)
         IN  GiveRemaining([next EXCEPT ![w] = @ + 1],
                           [diff EXCEPT ![w] = @ - W], k - 1, W)

NFilesNext(curr, wt) ==
    LET total == SumOver(curr)
        W == SumOver(wt)
        floorN == [w \in Workers |-> (total * wt[w]) \div W]
        diff == [w \in Workers |-> (total * wt[w]) % W]
    IN  GiveRemaining(floorN, diff, total - SumOver(floorN), W)

(* Lines 272-288: walk the workers in order, collecting sources (curr >    *)
(* next) and destinations (curr < next) with their surplus or deficit,    *)
(* and stop once the files apportioned so far reach the total.             *)
RECURSIVE Endpoints(_, _, _, _, _, _)
Endpoints(curr, next, wid, left, src, dst) ==
    IF wid >= NumWorkers THEN <<src, dst>>
    ELSE LET c == curr[wid]
             n == next[wid]
             src2 == IF c > n THEN Append(src, <<wid, c - n>>) ELSE src
             dst2 == IF c < n THEN Append(dst, <<wid, n - c>>) ELSE dst
         IN  IF left - n <= 0 THEN <<src2, dst2>>
             ELSE Endpoints(curr, next, wid + 1, left - n, src2, dst2)

(* Lines 291-299, inner loop: one source with n files goes down the        *)
(* destinations from the first, taking min(n, m) of each, until n is 0.   *)
(* The destinations' m are updated in place for the sources after it.      *)
\* a match that takes m by value, so later sources see the old deficits
RECURSIVE MatchDstByValue(_, _, _, _)
MatchDstByValue(j, n, dst, out) ==
    IF j > Len(dst) THEN <<dst, out>>
    ELSE LET k == IF n < dst[j][2] THEN n ELSE dst[j][2]
             out2 == Append(out, <<dst[j][1], k>>)
         IN  IF n - k = 0 THEN <<dst, out2>>
             ELSE MatchDstByValue(j + 1, n - k, dst, out2)

RECURSIVE MatchDst(_, _, _, _)
MatchDst(j, n, dst, out) ==
    IF j > Len(dst) THEN <<dst, out>>
    ELSE LET k == IF n < dst[j][2] THEN n ELSE dst[j][2]
             dst2 == [dst EXCEPT ![j] = <<@[1], @[2] - k>>]
             out2 == Append(out, <<dst[j][1], k>>)
         IN  IF n - k = 0 THEN <<dst2, out2>>
             ELSE MatchDst(j + 1, n - k, dst2, out2)

(* Lines 291-299, outer loop over the sources.                             *)
RECURSIVE MatchSrc(_, _, _, _)
MatchSrc(i, src, dst, moves) ==
    IF i > Len(src) THEN moves
    ELSE LET r == MatchDst(1, src[i][2], dst, <<>>)
         IN  MatchSrc(i + 1, src, r[1],
                      [moves EXCEPT ![src[i][1]] = @ \o r[2]])

(* Lines 268-315: inode_move[src_wid] = <<(dst_wid, nfiles), ...>>; under  *)
(* the symmetric partition policy every planned move is dropped.           *)
InodeMove(curr, next) ==
    LET ep == Endpoints(curr, next, 0, SumOver(curr), <<>>, <<>>)
        none == [w \in Workers |-> <<>>]
    IN  IF SymmPartition THEN none ELSE MatchSrc(1, ep[1], ep[2], none)

(* Lines 317-333: a worker's cache and bandwidth are the app's total times *)
(* its share of the files, std::ceil'ed; the double quotient of these      *)
(* small integers is exact.  total_num_files = 0 is left out: 0.0 / 0 is   *)
(* NaN and its cast to an integer is undefined.                            *)
ShareFloor(amount, next, total, w) == (amount * next[w]) \div total

Share(amount, next, total, w) ==
    IF (amount * next[w]) % total = 0 THEN (amount * next[w]) \div total
    ELSE (amount * next[w]) \div total + 1

-----------------------------------------------------------------------------
(* The inputs do_apply_to_app can be called with: files per worker, and    *)
(* pending weights of which at least one is positive.                      *)
Init ==
    /\ nfiles_curr \in [Workers -> 0..MaxFiles]
    /\ weights \in [Workers -> 0..MaxWeight]
    /\ SumOver(weights) > 0

Next == UNCHANGED vars

Spec == Init /\ [][Next]_vars

-----------------------------------------------------------------------------
nfiles_next == NFilesNext(nfiles_curr, weights)
inode_move == InodeMove(nfiles_curr, nfiles_next)

\* files a worker sends and receives under the plan
Out(w) == FoldSeq(LAMBDA mv, acc : mv[2] + acc, 0, inode_move[w])
In(w) == FoldFunction(LAMBDA ms, acc : acc + FoldSeq(LAMBDA mv, a :
                          IF mv[1] = w THEN mv[2] + a ELSE a, 0, ms), 0, inode_move)

(* The files are apportioned by largest remainder: nfiles_next sums to the *)
(* app's files, each worker gets the floor or the ceiling of its exact     *)
(* weighted share, and a worker given the ceiling has a fractional part at *)
(* least as large as every worker given the floor.                         *)
NFilesApportioned ==
    LET total == SumOver(nfiles_curr)
        W == SumOver(weights)
        exact(w) == total * weights[w]
        up(w) == nfiles_next[w] * W > exact(w)
    IN  /\ SumOver(nfiles_next) = total
        /\ \A w \in Workers : nfiles_next[w] * W > exact(w) - W
                              /\ nfiles_next[w] * W < exact(w) + W
        /\ \A v, w \in Workers : up(v) /\ ~up(w) =>
              exact(v) % W >= exact(w) % W

(* No worker is told to send more files than it has beyond its share, or  *)
(* receives more than it lacks: the planned moves never overshoot.         *)
MovesWithinSurplus ==
    \A w \in Workers :
        /\ Out(w) <= IF nfiles_curr[w] > nfiles_next[w]
                     THEN nfiles_curr[w] - nfiles_next[w] ELSE 0
        /\ In(w) <= IF nfiles_next[w] > nfiles_curr[w]
                    THEN nfiles_next[w] - nfiles_curr[w] ELSE 0

(* The AllocDecisions give the app's workers together at least the cache  *)
(* and bandwidth the allocator gave the app, and more by less than one     *)
(* unit per worker that keeps files; a worker left without files gets      *)
(* none.  The excess is what the workers' caches are oversubscribed by.    *)
SharesCoverTotal ==
    LET total == SumOver(nfiles_curr)
        holders == {w \in Workers : nfiles_next[w] > 0}
    IN  total > 0 =>
          \A a \in ResrcAmounts :
             LET share == [w \in Workers |-> Share(a, nfiles_next, total, w)]
             IN  /\ a <= SumOver(share)
                 /\ SumOver(share) < a + Cardinality(holders)
                 /\ \A w \in Workers \ holders : share[w] = 0

(* Carrying out the planned moves puts nfiles_next files on every worker,  *)
(* the distribution the cache and bandwidth shares of the same             *)
(* AllocDecision are computed for.                                         *)
MovesRealizeNext ==
    SymmPartition \/
    \A w \in Workers : nfiles_curr[w] - Out(w) + In(w) = nfiles_next[w]
=============================================================================
