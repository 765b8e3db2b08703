--------------------------- MODULE AllocPartition ---------------------------
(***************************************************************************)
(* Allocator::do_apply's partition step (src/cfs/sched/Alloc.cpp): each   *)
(* app's CPU cycles become a weight (pending_weight_unalloc, View.h), and  *)
(* the weight is split into per-worker pending_weights by one of three     *)
(* policies: do_symm_partition, do_asymm_partition_naive or                *)
(* do_asymm_partition_avoid_tiny.  Views are taken in aid order, workers   *)
(* are 0..NumWorkers-1.                                                    *)
(*                                                                         *)
(* The partition is a pure function of the apps' cycles and of the weights *)
(* of the previous decision (get_weights).  The specification picks one    *)
(* input in Init and keeps it, so TLC checks the properties on every input *)
(* of the bounded space.                                                   *)
(***************************************************************************)
EXTENDS Naturals, Integers, Sequences, SequencesExt, Functions, StdAlgorithm

CONSTANTS
    NumWorkers,         \* fs_proc->getNumThreads()
    NumApps,            \* views.size()
    WorkerAvailWeight,  \* params::worker_avail_weight
    CyclesPerWeight,    \* 1 << 20 in params::cycles_to_weight, scaled down
    Policies,           \* the policies checked: "symm" (symm_partition),
                        \* "tiny" (avoid_tiny_weight), "naive" (neither)
    MaxAppWeight,       \* bound on one app's weight
    OldWeights          \* the previous weights of one app that are compared

Workers == 0..NumWorkers-1
Apps == 0..NumApps-1

\* Param.h: soft_min_weight = worker_avail_weight * 0.2
SoftMinWeight == (WorkerAvailWeight * 2) \div 10
\* Param.h: worker_avail_cycles_per_second = weight_to_cycles(worker_avail_weight)
WorkerAvailCycles == WorkerAvailWeight * CyclesPerWeight
\* Param.h: cycles_to_weight(c) = c >> 20
CyclesToWeight(c) == c \div CyclesPerWeight

VARIABLES
    cpu,        \* aid -> view.get_resrc().cpu_cycles
    weights,    \* aid -> wid -> view.get_weights(): the previous decision
    policy      \* params::policy flags, fixed for a run of the allocator

vars == <<cpu, weights, policy>>

-----------------------------------------------------------------------------
\* the pending weights of every view: pw[aid][wid], and un[aid] unallocated
\* View.h reset_pending_weights: all 0, the app's whole weight unallocated
ResetPendingWeights(c) ==
    [pw |-> [a \in Apps |-> [w \in Workers |-> 0]],
     un |-> [a \in Apps |-> CyclesToWeight(c[a])]]

\* View.h add_pending_weight
AddPendingWeight(p, a, w, d) ==
    [pw |-> [p.pw EXCEPT ![a][w] = @ + d], un |-> [p.un EXCEPT ![a] = @ - d]]

\* <<wid, weight>> for every worker, in wid order
WidList(f) == [i \in 1..NumWorkers |-> <<i - 1, f[i - 1]>>]

\* Mutant: the worker's available weight taken by value, never decreased.
FillLeftoverByValue(p, a, list, avail) ==
    LET RECURSIVE Fill(_, _)
        Fill(q, k) ==
            IF k > Len(list) \/ q.un[a] = 0 THEN <<q, avail>>
            ELSE LET wid == list[k][1]
                 IN  Fill(AddPendingWeight(q, a, wid, Min({q.un[a], avail[wid]})), k + 1)
    IN  Fill(p, 1)

\* Mutant: the loop leaves after the first worker.
FillLeftoverOnce(p, a, list, avail) ==
    IF Len(list) = 0 \/ p.un[a] = 0 THEN <<p, avail>>
    ELSE LET wid == list[1][1]
             w == Min({p.un[a], avail[wid]})
         IN  <<AddPendingWeight(p, a, wid, w), [avail EXCEPT ![wid] = @ - w]>>

(* Alloc.cpp 118-125 and 203-210: down the list of workers, place as much  *)
(* of the app's unallocated weight as the worker has available, until      *)
(* nothing is left.                                                        *)
FillLeftover(p, a, list, avail) ==
    LET RECURSIVE Fill(_, _, _)
        Fill(q, k, av) ==
            IF k > Len(list) \/ q.un[a] = 0 THEN <<q, av>>
            ELSE LET wid == list[k][1]
                     w == Min({q.un[a], av[wid]})
                 IN  Fill(AddPendingWeight(q, a, wid, w), k + 1,
                          [av EXCEPT ![wid] = @ - w])
    IN  Fill(p, 1, avail)

-----------------------------------------------------------------------------
(* do_symm_partition, lines 38-69: every app puts weight / num_workers on  *)
(* each worker; if the shares do not use up a worker exactly, the rounding *)
(* leftovers go one unit per worker to workers whose available weight,     *)
(* counted afresh from worker_avail_weight, is positive.                   *)
(* per_worker_avail_weight is unsigned; only its test against 0 matters,   *)
(* and in range the difference is 0 exactly when the unsigned one is.      *)
DoSymmPartition(p) ==
    LET RECURSIVE Even(_, _, _)
        Even(q, a, left) ==
            IF a >= NumApps THEN <<q, left>>
            ELSE LET share == q.un[a] \div NumWorkers
                 IN  Even([pw |-> [q.pw EXCEPT ![a] = [w \in Workers |-> @[w] + share]],
                           un |-> [q.un EXCEPT ![a] = @ - share * NumWorkers]],
                          a + 1, left - share)
        RECURSIVE Give(_, _, _, _)
        Give(q, a, wid, av) ==
            IF wid >= NumWorkers \/ q.un[a] = 0 THEN <<q, av>>
            ELSE IF av[wid] > 0
                 THEN Give(AddPendingWeight(q, a, wid, 1), a, wid + 1,
                           [av EXCEPT ![wid] = @ - 1])
                 ELSE Give(q, a, wid + 1, av)
        RECURSIVE Round(_, _, _)
        Round(q, a, av) ==
            IF a >= NumApps THEN q
            ELSE LET r == Give(q, a, 0, av) IN Round(r[1], a + 1, r[2])
        e == Even(p, 0, WorkerAvailWeight)
    IN  IF e[2] = 0 THEN e[1]
        ELSE Round(e[1], 0, [w \in Workers |-> WorkerAvailWeight])

(* do_asymm_partition_naive, lines 71-127: views with at most one CPU of   *)
(* cycles first, then by more cycles; each view fills the workers it had   *)
(* most weight on before (ties by lower wid) greedily.                     *)
NaiveViewOrder(c) ==
    StdSort([i \in 1..NumApps |-> i - 1],
            LAMBDA l, r : IF (c[l] > WorkerAvailCycles) # (c[r] > WorkerAvailCycles)
                          THEN c[r] > WorkerAvailCycles
                          ELSE c[l] > c[r])

NaiveWorkerOrder(old) ==
    StdSort(WidList(old),
            LAMBDA l, r : IF l[2] # r[2] THEN l[2] > r[2] ELSE l[1] < r[1])

DoAsymmPartitionNaive(p, c, old) ==
    LET order == NaiveViewOrder(c)
        RECURSIVE Views(_, _, _)
        Views(q, k, av) ==
            IF k > NumApps THEN q
            ELSE LET a == order[k]
                     r == FillLeftover(q, a, NaiveWorkerOrder(old[a]), av)
                 IN  Views(r[1], k + 1, r[2])
    IN  Views(p, 1, [w \in Workers |-> WorkerAvailWeight])

(* do_asymm_partition_avoid_tiny, lines 129-212.  1: in aid order, each   *)
(* view takes whole workers while its weight fills one, from the back of  *)
(* the free list sorted by its old weight ascending (ties: higher wid      *)
(* first); the code asserts the list is then not empty, and an exhausted   *)
(* list stops the loop here.                                               *)
DedicatedOrder(dedi, old) ==
    StdSort(dedi, LAMBDA l, r : IF old[l] # old[r] THEN old[l] < old[r] ELSE l > r)

TakeDedicated(p, a, dedi) ==
    LET RECURSIVE Take(_, _)
        Take(q, d) ==
            IF q.un[a] < WorkerAvailWeight \/ d = <<>> THEN <<q, d>>
            ELSE Take(AddPendingWeight(q, a, Last(d), WorkerAvailWeight), Front(d))
    IN  Take(p, dedi)

(* 2.1: a view left with less than soft_min_weight gives back half of what *)
(* its highest-numbered dedicated worker has beyond that leftover, to make *)
(* the leftover larger.                                                    *)
SplitTiny(p, a, av) ==
    LET ded == {w \in Workers : p.pw[a][w] # 0}
        wid == CHOOSE w \in ded : \A v \in ded : v <= w
        move == (p.pw[a][wid] - p.un[a]) \div 2
    IN  IF p.un[a] >= SoftMinWeight \/ ded = {} THEN <<p, av>>
        ELSE <<AddPendingWeight(p, a, wid, -move), [av EXCEPT ![wid] = @ + move]>>

\* Mutant: the secondary key reversed.
LeftoverOrderWidDesc(av) ==
    StdSort(WidList(av), LAMBDA l, r : l[2] > r[2] \/ l[1] > r[1])

(* The order the leftover is placed in: lines 196-201 sort by available    *)
(* weight with (lhs.second > rhs.second) || (lhs.first < rhs.first).       *)
LeftoverOrder(av) ==
    StdSort(WidList(av), LAMBDA l, r : l[2] > r[2] \/ l[1] < r[1])

DoAsymmPartitionAvoidTiny(p, old) ==
    LET RECURSIVE Dedicate(_, _, _)
        Dedicate(q, a, d) ==
            IF a >= NumApps THEN <<q, d>>
            ELSE LET r == TakeDedicated(q, a, DedicatedOrder(d, old[a]))
                 IN  Dedicate(r[1], a + 1, r[2])
        ph1 == Dedicate(p, 0, [i \in 1..NumWorkers |-> i - 1])
        RECURSIVE Leftover(_, _, _)
        Leftover(q, a, av) ==
            IF a >= NumApps THEN q
            ELSE LET s == SplitTiny(q, a, av)
                     r == FillLeftover(s[1], a, LeftoverOrder(s[2]), s[2])
                 IN  Leftover(r[1], a + 1, r[2])
    IN  Leftover(ph1[1], 0,
                 [w \in Workers |-> IF w \in ToSet(ph1[2]) THEN WorkerAvailWeight ELSE 0])

(* do_apply, lines 16-29: reset the pending weights, then partition them   *)
(* by the configured policy.                                               *)
DoApplyPartition(c, old, pol) ==
    LET p == ResetPendingWeights(c)
    IN  CASE pol = "symm"  -> DoSymmPartition(p)
          [] pol = "tiny"  -> DoAsymmPartitionAvoidTiny(p, old)
          [] pol = "naive" -> DoAsymmPartitionNaive(p, c, old)

-----------------------------------------------------------------------------
(* The inputs of a partition: each app's cycles, whose weights together    *)
(* fit the workers (the allocator hands out at most the workers' cycles),  *)
(* and the previous decision's weights, of which only the order matters.   *)
Init ==
    /\ cpu \in [Apps -> 0..(MaxAppWeight + 1) * CyclesPerWeight - 1]
    /\ SumFunction([a \in Apps |-> CyclesToWeight(cpu[a])])
           <= NumWorkers * WorkerAvailWeight
    /\ weights \in [Apps -> OldWeights]
    /\ policy \in Policies

Next == UNCHANGED vars

Spec == Init /\ [][Next]_vars

-----------------------------------------------------------------------------
partition == DoApplyPartition(cpu, weights, policy)

(* After the partition step every app's weight is placed on workers:       *)
(* pending_weight_unalloc is 0, as do_apply_to_app asserts (line 215).     *)
PartitionComplete == \A a \in Apps : partition.un[a] = 0

(* No worker is given more weight than it has: the pending weights of all  *)
(* apps on a worker sum to at most worker_avail_weight.                    *)
WorkerNotOversubscribed ==
    \A w \in Workers : SumFunction([a \in Apps |-> partition.pw[a][w]]) <= WorkerAvailWeight

(* The same for the two asymmetric policies, which place weight only where *)
(* a worker's available weight, tracked across apps, allows it.            *)
AsymmNotOversubscribed ==
    policy # "symm" => WorkerNotOversubscribed

(* The leftover placement goes to the workers with the most available      *)
(* weight first, as the comment at lines 191-192 says: the sorted list is  *)
(* ordered by weight, secondarily by wid, for any available weights.  It  *)
(* does not depend on the state, so it is evaluated in one state only.     *)
LeftoverOrderSorted ==
    (policy = "tiny" /\ \A a \in Apps : cpu[a] = 0) =>
    \A av \in [Workers -> 0..WorkerAvailWeight] :
        LET l == LeftoverOrder(av)
        IN  \A i \in 1..Len(l) - 1 :
                l[i][2] > l[i + 1][2] \/ (l[i][2] = l[i + 1][2] /\ l[i][1] < l[i + 1][1])
=============================================================================
