------------------------- MODULE MC_AllocPartition -------------------------
(* Three workers of weight 5 (soft_min_weight 1), two apps of weight up to *)
(* 10 each, two cycles per weight unit so that equal weights can come from *)
(* different cycles.  An app's old weights matter only through their      *)
(* order, so they range over the weak orders of the workers.               *)
EXTENDS AllocPartition

MCNumWorkers == 3
MCNumApps == 2
MCWorkerAvailWeight == 5
MCCyclesPerWeight == 2
MCMaxAppWeight == 10
MCOldWeights ==
    {v \in [0..MCNumWorkers - 1 -> 0..MCNumWorkers - 1] :
        \A k \in Range(v) : k = 0 \/ k - 1 \in Range(v)}
=============================================================================
