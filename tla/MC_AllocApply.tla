--------------------------- MODULE MC_AllocApply ---------------------------
(* Four workers, up to two files of the app and a pending weight of up to *)
(* two on each: every split of the weights into floors and remainders,    *)
(* ties in the remainders, two sources and two destinations.              *)
EXTENDS AllocApply

MCNumWorkers == 4
MCMaxFiles == 2
MCMaxWeight == 2
\* an app's cache or bandwidth: one unit, and more than the files
MCResrcAmounts == {1, 5}
=============================================================================
