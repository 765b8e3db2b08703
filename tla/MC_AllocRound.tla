----------------------------- MODULE MC_AllocRound -----------------------------
(* Two apps sharing 10 cache units (base 5, so trades pass min_cache_total  *)
(* of 2 off a multiple of cache_delta), 16 bandwidth units and 32 CPU      *)
(* units; two workers, whose ghost caches count sizes 4, 8 and 12, so that *)
(* the cache points 1..11 take both interpolations of get_hit_rate_cnt;    *)
(* window counts of up to two hits and one miss per size, read in any     *)
(* order; even, uneven and one-sided weights; windows with no progress, or *)
(* one or two cycles per block.                                            *)
EXTENDS AllocRound

MCWindowImages == StatImages([hit : 0..2, miss : 0..1])

MCWeights == {[w \in Workers |-> 1],
              [w \in Workers |-> w + 1],
              [w \in Workers |-> IF w = 0 THEN 0 ELSE 1]}

\* windows with no block done, and with one to two cycles per block done
MCWindowAccts == {w \in {ResrcAcct(d, d, c) : d \in 0..2, c \in 0..4} :
                      w.done <= w.cpu /\ w.cpu <= 2 * w.done}
=============================================================================
