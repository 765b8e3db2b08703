--------------------------- MODULE MC_TenantSched ---------------------------
(* One worker with two apps' tenants, each app's client keeping at most   *)
(* one request outstanding (QDepth 1), and one allocation round (two in  *)
(* the redrain configuration).  Weight 2 of MaxWeight 2 against one cycle *)
(* per tick lets strict_cpu_usage throttle a tenant once its progress     *)
(* passes the ticks of the epoch (two ticks); rate_inv 1 tick per block   *)
(* over a frame of two ticks lets the rate limiter deny a third block; a  *)
(* one-block cache partition is full after the first miss, so the limiter *)
(* bypass for an unpopulated cache ends.                                 *)
EXTENDS TenantSched

MCWeights == {2}
MCRateInvs == {1}
=============================================================================
