---------------------------- MODULE TenantSched ----------------------------
(***************************************************************************)
(* One FS worker's tenants (src/cfs/sched/Tenant.h), one per app, with     *)
(* their block rate limiters (RateLimit.h), and the allocator thread       *)
(* (Allocator::run, Alloc.h) whose decisions reach the worker as messages. *)
(*                                                                         *)
(* A request is a token: the queues are counters, since the properties    *)
(* are about how many requests are where, not which.  A request popped    *)
(* from recv_queue either hits the cache and completes in the same step,  *)
(* or needs a block: it waits in blk_queue, on the device, in the          *)
(* completion queue, and then in intl_queue, where processing it again    *)
(* completes it.                                                           *)
(*                                                                         *)
(* The worker loop that calls the Tenant methods is not under src/; its    *)
(* order of stages is spec.md section 4.6: poll completions, pick and      *)
(* serve a tenant, submit blocks, poll messages, migrate.  A step of the   *)
(* model is poll-pick-serve, submit, or one message (or, with none left,   *)
(* migrate).  The flusher stage is modelled in BlockBuffer.                *)
(***************************************************************************)
EXTENDS Naturals, Sequences, FiniteSets

CONSTANTS
    NumApps,          \* tenants on this worker, one per app, in this order
    QDepth,           \* requests each app's client keeps outstanding
    NumReqsPerLoop,   \* params::num_reqs_per_loop
    MaxWeight,        \* params::max_weight
    CpsWeight,        \* cycles_to_weight(params::cycles_per_second)
    ReqCycles,        \* cycles one request costs the worker
    TickCycles,       \* cycles per tick of the clock
    EpochTicks,       \* params::cycles_per_cpu_epoch, in ticks
    FrameTicks,       \* params::rate::cycles_per_frame, in ticks
    CacheCap,         \* the tenant's cache capacity, in blocks
    Weights,          \* tenant weights a decision may give
    RateInvs,         \* rate_inv values (ticks per block) a decision may give
    SymmPartition,    \* params::policy::symm_partition
    MaxRounds,        \* allocation rounds
    TicksPerLoop      \* clock ticks at most between two picks of the worker

Apps == 1..NumApps
Stages == <<"sched", "blk", "msg">>

VARIABLES
    recv,       \* recv_queue.size()
    intl,       \* intl_queue.size()
    blk,        \* blk_queue.size()
    dev,        \* block requests on the device
    cq,         \* completed on the device, not yet polled by the worker
    inflight,   \* num_reqs_inflight
    served,     \* a request was answered since the client last sent one
    active,     \* num_blks_done grew since the allocator's reset_stat
    prog,       \* cpu_prog
    weight,     \* weight
    rateInv,    \* blk_rate_limiter.rate_inv, in ticks per block
    numBlks,    \* blk_rate_limiter.curr_num_blks
    cached,     \* cache->size() of the tenant's partition
    isDrain,    \* is_drain
    pending,    \* pending_inode_move is not empty
    mig,        \* "none"; "sent": inodes exported; "acked": ack on its way
    stage,      \* where the worker loop is, an index into Stages
    now,        \* ticks since the last epoch boundary, up to EpochTicks
    offset,     \* ticks into the current rate-limiter time frame
    ticks,      \* ticks since the worker's last pick
    inbox,      \* messenger queue to this worker: decisions and acks
    aphase,     \* allocator: "collect" (stats reset) or "window"
    rounds      \* allocation rounds done

tenant == <<recv, intl, blk, dev, cq, inflight, served, active, prog, weight,
            rateInv, numBlks, cached, isDrain, pending, mig>>
clock == <<now, offset, ticks>>
vars == <<tenant, stage, clock, inbox, aphase, rounds>>

Decision(a, mv, w, r) == [type |-> "decision", app |-> a, moves |-> mv,
                          weight |-> w, rateInv |-> r]
Ack(a) == [type |-> "ack", app |-> a]

Init ==
    /\ recv = [a \in Apps |-> 0]    /\ intl = [a \in Apps |-> 0]
    /\ blk = [a \in Apps |-> 0]     /\ dev = [a \in Apps |-> 0]
    /\ cq = [a \in Apps |-> 0]      /\ inflight = [a \in Apps |-> 0]
    /\ served = [a \in Apps |-> TRUE] /\ active = [a \in Apps |-> FALSE]
    /\ prog = [a \in Apps |-> 0]
    /\ weight \in [Apps -> Weights] /\ rateInv \in [Apps -> RateInvs]
    /\ numBlks = [a \in Apps |-> 0] /\ cached = [a \in Apps |-> 0]
    /\ isDrain = [a \in Apps |-> FALSE]
    /\ pending = [a \in Apps |-> FALSE]
    /\ mig = [a \in Apps |-> "none"]
    /\ stage = 1 /\ now = 0 /\ offset = 0 /\ ticks = 0
    /\ inbox = <<>> /\ aphase = "collect"
    /\ rounds = 0

NextStage == stage' = (stage % Len(Stages)) + 1
-----------------------------------------------------------------------------
(* Tenant methods                                                          *)

\* can_sched(elapsed): under strict_cpu_usage a tenant that has used more
\* than its weight's share of the elapsed wall clock is throttled; otherwise
\* it needs a request in recv_queue (and not be draining) or in intl_queue;
\* p, t and q are the cpu_prog, elapsed and intl_queue it is asked with
ConsumedCycles(a, p) == (p[a] * weight[a]) \div MaxWeight
LimitedCycles(a, t) == (t * TickCycles * weight[a]) \div CpsWeight
\* a can_sched that forgets intl_queue
CanSchedRecvOnly(a, p, t, q) ==
    /\ ConsumedCycles(a, p) <= LimitedCycles(a, t)
    /\ recv[a] # 0 /\ ~isDrain[a]

CanSched(a, p, t, q) ==
    /\ ConsumedCycles(a, p) <= LimitedCycles(a, t)
    /\ ~((recv[a] = 0 \/ isDrain[a]) /\ q[a] = 0)

\* cycles_to_progress(c, w) = c * max_weight / w
CyclesToProgress(c, w) == (c * MaxWeight) \div w

\* should_migrate, and one that forgets the requests in flight
ShouldMigrateNoWait(a) == isDrain[a]
ShouldMigrate(a) == isDrain[a] /\ inflight[a] = 0
-----------------------------------------------------------------------------
(* Clients and the device                                                  *)

\* requests of the app between its client and the answer
Outstanding(a) == recv[a] + intl[a] + blk[a] + dev[a] + cq[a]

\* the app's client, closed-loop, posts a request when fewer than QDepth
\* are outstanding; the worker moves it to recv_queue (add_recv_queue)
ClientSend(a) ==
    /\ Outstanding(a) < QDepth
    /\ recv' = [recv EXCEPT ![a] = @ + 1]
    /\ served' = [served EXCEPT ![a] = FALSE]
    /\ UNCHANGED <<intl, blk, dev, cq, inflight, active, prog, weight,
                   rateInv, numBlks, cached, isDrain, pending, mig,
                   stage, now, offset, ticks, inbox, aphase, rounds>>

DeviceDone(a) ==
    /\ dev[a] > 0
    /\ dev' = [dev EXCEPT ![a] = @ - 1]
    /\ cq' = [cq EXCEPT ![a] = @ + 1]
    /\ UNCHANGED <<recv, intl, blk, inflight, served, active, prog, weight,
                   rateInv, numBlks, cached, isDrain, pending, mig,
                   stage, now, offset, ticks, inbox, aphase, rounds>>

\* the clock: a new rate-limiter frame starts with curr_num_blks = 0
\* (update_time_frame); the epoch clock stops at its boundary until the
\* worker loop resets it; an epoch (cycles_per_cpu_epoch, 100 ms) spans
\* many iterations of the worker loop, so the clock is not let run more
\* than TicksPerLoop ticks ahead of the worker's picks
Tick ==
    /\ ticks < TicksPerLoop
    /\ ticks' = ticks + 1
    /\ offset' = (offset + 1) % FrameTicks
    /\ numBlks' = IF offset' = 0 THEN [a \in Apps |-> 0] ELSE numBlks
    /\ now' = IF now < EpochTicks THEN now + 1 ELSE now
    /\ UNCHANGED <<recv, intl, blk, dev, cq, inflight, served, active,
                   prog, weight, rateInv, cached, isDrain, pending, mig,
                   stage, inbox, aphase, rounds>>

\* the destination worker installs the exported inodes and acknowledges
MigrationAck(a) ==
    /\ mig[a] = "sent"
    /\ mig' = [mig EXCEPT ![a] = "acked"]
    /\ inbox' = Append(inbox, Ack(a))
    /\ UNCHANGED <<recv, intl, blk, dev, cq, inflight, served, active,
                   prog, weight, rateInv, numBlks, cached, isDrain, pending,
                   stage, now, offset, ticks, aphase, rounds>>
-----------------------------------------------------------------------------
(* The worker loop, one stage per step.                                    *)

\* requests pop_recv_queue hands out: none while draining
Admissible(a) == IF isDrain[a] THEN 0 ELSE recv[a]

\* num_reqs_inflight after r pops (++ in pop_recv_queue), and after k
\* record_req_done; a done that forgets to decrement, and one called
\* twice per request
PopRecv(n, r) == n + r
RecordReqDoneNoop(n, k) == n
RecordReqDoneTwice(n, k) == n - 2 * k
RecordReqDone(n, k) == n - k

\* record_cpu_consump: cpu_prog grows by the cycles scaled by the weight
RecordCpuConsump(p, a, cycles) ==
    [p EXCEPT ![a] = @ + CyclesToProgress(cycles, weight[a])]

\* 2. the schedulable tenant with the least cpu_prog, the first on a tie
Picked(a, p, t, q) ==
    /\ CanSched(a, p, t, q)
    /\ \A b \in Apps : CanSched(b, p, t, q) => p[a] < p[b] \/ (p[a] = p[b] /\ a <= b)

\* 1. poll device completions, each resumed request going to intl_queue;
\* 2. at an epoch boundary, reset_cpu_prog of every tenant first; 3. then
\* serve up to num_reqs_per_loop requests of the picked tenant: i from
\* intl_queue, which complete (record_req_done), and r from recv_queue
\* (pop_recv_queue, ++num_reqs_inflight), of which h hit the cache and
\* complete while the others allocate a cache slot and wait in blk_queue;
\* then record_cpu_consump for the cycles spent
Serve ==
    LET epoch == now = EpochTicks
        p == IF epoch THEN [b \in Apps |-> 0] ELSE prog
        t == IF epoch THEN 0 ELSE now
        q == [b \in Apps |-> intl[b] + cq[b]]
    IN
    /\ Stages[stage] = "sched"
    /\ now' = t
    /\ ticks' = 0
    /\ cq' = [b \in Apps |-> 0]
    /\ \/ /\ ~\E a \in Apps : CanSched(a, p, t, q)
          /\ prog' = p
          /\ intl' = q
          /\ UNCHANGED <<recv, blk, dev, inflight, served, active,
                         weight, rateInv, numBlks, cached, isDrain, pending, mig>>
       \/ \E a \in Apps, i \in 0..NumReqsPerLoop, r \in 0..NumReqsPerLoop :
          \E h \in 0..r :
            LET avail == q[a] + Admissible(a)
                n == IF avail < NumReqsPerLoop THEN avail ELSE NumReqsPerLoop
            IN  /\ Picked(a, p, t, q)
                /\ i <= q[a] /\ r <= Admissible(a) /\ i + r = n
                /\ intl' = [q EXCEPT ![a] = @ - i]
                /\ recv' = [recv EXCEPT ![a] = @ - r]
                /\ blk' = [blk EXCEPT ![a] = @ + (r - h)]
                /\ cached' = [cached EXCEPT ![a] =
                                 IF @ + (r - h) < CacheCap THEN @ + (r - h)
                                 ELSE CacheCap]
                /\ inflight' = [inflight EXCEPT ![a] =
                                   RecordReqDone(PopRecv(@, r), i + h)]
                /\ served' = [served EXCEPT ![a] = @ \/ i + h > 0]
                /\ active' = [active EXCEPT ![a] = @ \/ i + h > 0]
                /\ prog' = RecordCpuConsump(p, a, n * ReqCycles)
                /\ UNCHANGED <<dev, weight, rateInv, numBlks, isDrain,
                               pending, mig>>
    /\ NextStage
    /\ UNCHANGED <<offset, inbox, aphase, rounds>>

\* blocks pop_blk_queue hands out before the limiter denies: all of them
\* while the partition is not yet full (unlimited_bandwidth_if_unpopulated_
\* cache), else one per can_send, each taking ++curr_num_blks
Submittable(a) ==
    IF cached[a] < CacheCap THEN blk[a]
    ELSE LET k == IF offset >= rateInv[a] * numBlks[a]
                  THEN (offset \div rateInv[a]) - numBlks[a] + 1 ELSE 0
         IN  IF k < blk[a] THEN k ELSE blk[a]

\* 4. submit block requests until the rate limiter denies
SubmitBlocks ==
    /\ Stages[stage] = "blk"
    /\ blk' = [a \in Apps |-> blk[a] - Submittable(a)]
    /\ dev' = [a \in Apps |-> dev[a] + Submittable(a)]
    /\ numBlks' = [a \in Apps |-> IF cached[a] < CacheCap THEN numBlks[a]
                                  ELSE numBlks[a] + Submittable(a)]
    /\ NextStage
    /\ UNCHANGED <<recv, intl, cq, inflight, served, active, prog, weight,
                   rateInv, cached, isDrain, pending, mig,
                   now, offset, ticks, inbox, aphase, rounds>>

\* 6. one allocator message: a decision is applied by set_resrc (weight and
\* the limiter's rate_inv) and, with inode moves, set_drain_for_migration,
\* which asserts that the previous drain is over; an ack of a migration is
\* unset_drain_for_migration
SetResrc(m) ==
    /\ weight' = [weight EXCEPT ![m.app] = m.weight]
    /\ rateInv' = [rateInv EXCEPT ![m.app] = m.rateInv]

\* past its assert (an NDEBUG build), a second plan replaces the first
SetDrainForMigration(m) ==
    /\ isDrain' = [isDrain EXCEPT ![m.app] = @ \/ m.moves]
    /\ pending' = [pending EXCEPT ![m.app] = @ \/ m.moves]

ApplyDecision(m) ==
    /\ SetResrc(m)
    /\ SetDrainForMigration(m)
    /\ UNCHANGED mig

\* an ack that clears the plan but leaves is_drain set
UnsetDrainKeepDrain(m) ==
    /\ isDrain' = isDrain
    /\ pending' = [pending EXCEPT ![m.app] = FALSE]
    /\ mig' = [mig EXCEPT ![m.app] = "none"]
    /\ UNCHANGED <<weight, rateInv>>

UnsetDrain(m) ==
    /\ isDrain' = [isDrain EXCEPT ![m.app] = FALSE]
    /\ pending' = [pending EXCEPT ![m.app] = FALSE]
    /\ mig' = [mig EXCEPT ![m.app] = "none"]
    /\ UNCHANGED <<weight, rateInv>>

\* 7. once no message is left, every draining tenant that should_migrate
\* exports its planned inodes (splitBufferItemsByIndex) and sends them to
\* the destination worker
Migrate ==
    mig' = [a \in Apps |-> IF ShouldMigrate(a) /\ mig[a] = "none"
                           THEN "sent" ELSE mig[a]]

PollMessage ==
    /\ Stages[stage] = "msg"
    /\ \/ /\ inbox = <<>>
          /\ Migrate
          /\ NextStage
          /\ UNCHANGED <<inbox, weight, rateInv, isDrain, pending>>
       \/ /\ inbox # <<>>
          /\ IF Head(inbox).type = "decision" THEN ApplyDecision(Head(inbox))
             ELSE UnsetDrain(Head(inbox))
          /\ inbox' = Tail(inbox)
          /\ UNCHANGED stage
    /\ UNCHANGED <<recv, intl, blk, dev, cq, inflight, served, active,
                   prog, numBlks, cached, now, offset, ticks, aphase, rounds>>

WorkerStep == Serve \/ SubmitBlocks \/ PollMessage

-----------------------------------------------------------------------------
(* The allocator thread (Allocator::run).                                  *)

\* reset_stat of every view, then the stat collection window
ResetStat ==
    /\ aphase = "collect"
    /\ rounds < MaxRounds
    /\ active' = [a \in Apps |-> FALSE]
    /\ aphase' = "window"
    /\ UNCHANGED <<recv, intl, blk, dev, cq, inflight, served, prog, weight,
                   rateInv, numBlks, cached, isDrain, pending, mig,
                   stage, now, offset, ticks, inbox, rounds>>

\* poll_stat: an app is active when it finished blocks in the window; only
\* when every app is, do_alloc ships one AllocDecision per app to the
\* worker, with inode moves unless the partition is symmetric
Allocate ==
    /\ aphase = "window"
    /\ aphase' = "collect"
    /\ rounds' = rounds + 1
    /\ IF \A a \in Apps : active[a]
       THEN \E mv \in [Apps -> IF SymmPartition THEN {FALSE} ELSE BOOLEAN],
               w \in [Apps -> Weights], r \in [Apps -> RateInvs] :
              inbox' = inbox \o [k \in Apps |-> Decision(k, mv[k], w[k], r[k])]
       ELSE UNCHANGED inbox
    /\ UNCHANGED <<tenant, stage, clock>>

Next ==
    \/ WorkerStep \/ Tick \/ ResetStat \/ Allocate
    \/ \E a \in Apps : ClientSend(a) \/ DeviceDone(a) \/ MigrationAck(a)

(* The worker thread and the allocator thread run on their own cores, the *)
(* clock always advances, the device completes what it was given, the     *)
(* destination worker answers a migration, and each client keeps sending.  *)
Fairness ==
    /\ WF_vars(WorkerStep)
    /\ WF_vars(Tick)
    /\ WF_vars(ResetStat) /\ WF_vars(Allocate)
    /\ \A a \in Apps : WF_vars(ClientSend(a)) /\ WF_vars(DeviceDone(a))
                       /\ WF_vars(MigrationAck(a))

Spec == Init /\ [][Next]_vars /\ Fairness
-----------------------------------------------------------------------------
TypeOK ==
    /\ \A a \in Apps :
         /\ Outstanding(a) \in 0..QDepth
         /\ inflight[a] \in 0..QDepth
         /\ served[a] \in BOOLEAN /\ active[a] \in BOOLEAN
         /\ weight[a] \in Weights /\ rateInv[a] \in RateInvs
         /\ mig[a] \in {"none", "sent", "acked"}
    /\ stage \in 1..Len(Stages) /\ now \in 0..EpochTicks
    /\ offset \in 0..FrameTicks-1

(* num_reqs_inflight counts exactly the requests popped from recv_queue   *)
(* and not yet answered: those in blk_queue, on the device, completed but *)
(* not polled, and in intl_queue (spec.md property 9 asks it be >= 0).    *)
InflightAccounting ==
    \A a \in Apps : inflight[a] = blk[a] + dev[a] + cq[a] + intl[a]

(* From the export of a tenant's inodes until the ack unsets the drain, no *)
(* request of the tenant is anywhere between recv_queue and its answer:   *)
(* the blocks the source worker exported are used by nobody there.         *)
MigrationQuiesced ==
    \A a \in Apps : mig[a] # "none" =>
        /\ isDrain[a]
        /\ blk[a] + dev[a] + cq[a] + intl[a] = 0

(* Every drain set by an allocator decision ends: the tenant's in-flight  *)
(* requests finish, it migrates, and the ack unsets the drain.             *)
DrainCompletes ==
    \A a \in Apps : isDrain[a] ~> ~isDrain[a]

(* Whenever a client sends a request, one of its requests is answered    *)
(* later: no tenant is starved by the least-progress pick, the throttling *)
(* of strict_cpu_usage, the rate limiter or a drain.                       *)
AppProgress ==
    \A a \in Apps : ~served[a] ~> served[a]

(* set_drain_for_migration is only called when the previous drain is over *)
(* (the assert at Tenant.h:268).                                           *)
SetDrainWhenIdle ==
    [][\A a \in Apps :
         (/\ Stages[stage] = "msg" /\ inbox # <<>>
          /\ Head(inbox).type = "decision" /\ Head(inbox).app = a
          /\ Head(inbox).moves /\ inbox' = Tail(inbox))
         => ~isDrain[a] /\ ~pending[a]]_vars
=============================================================================
