------------------------------ MODULE Workload ------------------------------
(***************************************************************************)
(* A benchmark thread's file workloads, Workload::run(fds) of              *)
(* src/bench/src/workload.h.  Each run issues spec.ops operations over the *)
(* thread's files in turn, reads or writes as read_ratio draws.            *)
(*  - With qdepth 1 it calls the synchronous fs_allocated_pread / pwrite.  *)
(*  - Otherwise it keeps a ring of qdepth async contexts: the op_cnt-th    *)
(*    operation goes to ctxs[op_cnt % qdepth], after waiting for the       *)
(*    request that context still holds.  After the loop it waits for the   *)
(*    contexts still out, and the Workload destructor frees the buffers.   *)
(*  - A write is counted in per_fd_dirty_sizes when it completes, and the  *)
(*    file is fdatasync'ed once the count reaches dirty_threshold.         *)
(*  - With SEQ offsets, one offset is used for every file (goto begin)     *)
(*    before the generator advances.                                       *)
(* The FS completes an async request at any time after its submission     *)
(* (FsComplete).  The duration test compares the elapsed time: it may     *)
(* become true at any step once expiryMinOps operations are counted.       *)
(* Offsets, buffers and byte counts are left out: control never depends    *)
(* on them (offset.h is the module Offsets).  Sizes are in units of count. *)
(***************************************************************************)
EXTENDS Naturals, Sequences, FiniteSets, FiniteSetsExt

CONSTANTS
    Threads,      \* the RW threads
    Fds,          \* [Threads -> Nat \ {0}]: fds.size() of each thread
    Workloads,    \* [Threads -> Seq(WorkloadSpec)]: thread.workloads
    FsMayFail     \* an fs_* call may return an unexpected count or error

\* spec::Workload: ops, qdepth, offset (spec::Offset), read_ratio in percent,
\* dirty_threshold in units of count; duration_sec as the number of
\* operations op_cnt must have reached before the elapsed time can reach it
WorkloadSpec == [ops : Nat, qdepth : Nat \ {0},
                 offset : [type : {"SEQ", "SHUFFLE", "UNIF"}, min : Nat, max : Nat,
                           align : Nat \ {0}],
                 readPct : 0..100, dirtyThreshold : Nat \ {0},
                 expiryMinOps : Nat]

VARIABLES
    wpc,      \* thread -> "idle" (not in run), "loop", "drain" or "failed"
    wl,       \* thread -> index in thread.workloads of the next or current run
    gidx,     \* BaseGenerator::index of the run's Offsets
    opCnt,    \* op_cnt
    ctxIdx,   \* ctx_idx
    fdIdx,    \* fd_idx
    again,    \* the last body ended in goto begin: the next reuses off
    ctx,      \* ctx index -> the request the FS holds in ctxs[i]
    isRead,   \* ctxs_is_read
    dirty,    \* per_fd_dirty_sizes
    timeUp,   \* stat's elapsed time has reached spec.duration_sec
    subs,     \* requests submitted in this run (history)
    waits     \* requests waited for in this run (history)

wvars == <<wpc, wl, gidx, opCnt, ctxIdx, fdIdx, again, ctx, isRead, dirty,
           timeUp, subs, waits>>

\* the workload a thread runs now
Cur(t) == Workloads[t][wl[t]]

\* an async context: free, or holding a submitted (busy) or completed request
FreeCtx == [st |-> "free", read |-> FALSE, fd |-> 0]
Ctx(t) == [st : {"free", "busy", "done"}, read : BOOLEAN, fd : 0..Fds[t]-1]

\* line 96: rand() % 100 < read_ratio * 100
ReadChoices(w) == {r \in BOOLEAN : (r => w.readPct > 0) /\ (~r => w.readPct < 100)}

\* lines 128-134 and 161-167: a completed write is counted, and the file
\* is fdatasync'ed and its count reset once it reaches dirty_threshold
CountWrite(d, f, thr) == [d EXCEPT ![f] = IF @ + 1 >= thr THEN 0 ELSE @ + 1]

Init ==
    /\ wpc = [t \in Threads |-> "idle"]
    /\ wl = [t \in Threads |-> 1]
    /\ gidx = [t \in Threads |-> 0] /\ opCnt = [t \in Threads |-> 0]
    /\ ctxIdx = [t \in Threads |-> 0] /\ fdIdx = [t \in Threads |-> 0]
    /\ again = [t \in Threads |-> FALSE]
    /\ ctx = [t \in Threads |-> <<>>] /\ isRead = [t \in Threads |-> <<>>]
    /\ dirty = [t \in Threads |-> <<>>]
    /\ timeUp = [t \in Threads |-> FALSE]
    /\ subs = [t \in Threads |-> 0] /\ waits = [t \in Threads |-> 0]

(* Workload's constructor and the start of run: fresh buffers, contexts,   *)
(* per-fd counters and statistics (lines 49-93).                            *)
StartRun(t) ==
    LET w == Workloads[t][wl[t]]
    IN  /\ wpc[t] = "idle" /\ wl[t] <= Len(Workloads[t])
        /\ wpc' = [wpc EXCEPT ![t] = "loop"]
        /\ gidx' = [gidx EXCEPT ![t] = 0] /\ opCnt' = [opCnt EXCEPT ![t] = 0]
        /\ ctxIdx' = [ctxIdx EXCEPT ![t] = 0] /\ fdIdx' = [fdIdx EXCEPT ![t] = 0]
        /\ again' = [again EXCEPT ![t] = FALSE]
        /\ ctx' = [ctx EXCEPT ![t] = [i \in 0..w.qdepth-1 |-> FreeCtx]]
        /\ isRead' = [isRead EXCEPT ![t] = [i \in 0..w.qdepth-1 |-> FALSE]]
        /\ dirty' = [dirty EXCEPT ![t] = [f \in 0..Fds[t]-1 |-> 0]]
        /\ timeUp' = [timeUp EXCEPT ![t] = FALSE]
        /\ subs' = [subs EXCEPT ![t] = 0] /\ waits' = [waits EXCEPT ![t] = 0]
        /\ UNCHANGED wl

\* the loop runs a body: after goto begin, or while the generator has offsets
InBody(t) == wpc[t] = "loop" /\ (again[t] \/ gidx[t] < Cur(t).ops)

\* a break after which the cleanup starts where the ring stopped
BreakKeepIdx(t) ==
    /\ wpc' = [wpc EXCEPT ![t] = "drain"]
    /\ UNCHANGED ctxIdx

\* a break: the cleanup loop of line 219 starts at context 0
Break(t) ==
    /\ wpc' = [wpc EXCEPT ![t] = "drain"]
    /\ ctxIdx' = [ctxIdx EXCEPT ![t] = 0]

(* Lines 186-213, after an operation that did not throw: break once the    *)
(* duration is reached; otherwise advance the context and file, count the  *)
(* operation, break past spec.ops, and for SEQ offsets reuse the offset    *)
(* (goto begin) until fd_idx wraps to 0, else let the generator advance.   *)
LoopTail(t, w) ==
    \/ /\ timeUp[t]
       /\ Break(t)
       /\ UNCHANGED <<opCnt, fdIdx, gidx, again>>
    \/ /\ ~timeUp[t]
       /\ opCnt' = [opCnt EXCEPT ![t] = @ + 1]
       /\ fdIdx' = [fdIdx EXCEPT ![t] = (@ + 1) % Fds[t]]
       /\ IF opCnt[t] + 1 > w.ops
          THEN Break(t) /\ UNCHANGED <<gidx, again>>
          ELSE LET goto == w.offset.type = "SEQ" /\ (fdIdx[t] + 1) % Fds[t] # 0
               IN  /\ ctxIdx' = [ctxIdx EXCEPT ![t] = (@ + 1) % w.qdepth]
                   /\ again' = [again EXCEPT ![t] = goto]
                   /\ gidx' = IF goto THEN gidx ELSE [gidx EXCEPT ![t] = @ + 1]
                   /\ UNCHANGED wpc

(* Lines 104-137: with qdepth 1, one synchronous read or write; a written  *)
(* file is counted at once.                                                *)
SyncOp(t) ==
    LET w == Cur(t)
    IN  /\ InBody(t) /\ w.qdepth = 1
        /\ \E r \in ReadChoices(w) :
              dirty' = IF r THEN dirty
                       ELSE [dirty EXCEPT ![t] = CountWrite(@, fdIdx[t], w.dirtyThreshold)]
        /\ LoopTail(t, w)
        /\ UNCHANGED <<wl, ctx, isRead, timeUp, subs, waits>>

\* line 139: the ring is full and the context must be waited for first
MustWaitOffByOne(t, w) == opCnt[t] > w.qdepth

MustWait(t, w) == opCnt[t] >= w.qdepth

(* Lines 138-184: wait for the request ctxs[ctx_idx] holds, with the wait  *)
(* call ctxs_is_read names; a waited write is counted on ctx->fd.  The     *)
(* wait blocks until the FS has completed the request.  Then submit the    *)
(* new read or write in the same context and record its kind.              *)
AsyncOp(t) ==
    LET w == Cur(t)
        c == ctxIdx[t]
        old == ctx[t][c]
        wait == MustWait(t, w)
    IN  /\ InBody(t) /\ w.qdepth > 1
        /\ wait => old.st = "done"
        /\ \E r \in ReadChoices(w) :
              /\ ctx' = [ctx EXCEPT ![t][c] = [st |-> "busy", read |-> r, fd |-> fdIdx[t]]]
              /\ isRead' = [isRead EXCEPT ![t][c] = r]
        /\ dirty' = IF wait /\ ~isRead[t][c]
                    THEN [dirty EXCEPT ![t] = CountWrite(@, old.fd, w.dirtyThreshold)]
                    ELSE dirty
        /\ waits' = IF wait THEN [waits EXCEPT ![t] = @ + 1] ELSE waits
        /\ subs' = [subs EXCEPT ![t] = @ + 1]
        /\ LoopTail(t, w)
        /\ UNCHANGED <<wl, timeUp>>

\* line 94: the generator is exhausted and the loop ends
LoopExit(t) ==
    /\ wpc[t] = "loop" /\ ~again[t] /\ gidx[t] >= Cur(t).ops
    /\ Break(t)
    /\ UNCHANGED <<wl, gidx, opCnt, fdIdx, again, ctx, isRead, dirty, timeUp, subs, waits>>

\* a cleanup that waits for every context, used or not
DrainCountAll(t, w) == w.qdepth

\* line 218: the contexts the cleanup waits for
DrainCount(t, w) == Min({w.qdepth, opCnt[t]})

(* Lines 217-243: wait for contexts 0 .. ctx_cnt - 1 in turn, each with    *)
(* the wait call ctxs_is_read names; nothing is counted as dirty here.     *)
DrainWait(t) ==
    LET w == Cur(t)
        c == ctxIdx[t]
    IN  /\ wpc[t] = "drain" /\ w.qdepth > 1 /\ c < DrainCount(t, w)
        /\ ctx[t][c].st = "done"
        /\ ctx' = [ctx EXCEPT ![t][c] = FreeCtx]
        /\ waits' = [waits EXCEPT ![t] = @ + 1]
        /\ ctxIdx' = [ctxIdx EXCEPT ![t] = @ + 1]
        /\ UNCHANGED <<wpc, wl, gidx, opCnt, fdIdx, again, isRead, dirty, timeUp, subs>>

(* run returns and ~Workload frees the buffers (lines 55-57); the thread   *)
(* goes on to its next workload.                                           *)
EndRun(t) ==
    LET w == Cur(t)
    IN  /\ wpc[t] = "drain" /\ (w.qdepth = 1 \/ ctxIdx[t] >= DrainCount(t, w))
        /\ wpc' = [wpc EXCEPT ![t] = "idle"]
        /\ wl' = [wl EXCEPT ![t] = @ + 1]
        /\ UNCHANGED <<gidx, opCnt, ctxIdx, fdIdx, again, ctx, isRead, dirty, timeUp, subs, waits>>

\* the elapsed time reaches spec.duration_sec (lines 186 and 205)
Expire(t) ==
    /\ wpc[t] = "loop" /\ ~timeUp[t] /\ opCnt[t] >= Cur(t).expiryMinOps
    /\ timeUp' = [timeUp EXCEPT ![t] = TRUE]
    /\ UNCHANGED <<wpc, wl, gidx, opCnt, ctxIdx, fdIdx, again, ctx, isRead, dirty, subs, waits>>

\* the FS completes a submitted async request
FsComplete(t, c) ==
    /\ c \in DOMAIN ctx[t] /\ ctx[t][c].st = "busy"
    /\ ctx' = [ctx EXCEPT ![t][c].st = "done"]
    /\ UNCHANGED <<wpc, wl, gidx, opCnt, ctxIdx, fdIdx, again, isRead, dirty, timeUp, subs, waits>>

(* An fs_* call of the loop or of the cleanup returns an unexpected count   *)
(* or error, and run throws std::runtime_error (lines 110-181, 222-240).    *)
FsFail(t) ==
    /\ FsMayFail
    /\ \/ InBody(t)
       \/ wpc[t] = "drain" /\ Cur(t).qdepth > 1 /\ ctxIdx[t] < DrainCount(t, Cur(t))
    /\ wpc' = [wpc EXCEPT ![t] = "failed"]
    /\ UNCHANGED <<wl, gidx, opCnt, ctxIdx, fdIdx, again, ctx, isRead, dirty, timeUp, subs, waits>>

\* every context index a run of thread t can have
CtxSlots(t) == 0..Max({Workloads[t][i].qdepth : i \in 1..Len(Workloads[t])}) - 1

\* the steps of thread t itself
ThreadStep(t) ==
    SyncOp(t) \/ AsyncOp(t) \/ LoopExit(t) \/ DrainWait(t) \/ EndRun(t)

Next ==
    \E t \in Threads :
        \/ StartRun(t) \/ ThreadStep(t) \/ Expire(t) \/ FsFail(t)
        \/ \E c \in DOMAIN ctx[t] : FsComplete(t, c)

(* The thread runs on its own core and the FS worker serves every request  *)
(* it is sent (TenantSched's AppProgress), so both are weakly fair.  The    *)
(* clock and the failures are not.                                          *)
Fairness ==
    \A t \in Threads :
        /\ WF_wvars(StartRun(t)) /\ WF_wvars(ThreadStep(t))
        /\ \A c \in CtxSlots(t) : WF_wvars(FsComplete(t, c))

Spec == Init /\ [][Next]_wvars /\ Fairness

-----------------------------------------------------------------------------
TypeOK ==
    /\ wpc \in [Threads -> {"idle", "loop", "drain", "failed"}]
    /\ \A t \in Threads :
          /\ Workloads[t] \in Seq(WorkloadSpec)
          /\ wl[t] \in 1..Len(Workloads[t]) + 1
          /\ wpc[t] \in {"loop", "drain"} =>
                /\ ctx[t] \in [0..Cur(t).qdepth-1 -> Ctx(t)]
                /\ opCnt[t] \in 0..Cur(t).ops + 1
                /\ dirty[t] \in [0..Fds[t]-1 -> 0..Cur(t).dirtyThreshold-1]

(* Every request a run submitted is still held by one of its contexts or   *)
(* has been waited for: the ring never submits into a context whose        *)
(* request it has not waited for, so no completion is lost.                *)
InFlightAccounted ==
    \A t \in Threads :
        wpc[t] \in {"loop", "drain", "idle"} =>
            subs[t] - waits[t] = Cardinality({c \in DOMAIN ctx[t] : ctx[t][c].st # "free"})

(* When run returns and ~Workload frees the buffers (fs_free) and the      *)
(* contexts, the FS holds no request of the run: no completion is written  *)
(* into freed memory.                                                      *)
BuffersIdleAtExit ==
    \A t \in Threads :
        wpc[t] = "idle" => \A c \in DOMAIN ctx[t] : ctx[t][c].st = "free"

(* Every run that starts returns or throws: no wait blocks forever.        *)
RunEnds ==
    \A t \in Threads : wpc[t] = "loop" ~> wpc[t] \in {"idle", "failed"}
=============================================================================
