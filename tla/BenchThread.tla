---------------------------- MODULE BenchThread ----------------------------
(***************************************************************************)
(* An experiment of the benchmark (src/bench/src/main_bench.cpp): run_expr *)
(* creates one process-shared Barrier for all threads of all apps and      *)
(* fork_and_wait (utils/fork.h) forks one process per app, run_app.  Each  *)
(* RW thread (thread.h) opens its files and arrives at the barrier,        *)
(* shuffles its fds and arrives again, runs its workloads in turn          *)
(* (Workload), and arrives a third time before closing its files.          *)
(* run_app runs each Thread::main in a std::thread, so an exception that   *)
(* escapes a workload calls std::terminate and the app's process dies:     *)
(* none of its threads takes another step.  The parent waits for the       *)
(* children in fork order; on the first that did not exit with 0 it sends *)
(* SIGTERM to it and to every later child and exits 1.                     *)
(***************************************************************************)
EXTENDS Naturals, Sequences

CONSTANTS Threads, Calls, Fds, Workloads, FsMayFail,
          OffMins, OffMaxs, OffAligns,
          NumApps,    \* expr.apps.size()
          AppOf       \* [Threads -> 0..NumApps-1]: the app a thread is of

VARIABLES count, pc, passed,
          wpc, wl, gidx, opCnt, ctxIdx, fdIdx, again, ctx, isRead, dirty,
          timeUp, subs, waits,
          waitIdx,    \* fork_and_wait: i of the waitpid loop
          parent,     \* "wait", or the parent's exit code: "exit0", "exit1"
          killed      \* apps sent SIGTERM by the parent

B == INSTANCE BenchBarrier
W == INSTANCE Workload
O == INSTANCE Offsets

wvars == <<wpc, wl, gidx, opCnt, ctxIdx, fdIdx, again, ctx, isRead, dirty,
           timeUp, subs, waits>>
pvars == <<waitIdx, parent, killed>>
vars == <<count, pc, passed, wvars, pvars>>

Apps == 0..NumApps-1
ThreadsOf(a) == {t \in Threads : AppOf[t] = a}

\* Thread::main, lines 46-54: the workloads run after the second barrier
RunsWorkloads(t) == passed[t] = 2 /\ pc[t] = "work"

\* every workload of the thread has returned
WorkloadsDone(t) == wpc[t] = "idle" /\ wl[t] > Len(Workloads[t])

\* a thread of app a has thrown: std::terminate, the process dies of SIGABRT
Failed(a) == \E t \in ThreadsOf(a) : wpc[t] = "failed"

\* the thread's process is alive: no thread of its app has thrown, and the
\* parent has not killed it
Alive(t) == ~Failed(AppOf[t]) /\ AppOf[t] \notin killed

\* run_app joined every thread of app a: the child exits with 0
Exited(a) == ~Failed(a) /\ a \notin killed /\ \A t \in ThreadsOf(a) : pc[t] = "done"

\* the child process of app a has ended, one way or the other
Ended(a) == Exited(a) \/ Failed(a) \/ a \in killed

Init == B!Init /\ W!Init /\ waitIdx = 0 /\ parent = "wait" /\ killed = {}

(* A barrier step of a live thread; the third arrive_and_wait comes only   *)
(* after the workloads.                                                    *)
BarrierStep(t) ==
    /\ Alive(t)
    /\ \/ B!Arrive(t) /\ (passed[t] = 2 => WorkloadsDone(t))
       \/ B!Reset(t) \/ B!Spin(t) \/ B!SpinWait(t)
    /\ UNCHANGED <<wvars, pvars>>

\* a workload step of a live thread
WorkloadStep(t) ==
    /\ Alive(t)
    /\ \/ W!StartRun(t) /\ RunsWorkloads(t)
       \/ W!ThreadStep(t) \/ W!Expire(t)
    /\ UNCHANGED <<count, pc, passed, pvars>>

(* A failing fs_* call throws out of Thread::main: std::terminate ends the *)
(* process, so every thread of the app stops where it is.                  *)
Abort(t) == Alive(t) /\ W!FsFail(t) /\ UNCHANGED <<count, pc, passed, pvars>>

\* the FS keeps completing submitted requests
FsStep(t) == \E c \in DOMAIN ctx[t] : W!FsComplete(t, c) /\ UNCHANGED <<count, pc, passed, pvars>>

(* Mutant: the kill loop left out; the parent exits 1 at once.             *)
WaitChildNoKill ==
    /\ parent = "wait" /\ waitIdx < NumApps /\ Ended(waitIdx)
    /\ IF Exited(waitIdx)
       THEN waitIdx' = waitIdx + 1 /\ UNCHANGED <<parent, killed>>
       ELSE parent' = "exit1" /\ UNCHANGED <<waitIdx, killed>>
    /\ UNCHANGED <<count, pc, passed, wvars>>

(* fork_and_wait, lines 28-57: waitpid(pids[i]) returns once child i has   *)
(* ended; a child that exited with 0 lets the loop go on to i + 1, any     *)
(* other end (a signal, as std::terminate's SIGABRT, or SIGTERM) makes the *)
(* parent send SIGTERM to children i..nproc-1 and exit 1.                  *)
WaitChild ==
    /\ parent = "wait" /\ waitIdx < NumApps /\ Ended(waitIdx)
    /\ IF Exited(waitIdx)
       THEN waitIdx' = waitIdx + 1 /\ UNCHANGED <<parent, killed>>
       ELSE /\ killed' = killed \cup {j \in Apps : j >= waitIdx}
            /\ parent' = "exit1"
            /\ UNCHANGED waitIdx
    /\ UNCHANGED <<count, pc, passed, wvars>>

\* every child exited with 0: fork_and_wait and run_expr return, main exits 0
ParentReturn ==
    /\ parent = "wait" /\ waitIdx = NumApps
    /\ parent' = "exit0"
    /\ UNCHANGED <<count, pc, passed, wvars, waitIdx, killed>>

\* the parent has exited
Finished == parent # "wait" /\ UNCHANGED vars

Next ==
    \/ Finished \/ WaitChild \/ ParentReturn
    \/ \E t \in Threads : BarrierStep(t) \/ WorkloadStep(t) \/ Abort(t) \/ FsStep(t)

(* Each thread runs on its own core (pin_to_core) and the FS serves every  *)
(* request, so the threads' steps and the completions are weakly fair; a   *)
(* spinner is not promised to read a short-lived 0 (BenchBarrier).  The    *)
(* clock and the failures are not fair.  The parent blocked in waitpid is *)
(* woken by the kernel when the child ends, so its steps are weakly fair.  *)
Fairness ==
    /\ WF_vars(WaitChild) /\ WF_vars(ParentReturn)
    /\ \A t \in Threads :
        /\ WF_vars(Alive(t) /\ B!Arrive(t) /\ (passed[t] = 2 => WorkloadsDone(t)) /\ UNCHANGED <<wvars, pvars>>)
        /\ WF_vars(Alive(t) /\ B!Reset(t) /\ UNCHANGED <<wvars, pvars>>)
        /\ WF_vars(Alive(t) /\ B!Spin(t) /\ UNCHANGED <<wvars, pvars>>)
        /\ WF_vars(Alive(t) /\ W!StartRun(t) /\ RunsWorkloads(t) /\ UNCHANGED <<count, pc, passed, pvars>>)
        /\ WF_vars(Alive(t) /\ W!ThreadStep(t) /\ UNCHANGED <<count, pc, passed, pvars>>)
        /\ \A c \in W!CtxSlots(t) : WF_vars(W!FsComplete(t, c) /\ UNCHANGED <<count, pc, passed, pvars>>)

Spec == Init /\ [][Next]_vars /\ Fairness

-----------------------------------------------------------------------------
TypeOK ==
    /\ B!TypeOK /\ W!TypeOK
    /\ waitIdx \in 0..NumApps /\ parent \in {"wait", "exit0", "exit1"}
    /\ killed \subseteq Apps

(* With the workloads run between the second and third arrive_and_wait,    *)
(* still no thread returns from a barrier before every thread arrived.      *)
ImplementsBarrier == B!ImplementsBarrier

(* No async request of a run is lost: each is held by a context or was     *)
(* waited for (Workload::run's ring, lines 139-183).                        *)
InFlightAccounted == W!InFlightAccounted

(* ~Workload frees the buffers only when the FS holds no request of the    *)
(* run (the cleanup of lines 217-243).                                      *)
BuffersIdleAtExit == W!BuffersIdleAtExit

(* Every run that starts returns, unless the app process died of a throw,  *)
(* whatever the other thread does at the barrier: no wait of the ring or   *)
(* of the cleanup blocks forever.                                           *)
RunEnds == \A t \in Threads : wpc[t] = "loop" ~> (wpc[t] = "idle" \/ ~Alive(t))

(* The offset every body of a running workload reads or writes at is      *)
(* aligned and ends at least align bytes before max (offset.h:166), and,   *)
(* over all the small spec::Offset inputs, SEQ and SHUFFLE cover the range *)
(* in any n_ consecutive calls.                                            *)
OffsetsInRange ==
    /\ O!OffsetsInRange
    /\ \A t \in Threads :
          W!InBody(t) =>
             LET o == W!Cur(t).offset
             IN  \A off \in O!Gets(o, gidx[t]) : O!InRange(off, o.min, o.max, o.align)

(* When the parent exits, no child is left running: it exits 0 only after  *)
(* every app's process exited with 0, and it exits 1 only after a child    *)
(* ended otherwise, having killed every child it had not yet waited for    *)
(* (fork_and_wait, lines 28-57).  A child left running would spin at the   *)
(* shared barrier after the experiment has ended.                          *)
ParentExitMatches ==
    /\ parent = "exit0" => \A a \in Apps : Exited(a)
    /\ parent = "exit1" => (\E a \in Apps : Failed(a)) /\ \A a \in Apps : Ended(a)

(* Every child that dies is reported.  It is not: when a later child dies  *)
(* while an earlier one spins at the shared barrier, the parent blocks in  *)
(* waitpid on the earlier one forever and never learns of the failure.     *)
FailureReported == \A a \in Apps : Failed(a) ~> parent = "exit1"
=============================================================================
