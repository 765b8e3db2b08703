---------------------------- MODULE BenchBarrier ----------------------------
(***************************************************************************)
(* The benchmark's process-shared spin barrier (src/bench/src/utils/       *)
(* barrier.h) as used by the benchmark threads (src/bench/src/thread.h):   *)
(* run_expr creates one Barrier(num_threads) for all threads of all apps   *)
(* of an experiment; an RW thread calls arrive_and_wait three times, a DB  *)
(* thread once.  arrive_and_wait is an atomic increment of the shared      *)
(* count; the thread that makes it num stores 0, every other one spins     *)
(* until it reads 0.  Reads and the store of 0 are modelled as atomic.     *)
(***************************************************************************)
EXTENDS Naturals, FiniteSets

CONSTANTS
    Threads,    \* all threads of all apps of the experiment
    Calls       \* [Threads -> Nat]: arrive_and_wait calls of each thread

\* run_expr: num_threads is the sum of the apps' thread counts
num == Cardinality(Threads)

VARIABLES
    count,      \* ShmBuf::count
    pc,         \* where each thread is: "work", "spin", "reset" or "done"
    passed      \* barriers each thread has returned from

vars == <<count, pc, passed>>

Init ==
    /\ count = 0
    /\ pc = [t \in Threads |-> IF Calls[t] = 0 THEN "done" ELSE "work"]
    /\ passed = [t \in Threads |-> 0]

\* Mutant: the last-barrier test off by one.
AfterBarrierOffByOne(t) == IF passed[t] + 1 > Calls[t] THEN "done" ELSE "work"

\* where a thread goes after returning from a barrier (thread.h: work
\* between the calls, then finish)
AfterBarrier(t) == IF passed[t] + 1 = Calls[t] THEN "done" ELSE "work"

(* Mutant: the release threshold one too low.                             *)
ArriveEarly(t) ==
    /\ pc[t] = "work"
    /\ count' = count + 1
    /\ pc' = [pc EXCEPT ![t] = IF count + 1 >= num - 1 THEN "reset" ELSE "spin"]
    /\ UNCHANGED passed

(* arrive_and_wait, line 30: __sync_add_and_fetch(&count, 1) == num.       *)
Arrive(t) ==
    /\ pc[t] = "work"
    /\ count' = count + 1
    /\ pc' = [pc EXCEPT ![t] = IF count + 1 = num THEN "reset" ELSE "spin"]
    /\ UNCHANGED passed

(* Mutant: the last arriver returns without storing 0.                    *)
ResetNoStore(t) ==
    /\ pc[t] = "reset"
    /\ pc' = [pc EXCEPT ![t] = AfterBarrier(t)]
    /\ passed' = [passed EXCEPT ![t] = @ + 1]
    /\ UNCHANGED count

(* line 31: the last arriver stores 0 and returns.                         *)
Reset(t) ==
    /\ pc[t] = "reset"
    /\ count' = 0
    /\ pc' = [pc EXCEPT ![t] = AfterBarrier(t)]
    /\ passed' = [passed EXCEPT ![t] = @ + 1]

(* lines 33-35: a spinning thread reads count; it returns once it reads 0 *)
(* and otherwise spins on.                                                 *)
SpinWait(t) ==
    /\ pc[t] = "spin" /\ count # 0
    /\ UNCHANGED vars

Spin(t) ==
    /\ pc[t] = "spin" /\ count = 0
    /\ pc' = [pc EXCEPT ![t] = AfterBarrier(t)]
    /\ passed' = [passed EXCEPT ![t] = @ + 1]
    /\ UNCHANGED count

\* every thread has returned from all its barriers: the experiment ends
Terminated == \A t \in Threads : pc[t] = "done"
Finished == Terminated /\ UNCHANGED vars

Next == Finished \/ \E t \in Threads : Arrive(t) \/ Reset(t) \/ Spin(t) \/ SpinWait(t)

(* Each thread is an OS thread pinned to its own core and keeps running,   *)
(* so each of its steps is weakly fair.  A spinner is not guaranteed to    *)
(* read count in a window where it is 0, so Spin is only weakly fair.      *)
Fairness == \A t \in Threads : WF_vars(Arrive(t)) /\ WF_vars(Reset(t)) /\ WF_vars(Spin(t))

Spec == Init /\ [][Next]_vars /\ Fairness

-----------------------------------------------------------------------------
TypeOK ==
    /\ count \in 0..num
    /\ pc \in [Threads -> {"work", "spin", "reset", "done"}]
    /\ \A t \in Threads : passed[t] \in 0..Calls[t]

(* The barrier implements BarrierAbstract: no thread returns from its k-th *)
(* arrive_and_wait before every thread has called its k-th.  A thread      *)
(* waiting in the barrier is one spinning or about to store 0.             *)
Abs == INSTANCE BarrierAbstract WITH phase <- passed,
                                     waiting <- [t \in Threads |-> pc[t] \in {"spin", "reset"}]
ImplementsBarrier == Abs!Spec

(* Every benchmark thread eventually returns from all its arrive_and_wait  *)
(* calls, so the experiment finishes instead of spinning forever.          *)
AllThreadsFinish == <>Terminated
=============================================================================
