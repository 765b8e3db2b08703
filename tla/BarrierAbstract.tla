-------------------------- MODULE BarrierAbstract --------------------------
(***************************************************************************)
(* What a reusable barrier promises to a group of threads: a thread that   *)
(* has arrived for its k-th barrier passes only once every thread of the   *)
(* group has arrived for its k-th barrier too.  phase[t] counts the        *)
(* barriers thread t has passed; Calls[t] is how many it calls in all.     *)
(***************************************************************************)
EXTENDS Naturals

CONSTANTS Threads, Calls

VARIABLES phase, waiting

absVars == <<phase, waiting>>

Init ==
    /\ phase = [t \in Threads |-> 0]
    /\ waiting = [t \in Threads |-> FALSE]

Arrive(t) ==
    /\ ~waiting[t] /\ phase[t] < Calls[t]
    /\ waiting' = [waiting EXCEPT ![t] = TRUE]
    /\ UNCHANGED phase

\* every other thread is past this barrier or waiting at it
AllArrived(t) ==
    \A u \in Threads : phase[u] > phase[t] \/ (phase[u] = phase[t] /\ waiting[u])

Pass(t) ==
    /\ waiting[t] /\ AllArrived(t)
    /\ phase' = [phase EXCEPT ![t] = @ + 1]
    /\ waiting' = [waiting EXCEPT ![t] = FALSE]

Next == \E t \in Threads : Arrive(t) \/ Pass(t)

Spec == Init /\ [][Next]_absVars
=============================================================================
