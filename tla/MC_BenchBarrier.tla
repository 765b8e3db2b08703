-------------------------- MODULE MC_BenchBarrier --------------------------
EXTENDS BenchBarrier, TLC

CONSTANTS t1, t2, t3, t4

\* one app of four RW threads: three barriers each
RWThreads == {t1, t2, t3, t4}
RWCalls == [t \in RWThreads |-> 3]

=============================================================================
