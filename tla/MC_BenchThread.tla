-------------------------- MODULE MC_BenchThread --------------------------
EXTENDS BenchThread, TLC

CONSTANTS t1, t2

\* two apps of one RW thread each, forked in the order of their index,
\* three barriers each
MCAppOf == (t1 :> 0) @@ (t2 :> 1)
MCThreads == {t1, t2}
MCCalls == [t \in MCThreads |-> 3]

\* t1: synchronous SEQ workload over two files; t2: a ring of two
\* contexts over one file, three SHUFFLE operations then one UNIF
\* a spec::Offset
Off(type, min, max, align) == [type |-> type, min |-> min, max |-> max, align |-> align]

MCFds == (t1 :> 2) @@ (t2 :> 1)
MCWorkloads ==
    (t1 :> << [ops |-> 2, qdepth |-> 1, offset |-> Off("SEQ", 0, 4, 2), readPct |-> 50,
               dirtyThreshold |-> 2, expiryMinOps |-> 0] >>)
 @@ (t2 :> << [ops |-> 3, qdepth |-> 2, offset |-> Off("SHUFFLE", 0, 6, 2), readPct |-> 50,
               dirtyThreshold |-> 2, expiryMinOps |-> 2],
              [ops |-> 1, qdepth |-> 2, offset |-> Off("UNIF", 2, 6, 2), readPct |-> 50,
               dirtyThreshold |-> 2, expiryMinOps |-> 2] >>)

\* spec::Offset values: ranges of up to six offsets, aligned or not
MCOffMins == {0, 2}
MCOffMaxs == {4, 6}
MCOffAligns == {1, 2, 4}
=============================================================================
