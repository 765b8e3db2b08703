\* Four RW threads, three barriers each: does every thread return?
CONSTANTS
    t1 = t1  t2 = t2  t3 = t3  t4 = t4
    Threads <- RWThreads
    Calls <- RWCalls
SPECIFICATION Spec
PROPERTY AllThreadsFinish
