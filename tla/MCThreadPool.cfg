\* Three workers: with two or fewer AllocThread never sleeps, because the main
\* thread's own wait fills the count.
CONSTANTS
    N = 3
    Workloads <- MCWorkloads
SPECIFICATION Spec
INVARIANTS TypeOK EachTaskInOnePlace AvailableIsFree CountersExact
PROPERTIES IdleMeansDone Finishes
\* The program ends.
CHECK_DEADLOCK FALSE
