\* A command that submits no task, two workers.
CONSTANTS
    N = 2
    Workloads <- MCList
SPECIFICATION Spec
PROPERTY AllThreadsQuit
\* The program ends.
CHECK_DEADLOCK FALSE
