\* Three workers, three names of one file, no other member: the case of an
\* archive whose last members are links to one file, with as many links.
CONSTANTS
    N = 3
    Workloads <- MCHardLinks
SPECIFICATION Spec
PROPERTY Finishes
\* The program ends.
CHECK_DEADLOCK FALSE
