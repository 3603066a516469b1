\* Three commands, two files, two versions of each: a base, a backup on it, and
\* one that comes at the same time or after a kill, a deletion or damage.
CONSTANTS
    Procs = {1, 2, 3}
    Files = {f, g}
    Versions = {1, 2}
    Scenes <- MCScenes
    Exposed = FALSE
    MaxRunning = 2
    MaxKills = 1
    MaxDeletes = 1
    MaxChanges = 1
    MaxDamage = 1
    MaxEvents = 2
SYMMETRY Symmetric
SPECIFICATION Spec
INVARIANTS TypeOK FailsOnlyWithCause
PROPERTIES ImplementsStore ReadersTell SuccessMeansWhole
\* The commands end.
CHECK_DEADLOCK FALSE
