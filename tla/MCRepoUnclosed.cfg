\* Two backups; the second may start, and a kill may hit the first, while the
\* first has touched Finished and has not closed its list.
CONSTANTS
    Procs = {1, 2}
    Files = {"f", "g"}
    Versions = {1, 2}
    Scenes <- MCCrash
    Exposed = TRUE
    MaxRunning = 2
    MaxKills = 1
    MaxDeletes = 0
    MaxChanges = 2
    MaxDamage = 0
    MaxEvents = 3
SPECIFICATION Spec
PROPERTY SuccessMeansWhole
\* The commands end.
CHECK_DEADLOCK FALSE
