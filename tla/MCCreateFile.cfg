\* Two files of at most three chunks against every base of two such files.
CONSTANTS
    Names <- MCNames
    Data <- MCData
    Zips <- MCZips
    ZipLen = 2
    Hash <- MCHash
    Scenes <- MCScenes
SPECIFICATION Spec
INVARIANTS TypeOK Restorable BaseUntouched NoBlockUnused ThrowsOnlyOnBadBase
PROPERTIES BlocksWrittenOnce AllListed
\* The command ends.
CHECK_DEADLOCK FALSE
