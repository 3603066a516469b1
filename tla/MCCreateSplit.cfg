\* Two names of one file in the base that are two files now.
CONSTANTS
    Names <- MCNames
    Data <- MCData
    Zips <- MCZips
    ZipLen = 2
    Hash <- MCHash
    Scenes <- MCSplit
SPECIFICATION Spec
INVARIANT BaseUntouched
\* The command ends.
CHECK_DEADLOCK FALSE
