\* A file whose base info block was compressed and whose new one is not.
CONSTANTS
    Names <- MCNames
    Data <- MCData
    Zips <- MCZips
    ZipLen = 2
    Hash <- MCHash
    Scenes <- MCFlagLost
SPECIFICATION Spec
INVARIANT FlagTrue
\* The command ends.
CHECK_DEADLOCK FALSE
