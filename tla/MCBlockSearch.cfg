\* Eight indexes: lists of up to four ranges, so every shape of the recursion
\* three levels deep.
CONSTANTS
    MaxIdx = 7
    Lists <- MCLists
    Indexes <- MCIndexes
SPECIFICATION Spec
INVARIANT SearchCorrect
PROPERTY Terminates
\* The call returns.
CHECK_DEADLOCK FALSE
