\* Lists of up to five lines, files of up to four chunks.
CONSTANTS
    Scenes <- MCScenes
SPECIFICATION Spec
INVARIANTS TypeOK WrittenInOrder NoDeletedLock HardLinksRestored TimesRestored NeverFails
PROPERTY ExtractionEnds
\* The command ends.
CHECK_DEADLOCK FALSE
