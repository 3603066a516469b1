\* Inode numbers in three bits, one device; trees with up to three names of one
\* file, so that links come before, while and after the first is archived.
CONSTANTS
    INoMod = 8
    DevMod = 2
    Scenes <- MCScenes
SPECIFICATION Spec
INVARIANTS TypeOK ListedOnce LinksAreOfOneFile OneEntryPerFile InodesOutliveTasks
\* The command ends.
CHECK_DEADLOCK FALSE
