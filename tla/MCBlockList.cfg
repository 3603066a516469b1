\* Six indexes: three disjoint ranges, each wide enough to split or to shrink.
CONSTANT MaxIdx = 6
SPECIFICATION Spec
INVARIANTS TypeOK Normalized NeverCorrupted CountAgrees
PROPERTY ImplementsSet
\* A crash in Free is the end of the process.
CHECK_DEADLOCK FALSE
