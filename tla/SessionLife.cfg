SPECIFICATION FairSpec
INVARIANTS TypeOK StaleOnlyKnown NoOrphan
PROPERTY DestroyEnds
CHECK_DEADLOCK FALSE
