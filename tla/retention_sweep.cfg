SPECIFICATION FairSpec
CONSTANTS
    Child = {1, 2}
    WriterTables <- OneOfEachKind
    MaxFailures = 1
INVARIANTS TypeOK AuditedRunLeavesNoOrphans
PROPERTIES SweepSparesStandingProfiles DeletedChildIsErasedUnlessObstructed
