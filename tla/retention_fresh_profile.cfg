SPECIFICATION Spec
CONSTANTS
    Child = {1, 2}
    WriterTables <- Conversations
    MaxFailures = 0
PROPERTIES SweepDeletesOnlyOrphans
