SPECIFICATION FairSpec
CONSTANTS
    Child = {1}
    WriterTables <- Stories
    MaxFailures = 0
PROPERTIES PartialDeletionIsFinished
