CONSTANTS
  Realms = {"r1", "r2"}
  Users = {"u1"}
  Owner <- MCOwner
  MaxWrites = 3
  MaxCopies = 2
  MaxFaults = 2
SPECIFICATION FairSpec
INVARIANT TypeOK
INVARIANT EveryDirectoryHasAnAccount
PROPERTY ErasedOnlyAfterBackup
PROPERTY RecoveryFilesAreKept
PROPERTY RowsOutliveTheirRealms
PROPERTY FileActionsHappen
