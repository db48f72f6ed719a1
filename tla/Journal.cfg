SPECIFICATION Spec
CONSTANTS
  JournalSectors = 2
  EntriesPerSector = 2
  MaxTx = 6
INVARIANTS TypeOK CommitFindsOwnEntry PendingIsRecent
PROPERTY CommitsStay
