SPECIFICATION SSTableSpec
CONSTANTS
    Keys = {1, 2, 3, 4, 5}
    Entries <- MCEntries
    Hash <- MCHash
    WordsOf <- MCWords
    IndexInterval = 2
    MaxNumber = 99
    MaxTables = 2
INVARIANTS
    GetExact
    ScanExact
    MetaKept
CHECK_DEADLOCK FALSE
