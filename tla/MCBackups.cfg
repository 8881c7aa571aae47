SPECIFICATION MCSpec
CONSTANTS
    None = None
    Torn = Torn
    Blank = Blank
    NoAccount = NoAccount
    mon = mon
    tue = tue
    a = a
    b = b
    Snapshots = {mon, tue}
    Unreadable = {mon}
    Accounts = {a, b}
    Disconnects = {1, 2}
    MaxRestores = 1
    MaxCrashes = 1
    MaxRest = 2
    MaxRetryAsks = 1
INVARIANTS NothingLost ServesWhatWasPromised OneDatabasePerGeneration UploadsOwnAccount
PROPERTIES RestoreFinishes HealthyIsUploaded
