SPECIFICATION MCSpec
CONSTANTS
    None = None
    kitchen = kitchen
    counter = counter
    Printers = {kitchen, counter}
    Untimed = {counter}
    Copies = {1, 2}
    KeepDone = 1
    KeepUnresolved = 1
    MaxJobs = 2
    MaxRetries = 1
    MaxTroubles = 2
    MaxRestores = 1
INVARIANTS OneLoopPerPrinter NoUnaskedCopy DoneWasSent InSavedOrder QueuedHasWorker
PROPERTIES QueuedIsTried StopEnds
