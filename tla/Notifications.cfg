SPECIFICATION FairSpec
CONSTANTS
    otp1 = otp1
    bot1 = bot1
    day1 = day1
    day2 = day2
    order1 = order1
    userDay = userDay
    p1 = p1
    w1 = w1
    w2 = w2
    Calls <- MCCalls
    Kind <- MCKind
    Subject <- MCSubject
    Synthetic <- MCSynthetic
    Processes <- MCProcesses
    Workers <- MCWorkers
    ProcessOf <- MCProcessOf
    Keep <- MCKeep
    SmtpConfigured = FALSE
    MaxAttempts = 2
    MaxFaults = 1
INVARIANTS
    DuplicatesExplained
    ReportsAreTrue
    OneAccountPerStart
PROPERTIES
    EveryJobEnds
