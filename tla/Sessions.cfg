SPECIFICATION FairSpec
CONSTANTS
    u1 = u1
    b1 = b1
    b2 = b2
    web = web
    q1 = q1
    q2 = q2
    q3 = q3
    Users <- MCUsers
    Clients <- MCClients
    UserOf <- MCUserOf
    Bots <- MCBots
    Ticks <- MCTicks
    BotOf <- MCBotOf
    TokenIds = {t1, t2, t3, t4, t5}
    RefreshTtl = 3
    MaxRetries = 1
    Pauses = {2, 3}
    MaxClock = 4
    MaxLogins = 2
    MaxFaults = 2
CHECK_DEADLOCK FALSE
INVARIANTS
    OneActivePerLogin
    SessionsBreakOnlyByReuse
PROPERTIES
    ReuseRevokesAll
    EveryRefreshEnds
