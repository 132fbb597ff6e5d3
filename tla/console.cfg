CONSTANTS
    root = root  dan = dan  ada = ada  eve = eve  b1 = b1  b2 = b2  None = None
    twoSum = twoSum  basic = basic
    FallbackQuestions <- MCFallback
    Emails = {root, dan, ada, eve}
    Browsers = {b1, b2}
    FirstRole <- MCFirstRole
    Starts <- MCStarts
    Questions = {q1, q2}
    Kinds = {easy, hard}
    Top = 1
    RefreshEvery = 2
    CacheTTL = 3
    MaxActs = 2
    MaxFaults = 1
    MaxTime = 3
    MaxCalls = 2
SPECIFICATION StoreSpec
INVARIANTS
    BrowserActsForPage
    SignInsAreSeparate
    NoOfferIsRefused
    PictureIsStored
    StoreInv
PROPERTIES
    OfferIsSound
    AccountsAreKept
    HistoryIsKept
SYMMETRY Alike
CHECK_DEADLOCK FALSE
