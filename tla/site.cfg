SPECIFICATION SiteSpec
CONSTANTS
    Parts = {"account", "balance", "bridge", "matching", "page", "requests",
             "setup", "submissions", "tenancy", "updater"}
    Sweeps = {"worker", "cron"}
    Movements <- MCMovements
    Ingests = {"ingest"}
    MaxClock = 5
    Happens = {}
    Polls = {"p", "q"}
    MaxTexts = 2
    PageLength = 2
    Wallets = {"bkash", "nagad"}
    Tabs = {"tab"}
    Phones = {"phone"}
    MaxTokens = 1
    MaxPolls = 1
    callOne = callOne
    callTwo = callTwo
    Calls = {callOne, callTwo}
    BodyOf <- MCBodyOf
    Codes = {1, 2, 3}
    NoCode = 0
    MaxNumbers = 2
    MaxWindows = 1
    Buyers = {"first", "second"}
    HourlyLimit = 2
    EscalateAfter = 3
    Reasons = {"overpaid"}
    MaxMisses = 4
    Downloads = {"x", "y"}
    MaxVersion = 3
    orderOne = orderOne
    orderTwo = orderTwo
    Orders = {orderOne, orderTwo}
    Receivers = {"r", "s"}
    Payers = {"ann"}
    Nobody = "nobody"
    NoCodeQuoted = 0
    Price <- MCPrice
    Sums = {0, 1, 2}
    MaxTime = 1
    Lifetime = 0
    Grace = 0
    RecencyWindow = 0
    ApproveThreshold = 100
    AmbiguityMargin = 60
    Visitors = {"u", "v", "w"}
    ShopNames <- MCShopNames
    DefaultSlug <- MCDefault
    Tries = 2
    Handsets = {"a", "b"}
    MaxElsewhere = 1
INVARIANTS
    SiteTypeOK
    DriftIsOffRoute
    OneAlertPerGap
    EveryPoishaIsAccounted
    SeenIsStored
    OneIntentPerKey
    OvershootIsBounded
    DecisionIsExact
    NamesAreRegisterable
    OneShop
PROPERTIES
    AlarmIsMissedMoney
    NumberIsNotSwapped
    AbsenceIsNoticed
    BridgeCatchesUp
    KeyIsAnswered
    ReleaseArrives
    SetupFinishes
CHECK_DEADLOCK FALSE
