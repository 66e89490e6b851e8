SPECIFICATION FairSpec
CONSTANTS
    i1 = i1
    i2 = i2
    p1 = p1
    p2 = p2
    bkash = bkash
    nagad = nagad
    Intents = {i1}
    Payments = {p1, p2}
    Accounts = {bkash}
    s1 = s1
    s2 = s2
    Sessions = {s1, s2}
    NoIntent = NoIntent
    NoNumber = NoNumber
    Asked <- MCAsked
    Paid <- MCPaid
    Quoted <- MCQuoted
    Sender <- MCSender
    Declared <- MCDeclared
    LandedOn <- MCLandedOn
    MaxAttempts = 2
    MaxCrashes = 1
    Operations = {"match", "submit", "approve", "cancel", "expire", "restore"}
INVARIANTS
    ToldTheTruth
PROPERTIES
    ImplementsLedger
    ClaimableIsApplied
    OverdueCloses
CHECK_DEADLOCK FALSE
