SPECIFICATION Spec
CONSTANTS
    i1 = i1
    i2 = i2
    p1 = p1
    p2 = p2
    bkash = bkash
    nagad = nagad
    Intents = {i1, i2}
    Payments = {p1, p2}
    Accounts = {bkash}
    s1 = s1
    s2 = s2
    Sessions = {s1, s2}
    NoIntent = NoIntent
    NoNumber = NoNumber
    Asked <- MCAsked
    Paid <- MCPaid
    Quoted <- MCQuoted
    Sender <- MCSender
    Declared <- MCDeclared
    LandedOn <- MCLandedOn
    MaxAttempts = 1
    MaxCrashes = 0
    Operations = {"match", "approve", "reverse", "extend", "cancel"}
INVARIANTS
    OpenCodeIsUnpaid
PROPERTIES
    SpentAndRetractedOnce
SYMMETRY Symmetry
CHECK_DEADLOCK FALSE
