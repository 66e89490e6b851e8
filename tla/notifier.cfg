SPECIFICATION FairSpec
CONSTANTS
    hub = hub
    wallet = wallet
    second = second
    bkash = bkash
    nagad = nagad
    sim1 = sim1
    sim2 = sim2
    sms = sms
    push = push
    trx = trx
    a = a
    b = b
    Devices = {wallet}
    Wallets = {wallet}
    AccountOf <- OneWallet
    NumberOf <- TwoNumbers
    Messages = {sms, push}
    About <- AllAboutIt
    TrxOf <- OnePayment
    NoTrx = NoTrx
    Filtered = {push}
    Tasks = {a}
    NoTask = NoTask
    MaxLosses = 1
    MaxRotations = 0
    Operations = {"revoke", "switch", "command", "leave"}
INVARIANTS
    AcknowledgedIsStored
    LatchedIsGone
PROPERTIES
    NothingSlips
    ApprovalArrives
    RevokedStops
    PauseIsReported
CHECK_DEADLOCK FALSE
