SPECIFICATION Spec
CONSTANTS
    hub = hub
    wallet = wallet
    second = second
    bkash = bkash
    nagad = nagad
    sim1 = sim1
    sim2 = sim2
    sms = sms
    push = push
    trx = trx
    a = a
    b = b
    Devices = {wallet}
    Wallets = {wallet}
    AccountOf <- OneWallet
    NumberOf <- TwoNumbers
    Messages = {sms}
    About <- AllAboutIt
    TrxOf <- OnePayment
    NoTrx = NoTrx
    Filtered = {}
    Tasks = {a}
    NoTask = NoTask
    MaxLosses = 1
    MaxRotations = 1
    Operations = {"rotate"}
INVARIANTS
    RotationLocksNobodyOut
CHECK_DEADLOCK FALSE
