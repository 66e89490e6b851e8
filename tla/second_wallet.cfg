SPECIFICATION Spec
CONSTANTS
    hub = hub
    wallet = wallet
    second = second
    bkash = bkash
    nagad = nagad
    sim1 = sim1
    sim2 = sim2
    sms = sms
    push = push
    trx = trx
    a = a
    b = b
    Devices = {hub, wallet, second}
    Wallets = {wallet, second}
    AccountOf <- TwoWallets
    NumberOf <- OneNumber
    Messages = {}
    About <- AllAboutIt
    TrxOf <- OnePayment
    NoTrx = NoTrx
    Filtered = {}
    Tasks = {a}
    NoTask = NoTask
    MaxLosses = 0
    MaxRotations = 0
    Operations = {"sim"}
INVARIANTS
    AddedNumberIsWatched
CHECK_DEADLOCK FALSE
