SPECIFICATION Spec
CONSTANTS
    hub = hub
    wallet = wallet
    second = second
    bkash = bkash
    nagad = nagad
    sim1 = sim1
    sim2 = sim2
    sms = sms
    push = push
    trx = trx
    a = a
    b = b
    Devices = {hub, wallet}
    Wallets = {wallet}
    AccountOf <- OneWallet
    NumberOf <- TwoNumbers
    Messages = {}
    About <- AllAboutIt
    TrxOf <- OnePayment
    NoTrx = NoTrx
    Filtered = {}
    Tasks = {a}
    NoTask = NoTask
    MaxLosses = 0
    MaxRotations = 1
    Operations = {"revoke", "sim", "stranger", "rotate"}
INVARIANTS
    ActiveIsHeld
PROPERTIES
    ImplementsCredential
CHECK_DEADLOCK FALSE
