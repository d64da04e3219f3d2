SPECIFICATION Spec
CONSTANTS
    u1 = u1
    u2 = u2
    u3 = u3
    Utxo = {u1, u2, u3}
    Info <- MCInfo
    Request <- MCRequest
    NoLimit = NoLimit
    RedeemPush = 107
INVARIANTS
    FundsMatch
    PaidInFull
PROPERTIES
    PromiseSpec
    Terminates
