SPECIFICATION Spec
CONSTANTS
    k1 = k1
    k2 = k2
    k3 = k3
    pkh = pkh
    wpkh = wpkh
    sh = sh
    wsh = wsh
    away = away
    u1 = u1
    u2 = u2
    u3 = u3
    s1 = s1
    s2 = s2
    s3 = s3
    s4 = s4
    None = None
    Malformed = Malformed
    NoLimit = NoLimit
    Address = {pkh, wpkh, sh, wsh, away}
    AddressType <- MCAddressType
    Key = {k1, k2, k3}
    KeyOf <- MCKeyOf
    Held = {k1, k2}
    Utxo = {u1, u2, u3, s1, s2, s3, s4}
    Info <- MCInfo
    Owner <- MCOwner
    Redeem <- MCRedeem
    OtherScript = {20, 40, 80}
    Call <- MCCall
    dustRelayTxFee = 3000
    RedeemPush = 107
INVARIANTS
    SignsWhatItSends
    AutoBuildSpends
    AllSignedOrThrown
    Balanced
