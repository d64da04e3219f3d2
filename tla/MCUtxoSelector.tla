--------------------------- MODULE MCUtxoSelector ---------------------------
(* Small wallets and the calls made on them, for TLC. *)
EXTENDS UtxoSelector, TLC

CONSTANTS u1, u2, u3

Coin(v, t, r) == [value |-> v, scriptType |-> t, redeemScript |-> r]

\* A legacy, a segwit and an untyped output (UNKNOWN is the default type of
\* an UnspentOutput); u2 is worth less than the fee it adds at rate 10.
MCInfo == (u1 :> Coin(3000, "P2PKH", FALSE)) @@ (u2 :> Coin(700, "P2WPKH", FALSE))
            @@ (u3 :> Coin(2200, "P2SH", TRUE))

Ask(amount, rate, receive, change, pays, limit) ==
    [amount |-> amount, feeRate |-> rate, receiveType |-> receive,
     changeType |-> change, senderPay |-> pays, dust |-> dust("P2PKH", 3000),
     limit |-> limit]

MCRequest ==
    {Ask(amount, rate, receive, "P2PKH", pays, limit) :
        amount \in {546, 547, 700, 2200, 3000, 4400, 5900}, rate \in {1, 5, 10},
        receive \in {"P2PKH", "P2WSH"}, pays \in BOOLEAN, limit \in {NoLimit, 2}}
=============================================================================
