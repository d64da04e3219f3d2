--------------------------- MODULE MCTransferBuild ---------------------------
(* A wallet with one output of each kind of address, for TLC. *)
EXTENDS TransferBuild, TLC

CONSTANTS k1, k2, k3, pkh, wpkh, sh, wsh, away, u1, u2, u3, s1, s2, s3, s4

MCAddressType == (pkh :> "P2PKH") @@ (wpkh :> "P2WPKH") @@ (sh :> "P2SH")
                    @@ (wsh :> "P2WSH") @@ (away :> "P2PKH")
\* k3 is not held: outputs of `away' cannot be signed for.
MCKeyOf == (pkh :> k1) @@ (wpkh :> k2) @@ (sh :> k1) @@ (wsh :> k2) @@ (away :> k3)

TwoOfThree == [m |-> 2, keys |-> <<k1, k3, k2>>, multisig |-> TRUE]
OneOfTwo == [m |-> 1, keys |-> <<k1, k2>>, multisig |-> TRUE]
TwoOfTwo == [m |-> 2, keys |-> <<k2, k3>>, multisig |-> TRUE]
NotMultisig == [m |-> 1, keys |-> <<k1>>, multisig |-> FALSE]

Coin(v, t, r) == [value |-> v, scriptType |-> t, redeemScript |-> r]

\* A segwit and a legacy key address, an output nobody can sign for; multisig
\* outputs with enough keys held, one too few, more than enough, and with a
\* redeem script that is not multisig.
MCOwner == (u1 :> wpkh) @@ (u2 :> pkh) @@ (u3 :> away)
             @@ (s1 :> wsh) @@ (s2 :> sh) @@ (s3 :> wsh) @@ (s4 :> sh)
MCRedeem == (u1 :> None) @@ (u2 :> None) @@ (u3 :> None) @@ (s1 :> TwoOfThree)
              @@ (s2 :> OneOfTwo) @@ (s3 :> TwoOfTwo) @@ (s4 :> NotMultisig)
MCInfo == (u1 :> Coin(3000, "P2WPKH", FALSE)) @@ (u2 :> Coin(2500, "UNKNOWN", FALSE))
            @@ (u3 :> Coin(4000, "P2PKH", FALSE)) @@ (s1 :> Coin(3000, "P2WSH", TRUE))
            @@ (s2 :> Coin(2500, "P2SH", TRUE)) @@ (s3 :> Coin(2600, "UNKNOWN", TRUE))
            @@ (s4 :> Coin(900, "P2SH", TRUE))

Auto(coins, r, v, c, rate, pays, other, signer) ==
    [auto |-> TRUE, coins |-> coins, recipient |-> r, value |-> v, change |-> c,
     changeValue |-> 0, feeRate |-> rate, senderPay |-> pays, other |-> other, signer |-> signer]
Manual(unspent, r, v, c, cv, other) ==
    [auto |-> FALSE, unspent |-> unspent, recipient |-> r, value |-> v, change |-> c,
     changeValue |-> cv, other |-> other, signer |-> "chain"]

KeyCoins == {u1, u2, u3}
ScriptCoins == {s1, s2, s3, s4}

AutoCall ==
    {Auto(KeyCoins, r, v, c, rate, pays, <<>>, "chain") :
        r \in {None, wsh}, v \in {600, 2400, 4500}, c \in {None, pkh}, rate \in {0, 4},
        pays \in BOOLEAN}
    \cup {Auto(KeyCoins, pkh, 2000, wpkh, 2, TRUE, <<80>>, signer) :
             signer \in {"chain", "empty"}}
    \cup {Auto(KeyCoins, Malformed, 2000, pkh, 2, TRUE, <<>>, "chain"),
          Auto(KeyCoins, pkh, 2000, Malformed, 2, TRUE, <<>>, "chain")}
ManualCall ==
    {Manual(unspent, r, 1000, c, cv, other) :
        unspent \in {<<>>, <<u1>>, <<u2>>, <<u2, u1>>, <<u2, u3>>}, r \in {None, pkh, wsh},
        c \in {None, wpkh}, cv \in {0, 700}, other \in {<<>>, <<20>>, <<20, 40>>}}
ScriptCall ==
    {Auto(ScriptCoins, r, v, c, 2, pays, <<>>, "chain") :
        r \in {pkh, sh}, v \in {1500, 5000, 6000}, c \in {None, wsh}, pays \in BOOLEAN}

MCCall == AutoCall \cup ManualCall \cup ScriptCall
=============================================================================
