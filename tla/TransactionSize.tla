--------------------------- MODULE TransactionSize ---------------------------
(***************************************************************************)
(* TransactionSizeCalculator and DustCalculator: the virtual size of a     *)
(* transaction from the types of the outputs it spends and creates, and    *)
(* the value below which an output is dust.                                *)
(*                                                                         *)
(* The sums of the code are written as "so many inputs of a type, times    *)
(* the size of one", which is the same number and needs no recursion.      *)
(***************************************************************************)
EXTENDS Integers, Sequences, FiniteSets

CONSTANT
    RedeemPush      \* bytes of the push of a P2SH redeem script

ASSUME RedeemPushAssumption == RedeemPush \in Nat

ScriptType == {"P2PKH", "P2PK", "P2SH", "P2WPKH", "P2WSH", "P2SHWPKH",
               "P2SHWSH", "NULL_DATA", "UNKNOWN"}

WitnessType == {"P2WPKH", "P2WSH", "P2SHWPKH", "P2SHWSH"}

\* The part of an UnspentOutput that the selector and the sizes depend on.
\* scriptType is a field of its own, not derived from the address.
UnspentOutput == [value : Nat, scriptType : ScriptType, redeemScript : BOOLEAN]

signatureLength == 72 + 1
pubKeyLength == 33 + 1
p2shwpkhLength == 22 + 1
legacyTx == 16 + 4 + 4 + 16
witnessTx == legacyTx + 1 + 1
witnessData == 1 + signatureLength + pubKeyLength
legacyWitnessData == 1

\* How many outputs of the list `outs' have a type in T.
Spending(outs, T) == Cardinality({i \in DOMAIN outs : outs[i].scriptType \in T})

RedeemingP2SH(outs) ==
    Cardinality({i \in DOMAIN outs : /\ outs[i].scriptType = "P2SH"
                                     /\ outs[i].redeemScript})

\* scriptSigLength of every input, summed
ScriptSigBytes(outs) ==
      signatureLength * Spending(outs, {"P2PK"})
    + (signatureLength + pubKeyLength) * Spending(outs, {"P2PKH"})
    + p2shwpkhLength * Spending(outs, {"P2SHWPKH", "P2SHWSH"})
    + (signatureLength + pubKeyLength + RedeemPush) * RedeemingP2SH(outs)

\* inputSize(output) of every input, summed
InputBytes(outs) == (32 + 4 + 1 + 4) * Len(outs) + ScriptSigBytes(outs)

WitnessWeight(outs) ==
      witnessData * Spending(outs, WitnessType)
    + legacyWitnessData * Spending(outs, ScriptType \ WitnessType)

\* The map literal names P2SHWPKH twice; the second entry, 33, wins.
lockingScriptSize(t) ==
    CASE t = "P2PK" -> 35
      [] t = "P2PKH" -> 25
      [] t = "P2SH" -> 23
      [] t = "P2WPKH" -> 22
      [] t = "P2WSH" -> 34
      [] t = "P2SHWPKH" -> 33
      [] OTHER -> 0

outputSize(t) == 8 + 1 + lockingScriptSize(t)

toBytes(weight) == (weight \div 4) + (IF weight % 4 = 0 THEN 0 ELSE 1)

\* The size of a transaction that spends `outs' and whose own outputs take
\* outputBytes bytes. The segwit overhead is counted for every input as soon
\* as one of them is a witness input.
transactionSize(outs, outputBytes) ==
    LET txIsWitness == Spending(outs, WitnessType) > 0
        txWeight == IF txIsWitness THEN witnessTx ELSE legacyTx
        inputWeight == 4 * InputBytes(outs)
                         + (IF txIsWitness THEN WitnessWeight(outs) ELSE 0)
    IN  toBytes(txWeight + inputWeight + 4 * outputBytes)

inputSize(t) ==
    32 + 4 + 1 + 4 + (CASE t = "P2PKH" -> signatureLength + pubKeyLength
                        [] t = "P2PK" -> signatureLength
                        [] t = "P2SHWPKH" -> p2shwpkhLength
                        [] t = "P2SHWSH" -> 34 + 1
                        [] OTHER -> 0)

\* DustCalculator.dust with minFeeRate = dustRelayTxFee / 1000
dust(t, dustRelayTxFee) ==
    LET spend == IF t \in WitnessType
                 THEN inputSize("P2WPKH") + witnessData \div 4
                 ELSE inputSize("P2PKH")
    IN  (outputSize(t) + spend) * (dustRelayTxFee \div 1000)
=============================================================================
