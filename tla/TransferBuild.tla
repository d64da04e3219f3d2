---------------------------- MODULE TransferBuild ----------------------------
(***************************************************************************)
(* TransactionBuilder.build and what it calls: the setters fill a          *)
(* MutableTransaction, UnspentOutputSelector chooses the inputs, the       *)
(* signers sign them one after the other, MutableTransaction.build makes    *)
(* the Transaction. The selector is the module UtxoSelector, running step  *)
(* by step while the builder waits for it.                                 *)
(*                                                                         *)
(* Hashing and signing are symbolic: a signature is its key and the data   *)
(* it commits to. IPrivateKeyPairProvider is external: it finds the key of *)
(* an address or a public key if the wallet holds it.                      *)
(***************************************************************************)
EXTENDS TransactionSize, SequencesExt

CONSTANTS
    Address,        \* addresses that convert from their string
    Malformed,      \* a string that is not an address
    None,           \* null
    AddressType,    \* AddressType[a], what Address.scriptType answers
    Key,            \* public keys
    KeyOf,          \* KeyOf[a], the key whose hash is in a key address
    Held,           \* keys the provider finds a private key for
    Utxo, Info,     \* the wallet, as in UtxoSelector
    Owner,          \* Owner[u], UnspentOutput.address
    Redeem,         \* Redeem[u], UnspentOutput.redeemScript
    NoLimit,        \* as in UtxoSelector
    dustRelayTxFee, \* of the network
    OtherScript,    \* scripts of the outputs that pay nobody
    Call            \* the argument lists build is called with; `coins' are the
                    \* outputs the provider knows of at the time of the call

\* OP_M <keys> OP_N OP_CHECKMULTISIG when `multisig', any other script if not
RedeemScript == [m : 1..16, keys : Seq(Key), multisig : BOOLEAN]

ASSUME WalletAssumption ==
    /\ IsFiniteSet(Utxo) /\ Info \in [Utxo -> UnspentOutput]
    /\ NoLimit \notin Nat /\ dustRelayTxFee \in Nat
    /\ AddressType \in [Address -> {"P2PKH", "P2SH", "P2WPKH", "P2WSH"}]
    /\ KeyOf \in [Address -> Key] /\ Held \subseteq Key
    /\ Owner \in [Utxo -> Address]
    /\ \A u \in Utxo : /\ Redeem[u] \in RedeemScript \cup {None}
                       /\ Info[u].redeemScript = (Redeem[u] # None)

\* The automatic overload is not given a change value, the other one is given
\* the outputs to spend.
ASSUME CallAssumption == \A c \in Call :
    /\ c.auto \in BOOLEAN /\ c.signer \in {"chain", "empty"}
    /\ c.recipient \in Address \cup {None, Malformed} /\ c.value \in Int
    /\ c.change \in Address \cup {None, Malformed} /\ c.changeValue \in Int
    /\ c.other \in Seq(OtherScript)
    /\ c.auto => /\ c.coins \subseteq Utxo /\ c.feeRate \in Nat
                 /\ c.senderPay \in BOOLEAN /\ c.changeValue = 0
    /\ ~c.auto => c.unspent \in Seq(Utxo)

\* What the builder may ask of its selector, which has no limit
Request == [amount : Int, feeRate : Nat, receiveType : ScriptType,
            changeType : ScriptType, senderPay : BOOLEAN, dust : Nat,
            limit : {NoLimit}]

VARIABLES
    pc, req, unseen, page, selected, total, recipient, sent, outcome,  \* the selector
    stage,      \* the component the builder runs next
    call,       \* the arguments of build
    tx,         \* mutableBTCTransaction
    signed,     \* inputs TransactionSigner is done with
    result      \* what build returned or threw

selectorVars == <<pc, req, unseen, page, selected, total, recipient, sent, outcome>>
builderVars == <<stage, call, tx, signed, result>>
vars == <<selectorVars, builderVars>>

Selector == INSTANCE UtxoSelector

Pending == [kind |-> "pending"]
Thrown(e) == [kind |-> "thrown", error |-> e]
Returned(t) == [kind |-> "transaction", transaction |-> t]

-----------------------------------------------------------------------------
\* MutableTransaction, InputToSign, TransactionOutput. An outpoint (txId and
\* index) is the wallet's name for the output.
NewTransaction ==
    [recipientAddress |-> None, recipientValue |-> 0, changeAddress |-> None,
     changeValue |-> 0, inputsToSign |-> <<>>, outputs |-> <<>>, segwit |-> FALSE]

\* What unlocks an input: signatures, then the public key or redeem script.
NoData == [signatures |-> <<>>, reveals |-> None]

InputToSign(u, type) ==
    [outpoint |-> u, address |-> Owner[u], value |-> Info[u].value,
     redeemScript |-> Redeem[u], scriptPubKeyType |-> type,
     isWitness |-> type \in WitnessType, sigScript |-> NoData, witness |-> NoData]

TransactionOutput(a, v) == [address |-> a, value |-> v, pluginScript |-> None]
PluginOutput(s) == [address |-> None, value |-> 0, pluginScript |-> s]

\* OutputSerializer.serialize, and what MutableTransaction.build makes of it
Serialized(o) ==
    IF o.address = None THEN [value |-> 0, script |-> [of |-> "plugin", at |-> o.pluginScript]]
                        ELSE [value |-> o.value, script |-> [of |-> "address", at |-> o.address]]

\* serializeForSignature with SigHash.ALL: what a signature commits to.
Digest(t, i, script, isWitness) ==
    [inputs |-> [j \in DOMAIN t.inputsToSign |-> t.inputsToSign[j].outpoint],
     outputs |-> [j \in DOMAIN t.outputs |-> Serialized(t.outputs[j])],
     index |-> i, script |-> script, isWitness |-> isWitness,
     value |-> IF isWitness THEN t.inputsToSign[i].value ELSE None]

-----------------------------------------------------------------------------
(***************************************************************************)
(* The signers. A signer that throws answers None; the chain takes the     *)
(* first that does not.                                                    *)
(***************************************************************************)
Sign(k, digest) == [key |-> k, digest |-> digest]
ScriptData(sigScript, witness) == [sigScript |-> sigScript, witness |-> witness]

findByAddress(a) == IF KeyOf[a] \in Held THEN KeyOf[a] ELSE None

P2PKHInputSigner(t, i) ==
    LET input == t.inputsToSign[i]
        key == findByAddress(input.address)
        digest == Digest(t, i, [of |-> "address", at |-> input.address], input.isWitness)
    IN  IF input.scriptPubKeyType # "P2PKH" \/ key = None THEN None
        ELSE ScriptData([signatures |-> <<Sign(key, digest)>>, reveals |-> key], NoData)

P2WPKHInputSigner(t, i) ==
    LET input == t.inputsToSign[i]
        key == findByAddress(input.address)
        digest == Digest(t, i, [of |-> "keyHash", at |-> key], input.isWitness)
    IN  IF input.scriptPubKeyType # "P2WPKH" \/ key = None THEN None
        ELSE ScriptData(NoData, [signatures |-> <<Sign(key, digest)>>, reveals |-> key])

\* The first m keys of the script that are held, in the script's order.
HeldAt(script) == {i \in DOMAIN script.keys : script.keys[i] \in Held}
Place(H, j) == CHOOSE i \in H : Cardinality({h \in H : h <= i}) = j
SigningKeys(script) ==
    LET held == HeldAt(script)
        n == IF Cardinality(held) > script.m THEN script.m ELSE Cardinality(held)
    IN  [j \in 1..n |-> script.keys[Place(held, j)]]

\* P2SHMultiInputSigner and P2WSHMultiInputSigner up to where the data goes
MultiSignature(t, i) ==
    LET input == t.inputsToSign[i]
        script == input.redeemScript
        digest == Digest(t, i, [of |-> "redeem", at |-> script], input.isWitness)
    IN  IF script = None THEN None
        ELSE IF ~script.multisig \/ SigningKeys(script) = <<>> THEN None
        ELSE [signatures |-> [j \in DOMAIN SigningKeys(script) |->
                                Sign(SigningKeys(script)[j], digest)],
              reveals |-> script]

P2SHMultiInputSigner(t, i) ==
    IF t.inputsToSign[i].scriptPubKeyType # "P2SH" \/ MultiSignature(t, i) = None
    THEN None ELSE ScriptData(MultiSignature(t, i), NoData)

P2WSHMultiInputSigner(t, i) ==
    IF t.inputsToSign[i].scriptPubKeyType # "P2WSH" \/ MultiSignature(t, i) = None
    THEN None ELSE ScriptData(NoData, MultiSignature(t, i))

mInputSigners(t, i) == <<P2PKHInputSigner(t, i), P2SHMultiInputSigner(t, i),
                         P2WPKHInputSigner(t, i), P2WSHMultiInputSigner(t, i)>>

Answering(t, i) == {k \in 1..4 : mInputSigners(t, i)[k] # None}
UnsignedInput(t, i) ==              \* mutant: a refused input is left unsigned
    IF Answering(t, i) = {} THEN ScriptData(NoData, NoData)
    ELSE mInputSigners(t, i)[Min(Answering(t, i))]
sigScriptData(t, i) ==
    IF Answering(t, i) = {} THEN None ELSE mInputSigners(t, i)[Min(Answering(t, i))]

-----------------------------------------------------------------------------
(***************************************************************************)
(* The builder. Following names the order of its calls, which differs      *)
(* between the two overloads of build.                                     *)
(***************************************************************************)
SignsBeforeOutputs(s) ==            \* mutant: signed before the outputs are set
    CASE s = "recipient" -> "change"
      [] s = "change" -> "inputs"
      [] s = "inputs" -> "sign"
      [] s = "sign" -> "outputs"
      [] s = "outputs" -> "build"
Following(s) ==
    CASE s = "recipient" -> "change"
      [] s = "change" -> IF call.auto THEN "inputs" ELSE "outputs"
      [] s = "inputs" -> IF call.auto THEN "outputs" ELSE "sign"
      [] s = "outputs" -> IF call.auto THEN "sign" ELSE "inputs"
      [] s = "sign" -> "build"

\* No call of build or select has been made.
Init ==
    /\ pc = "idle" /\ req = None /\ unseen = {} /\ page = <<>> /\ selected = <<>>
    /\ total = 0 /\ recipient = 0 /\ sent = 0 /\ outcome = Selector!Pending
    /\ stage = "idle"
    /\ call = None
    /\ tx = NewTransaction
    /\ signed = 0
    /\ result = Pending

Continue(t) ==
    /\ tx' = t
    /\ stage' = Following(stage)
    /\ UNCHANGED <<call, signed, result>>

Throw(e) ==
    /\ stage' = "done"
    /\ result' = Thrown(e)
    /\ UNCHANGED <<call, tx, signed>>

Build ==
    /\ stage = "idle"
    /\ stage' = "recipient"
    /\ call' \in Call
    /\ UNCHANGED <<selectorVars, tx, signed, result>>

SetRecipient ==
    /\ stage = "recipient"
    /\ CASE call.recipient = None -> Continue(tx)
         [] call.recipient = Malformed -> Throw("AddressFormat")
         [] OTHER -> Continue([tx EXCEPT !.recipientAddress = call.recipient,
                                         !.recipientValue = call.value])
    /\ UNCHANGED selectorVars

SetChange ==
    /\ stage = "change"
    /\ CASE call.change = None -> Continue(tx)
         [] call.change = Malformed -> Throw("AddressFormat")
         [] OTHER -> Continue([tx EXCEPT !.changeAddress = call.change,
                                         !.changeValue = call.changeValue])
    /\ UNCHANGED selectorVars

scriptType(a) == IF a = None THEN "UNKNOWN" ELSE AddressType[a]

\* InputSetter.setInputs(transaction, unspentOutputWiths): the type of the
\* input stays at its default, P2PKH.
SetManualInputs ==
    /\ stage = "inputs"
    /\ ~call.auto
    /\ Continue([tx EXCEPT !.inputsToSign =
                    [i \in DOMAIN call.unspent |-> InputToSign(call.unspent[i], "P2PKH")]])
    /\ UNCHANGED selectorVars

\* InputSetter.setInputs(transaction, feeRate, senderPay), up to the call of
\* select, while select runs, and from its return.
CallSelect ==
    /\ stage = "inputs"
    /\ call.auto
    /\ pc' = "idle"
    /\ req' = [amount |-> tx.recipientValue, feeRate |-> call.feeRate,
               receiveType |-> scriptType(tx.recipientAddress),
               changeType |-> scriptType(tx.changeAddress),
               senderPay |-> call.senderPay, dust |-> dust("P2PKH", dustRelayTxFee),
               limit |-> NoLimit]
    /\ unseen' = call.coins
    /\ page' = <<>> /\ selected' = <<>> /\ total' = 0
    /\ recipient' = 0 /\ sent' = 0
    /\ outcome' = Selector!Pending
    /\ stage' = "select"
    /\ UNCHANGED <<call, tx, signed, result>>

Selecting ==
    /\ stage = "select"
    /\ Selector!Step
    /\ UNCHANGED builderVars

KeepsOldValue(t, o) ==              \* mutant: the requested value is not replaced
    IF o.kind = "change" THEN [t EXCEPT !.changeValue = o.changeValue] ELSE t
Amounts(t, o) ==
    IF o.kind = "change"
    THEN [t EXCEPT !.recipientValue = o.recipientValue, !.changeValue = o.changeValue]
    ELSE [t EXCEPT !.recipientValue = o.recipientValue]

SetSelectedInputs ==
    /\ stage = "select"
    /\ pc = "done"
    /\ IF outcome.kind = "thrown"
       THEN Throw(outcome.error)
       ELSE /\ tx' = [Amounts(tx, outcome) EXCEPT !.inputsToSign =
                        [i \in DOMAIN outcome.outputs |->
                           InputToSign(outcome.outputs[i], scriptType(Owner[outcome.outputs[i]]))]]
            /\ stage' = Following("inputs")
            /\ UNCHANGED <<call, signed, result>>
    /\ UNCHANGED selectorVars

SetOutputs ==
    /\ stage = "outputs"
    /\ Continue([tx EXCEPT !.outputs =
            (IF tx.recipientAddress = None THEN <<>>
             ELSE <<TransactionOutput(tx.recipientAddress, tx.recipientValue)>>)
         \o (IF tx.changeAddress = None THEN <<>>
             ELSE <<TransactionOutput(tx.changeAddress, tx.changeValue)>>)
         \o [i \in DOMAIN call.other |-> PluginOutput(call.other[i])]])
    /\ UNCHANGED selectorVars

\* One round of TransactionSigner's loop.
SignInput ==
    /\ stage = "sign"
    /\ call.signer = "chain"
    /\ signed < Len(tx.inputsToSign)
    /\ LET i == signed + 1
           data == sigScriptData(tx, i)
       IN  IF data = None THEN Throw("InputSign")
           ELSE /\ tx' = IF tx.inputsToSign[i].scriptPubKeyType \in WitnessType
                         THEN [tx EXCEPT !.segwit = TRUE,
                                         !.inputsToSign[i].witness = data.witness]
                         ELSE [tx EXCEPT !.inputsToSign[i].sigScript = data.sigScript]
                /\ signed' = i
                /\ UNCHANGED <<stage, call, result>>
    /\ UNCHANGED selectorVars

\* EmptyTransactionSigner, or the end of the loop
Signed ==
    /\ stage = "sign"
    /\ call.signer = "empty" \/ signed = Len(tx.inputsToSign)
    /\ Continue(tx)
    /\ UNCHANGED selectorVars

LastIsSegwit(t) ==                  \* mutant: set by every input, not only to true
    t.inputsToSign # <<>> /\ Last(t.inputsToSign).isWitness
CarriesWitness(t) == t.segwit

MakeTransaction ==
    /\ stage = "build"
    /\ stage' = "done"
    /\ result' = Returned(
            [inputs |-> [i \in DOMAIN tx.inputsToSign |->
                LET input == tx.inputsToSign[i]
                IN  [outpoint |-> input.outpoint, sigScript |-> input.sigScript,
                     witness |-> IF CarriesWitness(tx) THEN input.witness ELSE NoData]],
             outputs |-> [i \in DOMAIN tx.outputs |-> Serialized(tx.outputs[i])]])
    /\ UNCHANGED <<selectorVars, call, tx, signed>>

\* The next call of build makes a MutableTransaction of its own.
BuildAgain ==
    /\ stage = "done"
    /\ pc' = "idle" /\ req' = None /\ unseen' = {} /\ page' = <<>> /\ selected' = <<>>
    /\ total' = 0 /\ recipient' = 0 /\ sent' = 0 /\ outcome' = Selector!Pending
    /\ stage' = "idle" /\ call' = None /\ tx' = NewTransaction /\ signed' = 0
    /\ result' = Pending

Next == \/ Build \/ SetRecipient \/ SetChange \/ SetManualInputs
        \/ CallSelect \/ Selecting \/ SetSelectedInputs
        \/ SetOutputs \/ SignInput \/ Signed \/ MakeTransaction \/ BuildAgain

Spec == Init /\ [][Next]_vars

-----------------------------------------------------------------------------
Built == result.kind = "transaction"
Inputs == result.transaction.inputs
InputsWorth == SumFunction([i \in DOMAIN Inputs |-> Info[Inputs[i].outpoint].value])
OutputsWorth == SumFunction([i \in DOMAIN result.transaction.outputs |->
                                result.transaction.outputs[i].value])
SignaturesOf(input) == input.sigScript.signatures \o input.witness.signatures

\* Every signature of a returned transaction commits to the inputs and
\* outputs that are returned, and to the place of its own input: nothing was
\* added, dropped or changed after an input was signed.
SignsWhatItSends ==
    Built => \A i \in DOMAIN Inputs : \A j \in DOMAIN SignaturesOf(Inputs[i]) :
        LET digest == SignaturesOf(Inputs[i])[j].digest
        IN  /\ digest.inputs = [k \in DOMAIN Inputs |-> Inputs[k].outpoint]
            /\ digest.outputs = result.transaction.outputs
            /\ digest.index = i

\* What the network asks before it lets an input spend an output of `a',
\* given the wallet's redeem script for it.
Unlocks(input, i, a, script) ==
    LET witness == AddressType[a] \in WitnessType
        data == IF witness THEN input.witness ELSE input.sigScript
        Commits(of) == \A j \in DOMAIN data.signatures :
            LET digest == data.signatures[j].digest
            IN  /\ digest.isWitness = witness
                /\ witness => digest.value = Info[input.outpoint].value
                /\ digest.script = of /\ digest.index = i
    IN  /\ (IF witness THEN input.sigScript ELSE input.witness) = NoData
        /\ IF AddressType[a] \in {"P2PKH", "P2WPKH"}
           THEN /\ data.reveals = KeyOf[a]
                /\ Len(data.signatures) = 1 /\ data.signatures[1].key = KeyOf[a]
                /\ Commits(IF witness THEN [of |-> "keyHash", at |-> KeyOf[a]]
                                      ELSE [of |-> "address", at |-> a])
           ELSE /\ data.reveals = script
                /\ Len(data.signatures) = script.m
                /\ \E at \in [1..script.m -> DOMAIN script.keys] :
                    \A j \in 1..script.m :
                        /\ data.signatures[j].key = script.keys[at[j]]
                        /\ j > 1 => at[j - 1] < at[j]
                /\ Commits([of |-> "redeem", at |-> script])

EnoughKeys(u) ==
    Redeem[u] # None => Cardinality({i \in DOMAIN Redeem[u].keys : Redeem[u].keys[i] \in Held})
                            >= Redeem[u].m

\* A transaction of the automatic overload, signed with enough keys, spends:
\* each input carries the signatures its owner's script asks for, where that
\* script looks for them, whatever the mix and order of the input types.
AutoBuildSpends ==
    (Built /\ call.auto /\ call.signer = "chain") =>
        \A i \in DOMAIN Inputs :
            LET u == Inputs[i].outpoint
            IN  EnoughKeys(u) => Unlocks(Inputs[i], i, Owner[u], Redeem[u])

\* All or nothing: TransactionSigner returns no transaction in which an input
\* it could not sign was passed over.
AllSignedOrThrown ==
    (Built /\ call.signer = "chain") =>
        \A i \in DOMAIN Inputs : SignaturesOf(Inputs[i]) # <<>>

\* The automatic overload neither creates money nor gives away more than it
\* says: the inputs cover the outputs and select's fee, which is for the inputs
\* and the recipient; with a change output on an address, to the unit; and the
\* recipient gets the amount, less the fee when it is taken from the amount.
\* The fee does not grow with the data outputs: DataIsPaidFor.
Balanced ==
    (Built /\ call.auto) =>
        LET spent == [i \in DOMAIN Inputs |-> Info[Inputs[i].outpoint]]
            recipientSize == outputSize(scriptType(tx.recipientAddress))
            fee == transactionSize(spent, recipientSize) * call.feeRate
            feeWithChange == transactionSize(spent, recipientSize
                                + outputSize(scriptType(tx.changeAddress))) * call.feeRate
            bears(f) == IF call.senderPay THEN call.value ELSE call.value - f
        IN  /\ InputsWorth >= OutputsWorth + fee
            /\ outcome.kind = "change" /\ tx.changeAddress # None =>
                    InputsWorth = OutputsWorth + feeWithChange
            /\ result.transaction.outputs[1].value
                    = bears(IF outcome.kind = "change" THEN feeWithChange ELSE fee)

\* Line 87 of TransactionBuilder says that with data outputs such as OP_RETURN
\* the size of the transaction is another: what the inputs leave over pays, at
\* the rate asked for, for a transaction with their scripts in it.
DataIsPaidFor ==
    (Built /\ call.auto) =>
        LET spent == [i \in DOMAIN Inputs |-> Info[Inputs[i].outpoint]]
            dataSize == IF call.other = <<>> THEN 0 ELSE 8 + 1 + SumFunction(call.other)
        IN  InputsWorth - OutputsWorth >=
                transactionSize(spent, outputSize(scriptType(tx.recipientAddress)) + dataSize)
                    * call.feeRate
=============================================================================
