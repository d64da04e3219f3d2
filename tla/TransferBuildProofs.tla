------------------------ MODULE TransferBuildProofs ------------------------
(***************************************************************************)
(* Proofs about TransferBuild, for every wallet, key holding, call and     *)
(* choice of pages. What the automatic overload sends is balanced because  *)
(* of what the selector leaves behind, which is proved of the selector and *)
(* used here through an instance of its proofs.                            *)
(***************************************************************************)
EXTENDS TransferBuild, Functions, FiniteSetTheorems, SequenceTheorems, TLAPS

Select == INSTANCE UtxoSelectorProofs

\* A non-empty set of natural numbers has a least one.
LEMMA LeastNumber ==
    ASSUME NEW B, B \subseteq Nat, B # {}
    PROVE  \E n \in B : \A m \in B : n <= m
<1>1. PICK n \in B : \A m \in B : <<m, n>> \notin OpToRel(<, Nat)
  BY NatLessThanWellFounded, WFMin
<1>2. \A m \in B : ~(m < n)
  BY <1>1 DEF OpToRel
<1> QED
  BY <1>2

-----------------------------------------------------------------------------
(***************************************************************************)
(* The selector inside the builder is the one the proofs are about.        *)
(***************************************************************************)
LEMMA SameSizes ==
    /\ \A outs, n : Selector!transactionSize(outs, n) = transactionSize(outs, n)
    /\ \A outs, n : Select!transactionSize(outs, n) = transactionSize(outs, n)
    /\ \A t : Selector!outputSize(t) = outputSize(t)
    /\ \A t : Select!outputSize(t) = outputSize(t)
<1>1. \A outs, n : Selector!transactionSize(outs, n) = transactionSize(outs, n)
  BY DEF Spending, Selector!Spending, RedeemingP2SH, Selector!RedeemingP2SH, ScriptSigBytes,
           Selector!ScriptSigBytes, InputBytes, Selector!InputBytes, WitnessWeight,
           Selector!WitnessWeight, signatureLength, Selector!signatureLength, pubKeyLength,
           Selector!pubKeyLength, p2shwpkhLength, Selector!p2shwpkhLength, legacyTx,
           Selector!legacyTx, witnessTx, Selector!witnessTx, witnessData, Selector!witnessData,
           legacyWitnessData, Selector!legacyWitnessData, ScriptType, Selector!ScriptType,
           WitnessType, Selector!WitnessType, toBytes, Selector!toBytes, transactionSize,
           Selector!transactionSize, Cardinality, Selector!Cardinality
<1>2. \A outs, n : Select!transactionSize(outs, n) = transactionSize(outs, n)
  BY DEF Spending, Select!Spending, RedeemingP2SH, Select!RedeemingP2SH, ScriptSigBytes,
           Select!ScriptSigBytes, InputBytes, Select!InputBytes, WitnessWeight,
           Select!WitnessWeight, signatureLength, Select!signatureLength, pubKeyLength,
           Select!pubKeyLength, p2shwpkhLength, Select!p2shwpkhLength, legacyTx,
           Select!legacyTx, witnessTx, Select!witnessTx, witnessData, Select!witnessData,
           legacyWitnessData, Select!legacyWitnessData, ScriptType, Select!ScriptType,
           WitnessType, Select!WitnessType, toBytes, Select!toBytes, transactionSize,
           Select!transactionSize, Cardinality, Select!Cardinality
<1>3. /\ \A t : Selector!outputSize(t) = outputSize(t)
      /\ \A t : Select!outputSize(t) = outputSize(t)
  BY DEF outputSize, Select!outputSize, Selector!outputSize, lockingScriptSize,
           Select!lockingScriptSize, Selector!lockingScriptSize
<1> QED
  BY <1>1, <1>2, <1>3

LEMMA SameFees ==
    /\ \A s : Selector!feeAmount(s) = Select!feeAmount(s)
    /\ \A s : Selector!changeOutputHavingTransactionFee(s)
                = Select!changeOutputHavingTransactionFee(s)
  BY SameSizes DEF Select!feeAmount, Selector!feeAmount,
           Select!changeOutputHavingTransactionFee, Selector!changeOutputHavingTransactionFee,
           Select!Outputs, Selector!Outputs

LEMMA SameSteps == Selector!Step => Select!Step
<1> SUFFICES ASSUME Selector!Step PROVE Select!Step
  OBVIOUS
<1>1. CASE Selector!SelectDust \/ Selector!Select
  BY <1>1 DEF Select!SelectDust, Selector!SelectDust, Select!Select, Selector!Select,
           Select!Finish, Selector!Finish, Select!Thrown, Selector!Thrown, Select!Step
<1>2. CASE Selector!nextUtxoList
  BY <1>2 DEF Select!nextUtxoList, Selector!nextUtxoList, Select!Pages, Selector!Pages,
           Select!Cardinality, Selector!Cardinality, Select!Step
<1>3. CASE Selector!nextUtxoListEmpty \/ Selector!EndOfPage
  BY <1>3 DEF Select!nextUtxoListEmpty, Selector!nextUtxoListEmpty, Select!EndOfPage,
           Selector!EndOfPage, Select!Step
<1>4. CASE Selector!AddUnspentOutput
  <2>1. \A s : Selector!Kept(s) = Select!Kept(s) /\ Selector!Excluded(s) = Select!Excluded(s)
    BY DEF Select!Kept, Selector!Kept, Select!Excluded, Selector!Excluded, Select!Exceeds,
             Selector!Exceeds, Select!Values, Selector!Values, Select!Smallest,
             Selector!Smallest
  <2> QED
    BY <1>4, <2>1, SameFees DEF Select!AddUnspentOutput, Selector!AddUnspentOutput,
             Select!Finish, Selector!Finish, Select!Thrown, Selector!Thrown,
             Select!RecipientAmount, Selector!RecipientAmount, Select!SentAmount,
             Selector!SentAmount, Select!Step
<1>5. CASE Selector!Settle
  BY <1>5, SameFees DEF Select!Settle, Selector!Settle, Select!Settled, Selector!Settled,
           Select!Finish, Selector!Finish, Select!Thrown, Selector!Thrown, Select!Exact,
           Selector!Exact, Select!WithChange, Selector!WithChange, Select!NeedsChange,
           Selector!NeedsChange, Select!RecipientAmount, Selector!RecipientAmount,
           Select!SentAmount, Selector!SentAmount, Select!Step
<1> QED
  BY <1>1, <1>2, <1>3, <1>4, <1>5 DEF Selector!Step

-----------------------------------------------------------------------------
(***************************************************************************)
(* The signers.                                                            *)
(***************************************************************************)
\* What one key signs, and what the keys of a redeem script sign.
KeyData(t, i, of) ==
    LET key == KeyOf[t.inputsToSign[i].address]
    IN  [signatures |-> <<Sign(key, Digest(t, i, of, t.inputsToSign[i].isWitness))>>,
         reveals |-> key]
RedeemDigest(t, i) ==
    Digest(t, i, [of |-> "redeem", at |-> t.inputsToSign[i].redeemScript],
           t.inputsToSign[i].isWitness)
RedeemData(t, i) ==
    LET script == t.inputsToSign[i].redeemScript
    IN  [signatures |-> [j \in DOMAIN SigningKeys(script) |->
                           Sign(SigningKeys(script)[j], RedeemDigest(t, i))],
         reveals |-> script]

\* The answers that are no refusals
Answers(t, i) ==
    LET input == t.inputsToSign[i]
        type == input.scriptPubKeyType
        key == KeyOf[input.address]
        data == sigScriptData(t, i)
        script == input.redeemScript
    IN  \/ /\ type = "P2PKH"
           /\ data = ScriptData(KeyData(t, i, [of |-> "address", at |-> input.address]), NoData)
        \/ /\ type = "P2WPKH"
           /\ data = ScriptData(NoData, KeyData(t, i, [of |-> "keyHash", at |-> key]))
        \/ /\ script # None /\ SigningKeys(script) # <<>>
           /\ \/ type = "P2SH" /\ data = ScriptData(RedeemData(t, i), NoData)
              \/ type = "P2WSH" /\ data = ScriptData(NoData, RedeemData(t, i))

LEMMA ChainAnswers ==
    ASSUME NEW t, NEW i, sigScriptData(t, i) # None
    PROVE  Answers(t, i)
<1> DEFINE data == sigScriptData(t, i)
<1>1. data \in {P2PKHInputSigner(t, i), P2SHMultiInputSigner(t, i),
                P2WPKHInputSigner(t, i), P2WSHMultiInputSigner(t, i)}
  <2> DEFINE A == Answering(t, i)
  <2>1. A \subseteq 1..4 /\ A \subseteq Nat
    BY DEF Answering
  <2>2. A # {} /\ data = mInputSigners(t, i)[Min(A)]
    BY DEF sigScriptData
  <2> HIDE DEF A
  <2>3. PICK n \in A : \A m \in A : n <= m
    BY <2>1, <2>2, LeastNumber
  <2>4. Min(A) \in A
    BY <2>3 DEF Min
  <2>5. PICK k \in 1..4 : k = Min(A)
    BY <2>1, <2>4
  <2>6. k = 1 \/ k = 2 \/ k = 3 \/ k = 4
    OBVIOUS
  <2> QED
    BY <2>2, <2>5, <2>6 DEF mInputSigners
<1> HIDE DEF data
<1>2. data # None
  BY DEF data
<1>3. CASE data = P2PKHInputSigner(t, i)
  BY <1>2, <1>3 DEF data, Answers, P2PKHInputSigner, findByAddress, KeyData
<1>4. CASE data = P2WPKHInputSigner(t, i)
  BY <1>2, <1>4 DEF data, Answers, P2WPKHInputSigner, findByAddress, KeyData
<1>5. CASE data = P2SHMultiInputSigner(t, i)
  BY <1>2, <1>5 DEF data, Answers, P2SHMultiInputSigner, MultiSignature, RedeemData, RedeemDigest
<1>6. CASE data = P2WSHMultiInputSigner(t, i)
  BY <1>2, <1>6 DEF data, Answers, P2WSHMultiInputSigner, MultiSignature, RedeemData, RedeemDigest
<1> QED
  BY <1>1, <1>3, <1>4, <1>5, <1>6

\* What the signers read of a transaction. Signing another input leaves it as
\* it is, and so the answers.
SameToSigners(t, u) ==
    /\ u.outputs = t.outputs
    /\ DOMAIN u.inputsToSign = DOMAIN t.inputsToSign
    /\ \A j \in DOMAIN t.inputsToSign :
        LET a == t.inputsToSign[j]
            b == u.inputsToSign[j]
        IN  /\ b.outpoint = a.outpoint /\ b.address = a.address /\ b.value = a.value
            /\ b.redeemScript = a.redeemScript /\ b.isWitness = a.isWitness
            /\ b.scriptPubKeyType = a.scriptPubKeyType

LEMMA SameAnswer ==
    ASSUME NEW t, NEW u, SameToSigners(t, u), NEW i \in DOMAIN t.inputsToSign
    PROVE  sigScriptData(u, i) = sigScriptData(t, i)
<1>1. \A script, isWitness : Digest(u, i, script, isWitness) = Digest(t, i, script, isWitness)
  BY DEF Digest, SameToSigners
<1>2. /\ u.inputsToSign[i].address = t.inputsToSign[i].address
      /\ u.inputsToSign[i].redeemScript = t.inputsToSign[i].redeemScript
      /\ u.inputsToSign[i].isWitness = t.inputsToSign[i].isWitness
      /\ u.inputsToSign[i].scriptPubKeyType = t.inputsToSign[i].scriptPubKeyType
  BY DEF SameToSigners
<1>3. P2PKHInputSigner(u, i) = P2PKHInputSigner(t, i)
  BY <1>1, <1>2 DEF P2PKHInputSigner
<1>4. P2WPKHInputSigner(u, i) = P2WPKHInputSigner(t, i)
  BY <1>1, <1>2 DEF P2WPKHInputSigner
<1>5. MultiSignature(u, i) = MultiSignature(t, i)
  BY <1>1, <1>2 DEF MultiSignature
<1>6. /\ P2SHMultiInputSigner(u, i) = P2SHMultiInputSigner(t, i)
      /\ P2WSHMultiInputSigner(u, i) = P2WSHMultiInputSigner(t, i)
  BY <1>2, <1>5 DEF P2SHMultiInputSigner, P2WSHMultiInputSigner
<1>7. mInputSigners(u, i) = mInputSigners(t, i)
  BY <1>3, <1>4, <1>6 DEF mInputSigners
<1> QED
  BY <1>7 DEF sigScriptData, Answering

-----------------------------------------------------------------------------
(***************************************************************************)
(* What the builder asks of the selector, and the state it is in.          *)
(***************************************************************************)
Stages == {"idle", "recipient", "change", "inputs", "select", "outputs", "sign",
           "build", "done"}

RequestOf(t) ==
    [amount |-> t.recipientValue, feeRate |-> call.feeRate,
     receiveType |-> scriptType(t.recipientAddress),
     changeType |-> scriptType(t.changeAddress),
     senderPay |-> call.senderPay, dust |-> dust("P2PKH", dustRelayTxFee),
     limit |-> NoLimit]

\* A transaction is a record of its seven fields.
IsTransaction(t) ==
    t = [recipientAddress |-> t.recipientAddress, recipientValue |-> t.recipientValue,
         changeAddress |-> t.changeAddress, changeValue |-> t.changeValue,
         inputsToSign |-> t.inputsToSign, outputs |-> t.outputs, segwit |-> t.segwit]

\* The recipient and the change of the automatic overload, before the
\* selection: an amount without a recipient is zero, and so is the change.
Addressed(t) ==
    /\ t.recipientAddress = None => t.recipientValue = 0
    /\ t.recipientAddress # None => /\ t.recipientAddress \in Address
                                    /\ t.recipientValue = call.value
    /\ t.changeAddress \in Address \cup {None}
    /\ t.changeValue = 0

Choosing ==
    /\ stage \in Stages
    /\ stage # "idle" => call \in Call
    /\ IsTransaction(tx)
    /\ stage \in {"idle", "recipient"} => tx = NewTransaction
    /\ stage = "change" /\ call.auto =>
           Addressed(tx) /\ tx.changeAddress = None
    /\ stage \in {"inputs", "select"} /\ call.auto => Addressed(tx)
    /\ stage = "select" => /\ call.auto
                           /\ Select!Selection
                           /\ req = RequestOf(tx)

LEMMA SizesType ==
    /\ \A t : scriptType(t) \in ScriptType \/ t \notin Address \cup {None}
    /\ dust("P2PKH", dustRelayTxFee) \in Nat
<1>1. \A t \in Address \cup {None} : scriptType(t) \in ScriptType
  BY WalletAssumption DEF scriptType, ScriptType
<1>2. (outputSize("P2PKH") + inputSize("P2PKH")) = 182
  BY DEF outputSize, lockingScriptSize, inputSize, signatureLength, pubKeyLength
<1>3. dust("P2PKH", dustRelayTxFee) = 182 * (dustRelayTxFee \div 1000)
  BY <1>2 DEF dust, WitnessType
<1>4. dustRelayTxFee \div 1000 \in Nat
  BY WalletAssumption
<1>5. 182 * (dustRelayTxFee \div 1000) \in Nat
  BY <1>4
<1> QED
  BY <1>1, <1>3, <1>5

\* What UtxoSelectorProofs says of the steps of select
LEMMA SelectionIfReady == Select!Ready => Select!Selection
  BY Select!SelectionBegins, WalletAssumption, RedeemPushAssumption
     DEF Request, Select!UnspentOutput, UnspentOutput, Select!ScriptType, ScriptType,
         Select!IsFiniteSet, IsFiniteSet

LEMMA SelectionStep == Select!Selection /\ [Select!Step]_selectorVars => Select!Selection'
  BY Select!SelectionStep, WalletAssumption, RedeemPushAssumption
     DEF Request, Select!UnspentOutput, UnspentOutput, Select!ScriptType, ScriptType,
         Select!IsFiniteSet, IsFiniteSet, Select!vars, selectorVars

LEMMA SelectionBegins ==
    ASSUME CallSelect, Addressed(tx), call \in Call
    PROVE  Select!Selection'
<1>1. req' \in Request
  <2>1. tx.recipientValue \in Int /\ call.feeRate \in Nat /\ call.senderPay \in BOOLEAN
    BY CallAssumption DEF CallSelect, Addressed
  <2>2. tx.recipientAddress \in Address \cup {None} /\ tx.changeAddress \in Address \cup {None}
    BY DEF Addressed
  <2>3. /\ scriptType(tx.recipientAddress) \in ScriptType
        /\ scriptType(tx.changeAddress) \in ScriptType
    BY <2>2, SizesType
  <2> QED
    BY <2>1, <2>3, SizesType DEF CallSelect, Request
<1>2. Select!Ready'
  <2>1. unseen' \subseteq Utxo
    BY CallAssumption DEF CallSelect
  <2> QED
    BY <1>1, <2>1 DEF CallSelect, Select!Ready, Select!Pending, Selector!Pending
<1> QED
  BY <1>2, SelectionIfReady, PTL

\* The steps between two stages
LEMMA Onward ==
    ASSUME call \in Call
    PROVE  /\ Following("recipient") = "change"
           /\ Following("change") \in {"inputs", "outputs"}
           /\ Following("inputs") = IF call.auto THEN "outputs" ELSE "sign"
           /\ Following("outputs") = IF call.auto THEN "sign" ELSE "inputs"
           /\ Following("sign") = "build"
  BY DEF Following

LEMMA ChoosingStep == Choosing /\ [Next]_vars => Choosing'
<1> SUFFICES ASSUME Choosing, [Next]_vars PROVE Choosing'
  OBVIOUS
<1> USE DEF Choosing
<1>1. CASE Build
  BY <1>1 DEF Build, Stages
<1>2. CASE SetRecipient
  <2>1. stage = "recipient" /\ call \in Call /\ call' = call /\ tx = NewTransaction
        /\ stage' \in {"change", "done"}
    BY <1>2, Onward DEF SetRecipient, Continue, Throw
  <2>2. \/ tx' = tx
        \/ /\ call.recipient \in Address /\ call.recipient # None
           /\ tx' = [tx EXCEPT !.recipientAddress = call.recipient,
                               !.recipientValue = call.value]
    <3>1. call.recipient \in Address \cup {None, Malformed}
      BY <2>1, CallAssumption
    <3> QED
      BY <1>2, <3>1 DEF SetRecipient, Continue, Throw
  <2>3. IsTransaction(tx')
    BY <2>1, <2>2 DEF IsTransaction, NewTransaction
  <2>4. Addressed(tx)' /\ tx'.changeAddress = None
    <3>1. CASE tx' = tx
      BY <2>1, <3>1 DEF Addressed, NewTransaction
    <3>2. CASE /\ call.recipient \in Address /\ call.recipient # None
               /\ tx' = [tx EXCEPT !.recipientAddress = call.recipient,
                                   !.recipientValue = call.value]
      <4>1. /\ tx'.recipientAddress = call.recipient /\ tx'.recipientValue = call.value
            /\ tx'.changeAddress = None /\ tx'.changeValue = 0
        BY <2>1, <3>2 DEF NewTransaction
      <4> QED
        BY <2>1, <3>2, <4>1 DEF Addressed
    <3> QED
      BY <2>2, <3>1, <3>2
  <2> QED
    BY <2>1, <2>3, <2>4 DEF Stages
<1>3. CASE SetChange
  <2>1. stage = "change" /\ call \in Call /\ call' = call
        /\ stage' \in {"inputs", "outputs", "done"}
    BY <1>3, Onward DEF SetChange, Continue, Throw
  <2>2. \/ tx' = tx
        \/ /\ call.change \in Address
           /\ tx' = [tx EXCEPT !.changeAddress = call.change, !.changeValue = call.changeValue]
    <3>1. call.change \in Address \cup {None, Malformed}
      BY <2>1, CallAssumption
    <3> QED
      BY <1>3, <3>1 DEF SetChange, Continue, Throw
  <2>3. IsTransaction(tx')
    BY <2>2 DEF IsTransaction
  <2>4. call.auto => Addressed(tx)'
    <3> SUFFICES ASSUME call.auto PROVE Addressed(tx)'
      OBVIOUS
    <3>1. call.changeValue = 0 /\ Addressed(tx)
      BY <2>1, CallAssumption
    <3>2. CASE tx' = tx
      BY <2>1, <3>1, <3>2 DEF Addressed
    <3>3. CASE /\ call.change \in Address
               /\ tx' = [tx EXCEPT !.changeAddress = call.change,
                                   !.changeValue = call.changeValue]
      <4>1. /\ tx'.recipientAddress = tx.recipientAddress
            /\ tx'.recipientValue = tx.recipientValue
            /\ tx'.changeAddress = call.change /\ tx'.changeValue = 0
        BY <3>1, <3>3 DEF IsTransaction
      <4> QED
        BY <2>1, <3>1, <3>3, <4>1 DEF Addressed
    <3> QED
      BY <2>2, <3>2, <3>3
  <2> QED
    BY <2>1, <2>3, <2>4 DEF Stages
<1>4. CASE SetManualInputs
  <2>1. stage' = "sign" /\ call' = call /\ call \in Call
    BY <1>4, Onward DEF SetManualInputs, Continue
  <2>2. IsTransaction(tx')
    BY <1>4 DEF SetManualInputs, Continue, IsTransaction
  <2> QED
    BY <2>1, <2>2 DEF Stages
<1>5. CASE CallSelect
  <2>1. Addressed(tx) /\ call \in Call /\ call.auto
    BY <1>5 DEF CallSelect
  <2>2. Select!Selection'
    BY <1>5, <2>1, SelectionBegins
  <2>3. req' = RequestOf(tx)'
    BY <1>5 DEF CallSelect, RequestOf
  <2>4. Addressed(tx)'
    BY <1>5, <2>1 DEF CallSelect, Addressed
  <2> QED
    BY <1>5, <2>1, <2>2, <2>3, <2>4 DEF CallSelect, Stages
<1>6. CASE Selecting
  <2>1. Select!Step /\ UNCHANGED builderVars /\ stage = "select"
    BY <1>6, SameSteps DEF Selecting
  <2>2. Select!Selection'
    BY <2>1, SelectionStep
  <2>3. req' = req
    BY <2>1 DEF Select!Step, Select!SelectDust, Select!Select, Select!nextUtxoList,
                Select!nextUtxoListEmpty, Select!AddUnspentOutput, Select!EndOfPage, Select!Settle
  <2> QED
    BY <2>1, <2>2, <2>3 DEF builderVars, RequestOf, Addressed
<1>7. CASE SetSelectedInputs
  <2>1. stage' \in {"outputs", "done"} /\ call' = call /\ call \in Call
    BY <1>7, Onward DEF SetSelectedInputs, Throw
  <2>2. IsTransaction(tx')
    BY <1>7 DEF SetSelectedInputs, Throw, Amounts, IsTransaction
  <2> QED
    BY <2>1, <2>2 DEF Stages
<1>8. CASE SetOutputs
  <2>1. stage = "outputs" /\ stage' = (IF call.auto THEN "sign" ELSE "inputs")
        /\ call' = call /\ call \in Call
    BY <1>8, Onward DEF SetOutputs, Continue
  <2>2. IsTransaction(tx')
    BY <1>8 DEF SetOutputs, Continue, IsTransaction
  <2> QED
    BY <2>1, <2>2 DEF Stages
<1>9. CASE SignInput
  <2>1. stage' \in {"sign", "done"} /\ call' = call /\ call \in Call
    BY <1>9 DEF SignInput, Throw
  <2>2. IsTransaction(tx')
    BY <1>9 DEF SignInput, Throw, IsTransaction
  <2> QED
    BY <2>1, <2>2 DEF Stages
<1>10. CASE Signed
  BY <1>10, Onward DEF Signed, Continue, Stages
<1>11. CASE MakeTransaction
  BY <1>11 DEF MakeTransaction, Stages
<1>12. CASE BuildAgain
  BY <1>12 DEF BuildAgain, Stages, IsTransaction, NewTransaction
<1>13. CASE UNCHANGED vars
  <2>1. Select!Selection /\ UNCHANGED selectorVars => Select!Selection'
    BY SelectionStep
  <2> QED
    BY <1>13, <2>1 DEF vars, builderVars, selectorVars, RequestOf, Addressed
<1> QED
  BY <1>1, <1>2, <1>3, <1>4, <1>5, <1>6, <1>7, <1>8, <1>9, <1>10, <1>11, <1>12, <1>13 DEF Next

-----------------------------------------------------------------------------
(***************************************************************************)
(* Signing. The transaction changes while it is signed, so the invariant   *)
(* says that each input that is done carries what the signers would answer *)
(* for the transaction as it is now, and the others carry nothing.         *)
(***************************************************************************)
SigScript(t, i, n) ==
    IF i <= n /\ t.inputsToSign[i].scriptPubKeyType \notin WitnessType
    THEN sigScriptData(t, i).sigScript ELSE NoData
Witness(t, i, n) ==
    IF i <= n /\ t.inputsToSign[i].scriptPubKeyType \in WitnessType
    THEN sigScriptData(t, i).witness ELSE NoData

Filled(u, type, sigScript, witness) ==
    [outpoint |-> u, address |-> Owner[u], value |-> Info[u].value,
     redeemScript |-> Redeem[u], scriptPubKeyType |-> type,
     isWitness |-> type \in WitnessType, sigScript |-> sigScript, witness |-> witness]
Carrying(t, i, n) ==
    Filled(t.inputsToSign[i].outpoint, t.inputsToSign[i].scriptPubKeyType,
           SigScript(t, i, n), Witness(t, i, n))

IsList(s) == Len(s) \in Nat /\ DOMAIN s = 1..Len(s) /\ s = [i \in 1..Len(s) |-> s[i]]

SignedUpTo(t, n) ==
    /\ IsList(t.inputsToSign) /\ n \in 0..Len(t.inputsToSign)
    /\ \A i \in 1..Len(t.inputsToSign) : /\ t.inputsToSign[i].outpoint \in Utxo
                                         /\ t.inputsToSign[i] = Carrying(t, i, n)
    /\ \A i \in 1..n : /\ sigScriptData(t, i) # None
                       /\ t.inputsToSign[i].scriptPubKeyType \in WitnessType => t.segwit = TRUE

\* The Transaction that MutableTransaction.build makes
Transaction(t) ==
    [inputs |-> [i \in DOMAIN t.inputsToSign |->
        LET input == t.inputsToSign[i]
        IN  [outpoint |-> input.outpoint, sigScript |-> input.sigScript,
             witness |-> IF CarriesWitness(t) THEN input.witness ELSE NoData]],
     outputs |-> [i \in DOMAIN t.outputs |-> Serialized(t.outputs[i])]]

Signing ==
    /\ stage \in {"idle", "recipient", "change", "inputs", "select", "outputs"} => signed = 0
    /\ SignedUpTo(tx, signed)
    /\ (stage = "build" \/ Built) => (call.signer = "chain" => signed = Len(tx.inputsToSign))
    /\ Built => stage = "done" /\ result.transaction = Transaction(tx)

LEMMA FilledFields ==
    ASSUME NEW u, NEW type, NEW sigScript, NEW witness
    PROVE  LET input == Filled(u, type, sigScript, witness)
           IN  /\ input.outpoint = u /\ input.address = Owner[u] /\ input.value = Info[u].value
               /\ input.redeemScript = Redeem[u] /\ input.scriptPubKeyType = type
               /\ input.isWitness = (type \in WitnessType)
               /\ input.sigScript = sigScript /\ input.witness = witness
               /\ [input EXCEPT !.witness = witness] = input
               /\ \A d : /\ [input EXCEPT !.witness = d] = Filled(u, type, sigScript, d)
                         /\ [input EXCEPT !.sigScript = d] = Filled(u, type, d, witness)
  BY DEF Filled

\* Nothing but the inputs matters before the first is signed.
LEMMA UnsignedYet ==
    ASSUME NEW t, NEW u, SignedUpTo(t, 0), u.inputsToSign = t.inputsToSign
    PROVE  SignedUpTo(u, 0)
<1>1. \A i \in 1..Len(t.inputsToSign) : ~(i <= 0)
  BY DEF SignedUpTo, IsList
<1>2. \A i \in 1..Len(t.inputsToSign) :
        SigScript(u, i, 0) = SigScript(t, i, 0) /\ Witness(u, i, 0) = Witness(t, i, 0)
  BY <1>1 DEF SigScript, Witness
<1>3. \A i \in 1..Len(t.inputsToSign) : Carrying(u, i, 0) = Carrying(t, i, 0)
  BY <1>2 DEF Carrying
<1> QED
  BY <1>3 DEF SignedUpTo

LEMMA UnsignedInputs ==
    ASSUME NEW t, NEW s \in Seq(Utxo), NEW type,
           t.inputsToSign = [i \in DOMAIN s |-> InputToSign(s[i], type[i])]
    PROVE  SignedUpTo(t, 0)
<1> DEFINE n == Len(s)
           list == t.inputsToSign
<1>1. n \in Nat /\ DOMAIN s = 1..n /\ \A i \in 1..n : s[i] \in Utxo
  OBVIOUS
<1> HIDE DEF n
<1>2. list = [i \in 1..n |-> InputToSign(s[i], type[i])]
  BY <1>1
<1>3. Len(list) = n /\ DOMAIN list = 1..n /\ IsList(list)
  BY <1>1, <1>2 DEF IsList
<1>4. ASSUME NEW i \in 1..n
      PROVE  list[i] = Carrying(t, i, 0) /\ list[i].outpoint \in Utxo
  <2>1. list[i] = InputToSign(s[i], type[i])
    BY <1>2
  <2>2. list[i] = Filled(s[i], type[i], NoData, NoData)
    BY <2>1 DEF InputToSign, Filled
  <2>3. list[i].outpoint = s[i] /\ list[i].scriptPubKeyType = type[i]
    BY <2>2, FilledFields
  <2>4. SigScript(t, i, 0) = NoData /\ Witness(t, i, 0) = NoData
    BY <1>1 DEF SigScript, Witness
  <2> QED
    BY <1>1, <2>2, <2>3, <2>4 DEF Carrying
<1> QED
  BY <1>1, <1>2, <1>3, <1>4 DEF SignedUpTo

\* The fields of an input, signed or not
LEMMA InputFields ==
    ASSUME NEW t, NEW n, SignedUpTo(t, n), NEW i \in 1..Len(t.inputsToSign)
    PROVE  LET input == t.inputsToSign[i]
               u == input.outpoint
           IN  /\ u \in Utxo /\ input.address = Owner[u] /\ input.value = Info[u].value
               /\ input.redeemScript = Redeem[u]
               /\ input.isWitness = (input.scriptPubKeyType \in WitnessType)
               /\ input.sigScript = SigScript(t, i, n) /\ input.witness = Witness(t, i, n)
<1>1. t.inputsToSign[i] = Carrying(t, i, n) /\ t.inputsToSign[i].outpoint \in Utxo
  BY DEF SignedUpTo
<1> QED
  BY <1>1, FilledFields DEF Carrying

\* One more input is signed.
OneMore(t, u, n, data) ==
    /\ SameToSigners(t, u) /\ IsList(u.inputsToSign)
    /\ Len(u.inputsToSign) = Len(t.inputsToSign)
    /\ \A i \in 1..Len(t.inputsToSign) : i # n + 1 => u.inputsToSign[i] = t.inputsToSign[i]
    /\ u.inputsToSign[n + 1] =
           LET type == t.inputsToSign[n + 1].scriptPubKeyType
           IN  Filled(t.inputsToSign[n + 1].outpoint, type,
                      IF type \in WitnessType THEN NoData ELSE data.sigScript,
                      IF type \in WitnessType THEN data.witness ELSE NoData)
    /\ t.segwit = TRUE => u.segwit = TRUE
    /\ t.inputsToSign[n + 1].scriptPubKeyType \in WitnessType => u.segwit = TRUE

LEMMA OneMoreSigned ==
    ASSUME NEW t, NEW u, NEW n, SignedUpTo(t, n), n < Len(t.inputsToSign),
           NEW data, data = sigScriptData(t, n + 1), data # None, OneMore(t, u, n, data)
    PROVE  SignedUpTo(u, n + 1)
<1> USE DEF OneMore
<1>1. PICK k \in Nat : /\ k = Len(t.inputsToSign) /\ k = Len(u.inputsToSign)
                       /\ n \in Nat /\ n + 1 \in 1..k /\ DOMAIN t.inputsToSign = 1..k
  BY DEF SignedUpTo, IsList
<1>2. \A i \in 1..k : /\ sigScriptData(u, i) = sigScriptData(t, i)
                      /\ u.inputsToSign[i].outpoint = t.inputsToSign[i].outpoint
                      /\ u.inputsToSign[i].scriptPubKeyType = t.inputsToSign[i].scriptPubKeyType
  <2>1. \A i \in 1..k : sigScriptData(u, i) = sigScriptData(t, i)
    BY <1>1, SameAnswer
  <2> QED
    BY <1>1, <2>1 DEF SameToSigners
<1>3. ASSUME NEW i \in 1..k, i # n + 1 PROVE u.inputsToSign[i] = Carrying(u, i, n + 1)
  <2>1. (i <= n + 1) = (i <= n)
    BY <1>1, <1>3
  <2>2. SigScript(u, i, n + 1) = SigScript(t, i, n) /\ Witness(u, i, n + 1) = Witness(t, i, n)
    BY <1>2, <2>1 DEF SigScript, Witness
  <2>3. t.inputsToSign[i] = Carrying(t, i, n)
    BY <1>1 DEF SignedUpTo
  <2> QED
    BY <1>1, <1>2, <1>3, <2>2, <2>3 DEF Carrying
<1>4. u.inputsToSign[n + 1] = Carrying(u, n + 1, n + 1)
  <2>1. n + 1 <= n + 1
    BY <1>1
  <2>2. LET type == t.inputsToSign[n + 1].scriptPubKeyType
        IN  /\ SigScript(u, n + 1, n + 1) = IF type \in WitnessType THEN NoData ELSE data.sigScript
            /\ Witness(u, n + 1, n + 1) = IF type \in WitnessType THEN data.witness ELSE NoData
    BY <1>1, <1>2, <2>1 DEF SigScript, Witness
  <2> QED
    BY <1>1, <1>2, <2>2 DEF Carrying
<1>5. ASSUME NEW i \in 1..(n + 1)
      PROVE  /\ sigScriptData(u, i) # None
             /\ u.inputsToSign[i].scriptPubKeyType \in WitnessType => u.segwit = TRUE
  <2>1. i \in 1..k /\ (i \in 1..n \/ i = n + 1)
    BY <1>1
  <2>2. CASE i = n + 1
    BY <1>2, <2>1, <2>2
  <2>3. CASE i \in 1..n
    BY <1>2, <2>1, <2>3 DEF SignedUpTo
  <2> QED
    BY <2>1, <2>2, <2>3
<1>6. \A i \in 1..k : u.inputsToSign[i].outpoint \in Utxo
  BY <1>1, <1>2 DEF SignedUpTo
<1>7. n + 1 \in 0..k
  BY <1>1
<1> QED
  BY <1>1, <1>3, <1>4, <1>5, <1>6, <1>7 DEF SignedUpTo

\* A round of the signing loop
SignedWith(t, i, data) ==
    IF t.inputsToSign[i].scriptPubKeyType \in WitnessType
    THEN [t EXCEPT !.segwit = TRUE, !.inputsToSign[i].witness = data.witness]
    ELSE [t EXCEPT !.inputsToSign[i].sigScript = data.sigScript]

LEMMA SignsNext ==
    ASSUME NEW t, NEW n, SignedUpTo(t, n), n < Len(t.inputsToSign), IsTransaction(t),
           NEW data, data = sigScriptData(t, n + 1), data # None,
           NEW u, u = SignedWith(t, n + 1, data)
    PROVE  /\ SignedUpTo(u, n + 1) /\ SameToSigners(t, u)
           /\ Len(u.inputsToSign) = Len(t.inputsToSign)
<1>1. PICK list : list = t.inputsToSign
  OBVIOUS
<1>2. PICK k \in Nat : /\ k = Len(list) /\ n \in Nat /\ n < k /\ DOMAIN list = 1..k
                       /\ n + 1 \in 1..k /\ list = [i \in 1..k |-> list[i]]
  BY <1>1 DEF SignedUpTo, IsList
<1>3. PICK o, type : /\ o = list[n + 1].outpoint /\ type = list[n + 1].scriptPubKeyType
                     /\ list[n + 1] = Filled(o, type, NoData, NoData)
  <2>1. list[n + 1] = Carrying(t, n + 1, n)
    BY <1>1, <1>2 DEF SignedUpTo
  <2>2. SigScript(t, n + 1, n) = NoData /\ Witness(t, n + 1, n) = NoData
    BY <1>2 DEF SigScript, Witness
  <2> QED
    BY <1>1, <2>1, <2>2 DEF Carrying
<1>4. PICK new : new = Filled(o, type, IF type \in WitnessType THEN NoData ELSE data.sigScript,
                                       IF type \in WitnessType THEN data.witness ELSE NoData)
  OBVIOUS
<1>5. /\ u.inputsToSign = [list EXCEPT ![n + 1] = new] /\ u.outputs = t.outputs
      /\ t.segwit = TRUE => u.segwit = TRUE
      /\ type \in WitnessType => u.segwit = TRUE
  <2>1. CASE type \in WitnessType
    <3>1. u = [t EXCEPT !.segwit = TRUE, !.inputsToSign[n + 1].witness = data.witness]
      BY <1>1, <1>3, <2>1 DEF SignedWith
    <3>2. /\ u.inputsToSign = [list EXCEPT ![n + 1].witness = data.witness]
          /\ u.outputs = t.outputs /\ u.segwit = TRUE
      BY <1>1, <3>1 DEF IsTransaction
    <3>3. [list[n + 1] EXCEPT !.witness = data.witness] = new
      BY <1>3, <1>4, <2>1, FilledFields
    <3> QED
      BY <1>2, <3>2, <3>3
  <2>2. CASE type \notin WitnessType
    <3>1. u = [t EXCEPT !.inputsToSign[n + 1].sigScript = data.sigScript]
      BY <1>1, <1>3, <2>2 DEF SignedWith
    <3>2. /\ u.inputsToSign = [list EXCEPT ![n + 1].sigScript = data.sigScript]
          /\ u.outputs = t.outputs /\ u.segwit = t.segwit
      BY <1>1, <3>1 DEF IsTransaction
    <3>3. [list[n + 1] EXCEPT !.sigScript = data.sigScript] = new
      BY <1>3, <1>4, <2>2, FilledFields
    <3> QED
      BY <1>2, <2>2, <3>2, <3>3
  <2> QED
    BY <2>1, <2>2
<1>6. /\ Len(u.inputsToSign) = k /\ IsList(u.inputsToSign) /\ DOMAIN u.inputsToSign = 1..k
      /\ \A i \in 1..k : i # n + 1 => u.inputsToSign[i] = list[i]
      /\ u.inputsToSign[n + 1] = new
  <2>1. PICK l : l = u.inputsToSign
    OBVIOUS
  <2>2. l = [i \in 1..k |-> IF i = n + 1 THEN new ELSE list[i]]
    BY <1>2, <1>5, <2>1
  <2>3. Len(l) = k /\ DOMAIN l = 1..k /\ l = [i \in 1..k |-> l[i]]
    BY <2>2
  <2> QED
    BY <1>2, <2>1, <2>2, <2>3 DEF IsList
<1>7. SameToSigners(t, u)
  <2>1. /\ new.outpoint = list[n + 1].outpoint /\ new.address = list[n + 1].address
        /\ new.value = list[n + 1].value /\ new.redeemScript = list[n + 1].redeemScript
        /\ new.isWitness = list[n + 1].isWitness
        /\ new.scriptPubKeyType = list[n + 1].scriptPubKeyType
    BY <1>3, <1>4, FilledFields
  <2> QED
    BY <1>1, <1>2, <1>5, <1>6, <2>1 DEF SameToSigners
<1>8. SignedUpTo(u, n + 1)
  <2>1. OneMore(t, u, n, data)
    <3>1. \A i \in 1..Len(t.inputsToSign) :
            i # n + 1 => u.inputsToSign[i] = t.inputsToSign[i]
      BY <1>1, <1>2, <1>6
    <3>2. /\ t.inputsToSign[n + 1].outpoint = o
          /\ t.inputsToSign[n + 1].scriptPubKeyType = type
          /\ Len(u.inputsToSign) = Len(t.inputsToSign)
      BY <1>1, <1>2, <1>3, <1>6
    <3>3. u.inputsToSign[n + 1] = new
      BY <1>6
    <3>4. /\ t.segwit = TRUE => u.segwit = TRUE
          /\ t.inputsToSign[n + 1].scriptPubKeyType \in WitnessType => u.segwit = TRUE
      BY <1>5, <3>2
    <3> QED
      BY <1>4, <1>6, <1>7, <3>1, <3>2, <3>3, <3>4 DEF OneMore
  <2> QED
    BY <2>1, OneMoreSigned
<1> QED
  BY <1>1, <1>2, <1>6, <1>7, <1>8

LEMMA NothingSigned == SignedUpTo(NewTransaction, 0)
<1>1. PICK s \in Seq(Utxo) : s = <<>>
  BY EmptySeq
<1>2. NewTransaction.inputsToSign = [i \in DOMAIN s |-> InputToSign(s[i], s[i])]
  BY <1>1 DEF NewTransaction
<1> QED
  BY <1>2, UnsignedInputs

\* The types that setInputs gives the inputs of the two overloads
LEMMA InputsSet ==
    ASSUME Choosing, SetManualInputs \/ (SetSelectedInputs /\ outcome.kind # "thrown")
    PROVE  SignedUpTo(tx', 0)
<1>1. CASE SetManualInputs
  <2>1. PICK s \in Seq(Utxo) : s = call.unspent
    BY <1>1, CallAssumption DEF Choosing, SetManualInputs
  <2>2. PICK type : type = [i \in DOMAIN s |-> "P2PKH"]
    OBVIOUS
  <2>3. tx'.inputsToSign = [i \in DOMAIN s |-> InputToSign(s[i], "P2PKH")]
    BY <1>1, <2>1 DEF SetManualInputs, Continue, Choosing, IsTransaction
  <2>4. tx'.inputsToSign = [i \in DOMAIN s |-> InputToSign(s[i], type[i])]
    BY <2>2, <2>3
  <2> QED
    BY <2>4, UnsignedInputs
<1>2. CASE SetSelectedInputs /\ outcome.kind # "thrown"
  <2>1. outcome \in Select!Outcome /\ outcome.kind \in {"exact", "change"}
    BY <1>2 DEF SetSelectedInputs, Choosing, Select!Selection, Select!Inv, Select!TypeOK,
                Select!Answered
  <2>2. PICK s \in Seq(Utxo) : s = outcome.outputs
    BY <2>1 DEF Select!Outcome, Select!Pending
  <2>3. PICK type : type = [i \in DOMAIN s |-> scriptType(Owner[s[i]])]
    OBVIOUS
  <2>4. tx'.inputsToSign = [i \in DOMAIN s |-> InputToSign(s[i], scriptType(Owner[s[i]]))]
    BY <1>2, <2>2 DEF SetSelectedInputs, Amounts, Choosing, IsTransaction
  <2>5. tx'.inputsToSign = [i \in DOMAIN s |-> InputToSign(s[i], type[i])]
    BY <2>3, <2>4
  <2> QED
    BY <2>5, UnsignedInputs
<1> QED
  BY <1>1, <1>2

LEMMA SigningStep == Choosing /\ Signing /\ [Next]_vars => Signing'
<1> SUFFICES ASSUME Choosing, Signing, [Next]_vars PROVE Signing'
  OBVIOUS
<1>1. stage \in Stages /\ (stage # "done" => ~Built) /\ SignedUpTo(tx, signed)
  BY DEF Choosing, Signing
<1>2. ASSUME NEW e, Throw(e), stage # "done" PROVE Signing'
  BY <1>1, <1>2 DEF Throw, Signing, Built, Thrown
<1>3. ASSUME stage \in {"idle", "recipient", "change", "inputs", "select", "outputs"},
             stage' \in Stages \ {"build", "done"}, signed' = signed,
             tx'.inputsToSign = tx.inputsToSign, result' = result
      PROVE  Signing'
  <2>1. signed = 0 /\ signed' = 0
    BY <1>3 DEF Signing
  <2>2. SignedUpTo(tx', 0)
    BY <1>1, <1>3, <2>1, UnsignedYet
  <2>3. ~Built'
    BY <1>1, <1>3 DEF Built
  <2> QED
    BY <1>3, <2>1, <2>2, <2>3 DEF Signing
<1>4. ASSUME stage \in {"inputs", "select"}, stage' \in {"outputs", "sign"}, signed' = signed,
             SignedUpTo(tx', 0), result' = result
      PROVE  Signing'
  <2>1. signed = 0 /\ ~Built'
    BY <1>1, <1>4 DEF Signing, Built
  <2> QED
    BY <1>4, <2>1 DEF Signing
<1>5. CASE Build
  BY <1>3, <1>5 DEF Build, Stages
<1>6. CASE SetRecipient
  <2>1. CASE \E t : Continue(t) /\ t.inputsToSign = tx.inputsToSign
    BY <1>3, <1>6, <2>1, Onward DEF SetRecipient, Continue, Stages, Choosing
  <2>2. CASE Throw("AddressFormat")
    BY <1>2, <1>6, <2>2 DEF SetRecipient
  <2>3. CASE call.recipient = None
    BY <1>6, <2>1, <2>2, <2>3 DEF SetRecipient
  <2>4. CASE call.recipient = Malformed /\ call.recipient # None
    BY <1>6, <2>2, <2>4 DEF SetRecipient
  <2>5. CASE call.recipient # Malformed /\ call.recipient # None
    <3>1. PICK t : t = [tx EXCEPT !.recipientAddress = call.recipient, !.recipientValue = call.value]
      OBVIOUS
    <3>2. Continue(t)
      BY <1>6, <2>5, <3>1 DEF SetRecipient
    <3>3. t.inputsToSign = tx.inputsToSign
      BY <3>1 DEF Choosing, IsTransaction
    <3> QED
      BY <2>1, <3>2, <3>3
  <2> QED
    BY <2>3, <2>4, <2>5
<1>7. CASE SetChange
  <2>1. CASE \E t : Continue(t) /\ t.inputsToSign = tx.inputsToSign
    BY <1>3, <1>7, <2>1, Onward DEF SetChange, Continue, Stages, Choosing
  <2>2. CASE Throw("AddressFormat")
    BY <1>2, <1>7, <2>2 DEF SetChange
  <2>3. CASE call.change = None
    BY <1>7, <2>1, <2>2, <2>3 DEF SetChange
  <2>4. CASE call.change = Malformed /\ call.change # None
    BY <1>7, <2>2, <2>4 DEF SetChange
  <2>5. CASE call.change # Malformed /\ call.change # None
    <3>1. PICK t : t = [tx EXCEPT !.changeAddress = call.change, !.changeValue = call.changeValue]
      OBVIOUS
    <3>2. Continue(t)
      BY <1>7, <2>5, <3>1 DEF SetChange
    <3>3. t.inputsToSign = tx.inputsToSign
      BY <3>1 DEF Choosing, IsTransaction
    <3> QED
      BY <2>1, <3>2, <3>3
  <2> QED
    BY <2>3, <2>4, <2>5
<1>8. CASE SetManualInputs
  <2>1. stage' = "sign"
    BY <1>8, Onward DEF SetManualInputs, Continue, Choosing
  <2> QED
    BY <1>4, <1>8, <2>1, InputsSet DEF SetManualInputs, Continue
<1>9. CASE CallSelect
  BY <1>3, <1>9 DEF CallSelect, Stages
<1>10. CASE Selecting
  BY <1>3, <1>10 DEF Selecting, builderVars, Stages
<1>11. CASE SetSelectedInputs
  <2>1. CASE outcome.kind = "thrown"
    BY <1>2, <1>11, <2>1 DEF SetSelectedInputs
  <2>2. CASE outcome.kind # "thrown"
    <3>1. stage' = "outputs"
      BY <1>11, <2>2, Onward DEF SetSelectedInputs, Choosing
    <3> QED
      BY <1>4, <1>11, <2>2, <3>1, InputsSet DEF SetSelectedInputs
  <2> QED
    BY <2>1, <2>2
<1>12. CASE SetOutputs
  <2>1. stage' \in {"sign", "inputs"}
    BY <1>12, Onward DEF SetOutputs, Continue, Choosing
  <2>2. tx'.inputsToSign = tx.inputsToSign
    BY <1>12 DEF SetOutputs, Continue, Choosing, IsTransaction
  <2> QED
    BY <1>3, <1>12, <2>1, <2>2 DEF SetOutputs, Continue, Stages
<1>13. CASE SignInput
  <2>1. CASE sigScriptData(tx, signed + 1) = None
    BY <1>2, <1>13, <2>1 DEF SignInput
  <2>2. CASE sigScriptData(tx, signed + 1) # None
    <3>1. PICK data : data = sigScriptData(tx, signed + 1)
      OBVIOUS
    <3>2. /\ tx' = SignedWith(tx, signed + 1, data) /\ signed' = signed + 1
          /\ UNCHANGED <<stage, call, result>> /\ signed < Len(tx.inputsToSign)
          /\ stage = "sign"
      BY <1>13, <2>2, <3>1 DEF SignInput, SignedWith
    <3>3. SignedUpTo(tx', signed + 1)
      BY <1>1, <2>2, <3>1, <3>2, SignsNext DEF Choosing
    <3> QED
      BY <1>1, <3>2, <3>3 DEF Signing, Built
  <2> QED
    BY <2>1, <2>2
<1>14. CASE Signed
  <2>1. stage = "sign" /\ stage' = "build" /\ UNCHANGED <<tx, call, signed, result>>
    BY <1>14, Onward DEF Signed, Continue, Choosing
  <2>2. call.signer = "empty" \/ signed = Len(tx.inputsToSign)
    BY <1>14 DEF Signed
  <2> QED
    BY <1>1, <2>1, <2>2 DEF Signing, Built
<1>15. CASE MakeTransaction
  <2>1. stage = "build" /\ stage' = "done" /\ UNCHANGED <<tx, call, signed>>
    BY <1>15 DEF MakeTransaction
  <2>2. result'.transaction = Transaction(tx)
    BY <1>15 DEF MakeTransaction, Returned, Transaction
  <2> QED
    BY <1>1, <2>1, <2>2 DEF Signing
<1>16. CASE BuildAgain
  BY <1>16, NothingSigned DEF BuildAgain, Signing, Built, Pending
<1>17. CASE UNCHANGED vars
  BY <1>17 DEF vars, builderVars, Signing, Built
<1> QED
  BY <1>5, <1>6, <1>7, <1>8, <1>9, <1>10, <1>11, <1>12, <1>13, <1>14, <1>15, <1>16, <1>17 DEF Next

\* What the two invariants give each theorem below
LEMMA BuildInv == Spec => [](Choosing /\ Signing)
<1>1. Init => Choosing
  BY DEF Init, Choosing, Stages, IsTransaction, NewTransaction
<1>2. Init => Signing
  BY NothingSigned DEF Init, Signing, Built, Pending
<1>3. Choosing /\ [Next]_vars => Choosing'
  BY ChoosingStep
<1>4. Choosing /\ Signing /\ [Next]_vars => Signing'
  BY SigningStep
<1> QED
  BY <1>1, <1>2, <1>3, <1>4, PTL DEF Spec

-----------------------------------------------------------------------------
(***************************************************************************)
(* What the returned transaction carries.                                  *)
(***************************************************************************)
\* The keys that sign for a redeem script, in ascending places
LEMMA HeldKeys ==
    ASSUME NEW script \in RedeemScript
    PROVE  /\ HeldAt(script) \subseteq 1..Len(script.keys) /\ Len(script.keys) \in Nat
           /\ IsFiniteSet(HeldAt(script)) /\ Cardinality(HeldAt(script)) \in Nat
           /\ DOMAIN script.keys = 1..Len(script.keys) /\ script.m \in 1..16
<1>1. /\ script.keys \in Seq(Key) /\ script.m \in 1..16
  BY DEF RedeemScript
<1>2. PICK n \in Nat : n = Len(script.keys) /\ DOMAIN script.keys = 1..n
  BY <1>1
<1>3. HeldAt(script) \subseteq 1..n
  BY <1>2 DEF HeldAt
<1>4. IsFiniteSet(HeldAt(script))
  <2>1. IsFiniteSet(1..n)
    BY FS_Interval
  <2> QED
    BY <1>3, <2>1, FS_Subset
<1> QED
  BY <1>1, <1>2, <1>3, <1>4, FS_CardinalityType

LEMMA KeysThatSign ==
    ASSUME NEW script \in RedeemScript
    PROVE  \E n \in Nat : /\ SigningKeys(script) = [j \in 1..n |-> script.keys[Place(HeldAt(script), j)]]
                          /\ n <= script.m /\ n <= Cardinality(HeldAt(script))
                          /\ n = script.m \/ n = Cardinality(HeldAt(script))
<1>1. PICK c \in Nat : c = Cardinality(HeldAt(script))
  BY HeldKeys
<1>2. PICK n \in Nat : /\ n = IF c > script.m THEN script.m ELSE c
                       /\ n <= script.m /\ n <= c /\ (n = script.m \/ n = c)
  <2>1. PICK m \in 1..16 : m = script.m
    BY HeldKeys
  <2>2. CASE c > m
    BY <2>1, <2>2
  <2>3. CASE ~(c > m)
    <3>1. c <= m
      BY <2>3
    <3> QED
      BY <2>1, <2>3, <3>1
  <2> QED
    BY <2>2, <2>3
<1>3. SigningKeys(script) = [j \in 1..n |-> script.keys[Place(HeldAt(script), j)]]
  BY <1>1, <1>2 DEF SigningKeys
<1> QED
  BY <1>1, <1>2, <1>3

\* The digest of a transaction, without what an input's type adds to it
Outpoints(t) == [j \in DOMAIN t.inputsToSign |-> t.inputsToSign[j].outpoint]
SerializedOutputs(t) == [j \in DOMAIN t.outputs |-> Serialized(t.outputs[j])]
CommitTo(s, t, i) ==
    \A j \in DOMAIN s : LET digest == s[j].digest
                        IN  /\ digest.inputs = Outpoints(t) /\ digest.index = i
                            /\ digest.outputs = SerializedOutputs(t)

\* An answer of the chain is one list of signatures, on one side.
LEMMA AnswerSigns ==
    ASSUME NEW t, NEW i, sigScriptData(t, i) # None,
           t.inputsToSign[i].redeemScript \in RedeemScript \cup {None}
    PROVE  \E s : /\ s # <<>> /\ CommitTo(s, t, i)
                  /\ LET data == sigScriptData(t, i)
                     IN  \/ /\ t.inputsToSign[i].scriptPubKeyType \notin WitnessType
                            /\ data.sigScript.signatures = s
                            /\ s \o <<>> = s
                         \/ /\ t.inputsToSign[i].scriptPubKeyType \in WitnessType
                            /\ data.witness.signatures = s
                            /\ <<>> \o s = s
<1> DEFINE data == sigScriptData(t, i)
           type == t.inputsToSign[i].scriptPubKeyType
           input == t.inputsToSign[i]
<1>1. ASSUME NEW of
      PROVE  /\ KeyData(t, i, of).signatures # <<>>
             /\ CommitTo(KeyData(t, i, of).signatures, t, i)
             /\ KeyData(t, i, of).signatures \o <<>> = KeyData(t, i, of).signatures
             /\ <<>> \o KeyData(t, i, of).signatures = KeyData(t, i, of).signatures
  <2>1. PICK sig : sig = Sign(KeyOf[input.address], Digest(t, i, of, input.isWitness))
    OBVIOUS
  <2>2. KeyData(t, i, of).signatures = <<sig>>
    BY <2>1 DEF KeyData
  <2>3. <<sig>> \in Seq({sig}) /\ <<sig>> # <<>> /\ <<sig>>[1] = sig /\ DOMAIN <<sig>> = {1}
    OBVIOUS
  <2>4. /\ sig.digest.inputs = Outpoints(t) /\ sig.digest.index = i
        /\ sig.digest.outputs = SerializedOutputs(t)
    BY <2>1 DEF Sign, Digest, Outpoints, SerializedOutputs
  <2>5. CommitTo(<<sig>>, t, i)
    BY <2>3, <2>4 DEF CommitTo
  <2> QED
    BY <2>2, <2>3, <2>5, ConcatEmptySeq
<1>2. ASSUME input.redeemScript # None, SigningKeys(input.redeemScript) # <<>>
      PROVE  /\ RedeemData(t, i).signatures # <<>>
             /\ CommitTo(RedeemData(t, i).signatures, t, i)
             /\ RedeemData(t, i).signatures \o <<>> = RedeemData(t, i).signatures
             /\ <<>> \o RedeemData(t, i).signatures = RedeemData(t, i).signatures
  <2>1. PICK n \in Nat : DOMAIN SigningKeys(input.redeemScript) = 1..n
                         /\ SigningKeys(input.redeemScript)
                              = [j \in 1..n |-> SigningKeys(input.redeemScript)[j]]
    BY <1>2, KeysThatSign
  <2>2. n # 0
    BY <1>2, <2>1
  <2>3. PICK s : s = RedeemData(t, i).signatures
    OBVIOUS
  <2>4. s = [j \in 1..n |-> Sign(SigningKeys(input.redeemScript)[j], RedeemDigest(t, i))]
    BY <2>1, <2>3 DEF RedeemData
  <2>5. DOMAIN s = 1..n /\ s \in Seq({s[j] : j \in 1..n}) /\ s # <<>>
    BY <2>2, <2>4
  <2>6. \A j \in 1..n : s[j].digest = RedeemDigest(t, i)
    BY <2>4 DEF Sign
  <2>7. LET digest == RedeemDigest(t, i)
        IN  /\ digest.inputs = Outpoints(t) /\ digest.index = i
            /\ digest.outputs = SerializedOutputs(t)
    BY DEF RedeemDigest, Digest, Outpoints, SerializedOutputs
  <2>8. CommitTo(s, t, i)
    BY <2>5, <2>6, <2>7 DEF CommitTo
  <2> QED
    BY <2>3, <2>5, <2>8, ConcatEmptySeq
<1>3. Answers(t, i)
  BY ChainAnswers
<1>4. CASE type = "P2PKH"
  BY <1>1, <1>3, <1>4 DEF Answers, ScriptData, WitnessType
<1>5. CASE type = "P2WPKH"
  BY <1>1, <1>3, <1>5 DEF Answers, ScriptData, WitnessType
<1>6. CASE type = "P2SH"
  BY <1>2, <1>3, <1>6 DEF Answers, ScriptData, WitnessType
<1>7. CASE type = "P2WSH"
  BY <1>2, <1>3, <1>7 DEF Answers, ScriptData, WitnessType
<1> QED
  BY <1>3, <1>4, <1>5, <1>6, <1>7 DEF Answers

\* The inputs that are sent are those of the builder, witnesses included.
LEMMA SentInputs ==
    ASSUME Signing, Built
    PROVE  /\ DOMAIN Inputs = 1..Len(tx.inputsToSign) /\ Len(tx.inputsToSign) \in Nat
           /\ \A i \in DOMAIN Inputs : /\ Inputs[i].outpoint = tx.inputsToSign[i].outpoint
                                       /\ Inputs[i].sigScript = SigScript(tx, i, signed)
                                       /\ Inputs[i].witness = Witness(tx, i, signed)
           /\ signed \in 0..Len(tx.inputsToSign)
           /\ result.transaction.outputs = SerializedOutputs(tx)
<1>1. PICK n \in Nat : /\ n = Len(tx.inputsToSign) /\ DOMAIN tx.inputsToSign = 1..n
                       /\ signed \in 0..n
  BY DEF Signing, SignedUpTo, IsList
<1>2. Inputs = Transaction(tx).inputs /\ result.transaction.outputs = SerializedOutputs(tx)
  BY DEF Signing, Inputs, Transaction, SerializedOutputs
<1>3. DOMAIN Inputs = 1..n
  BY <1>1, <1>2 DEF Transaction
<1>4. ASSUME NEW i \in 1..n
      PROVE  /\ Inputs[i].outpoint = tx.inputsToSign[i].outpoint
             /\ Inputs[i].sigScript = SigScript(tx, i, signed)
             /\ Inputs[i].witness = Witness(tx, i, signed)
  <2>1. /\ Inputs[i].outpoint = tx.inputsToSign[i].outpoint
        /\ Inputs[i].sigScript = tx.inputsToSign[i].sigScript
        /\ Inputs[i].witness = IF CarriesWitness(tx) THEN tx.inputsToSign[i].witness ELSE NoData
    BY <1>1, <1>2 DEF Transaction
  <2>2. /\ tx.inputsToSign[i].sigScript = SigScript(tx, i, signed)
        /\ tx.inputsToSign[i].witness = Witness(tx, i, signed)
    BY <1>1, InputFields DEF Signing
  <2>3. CASE i <= signed /\ tx.inputsToSign[i].scriptPubKeyType \in WitnessType
    <3>1. i \in 1..signed
      BY <1>1, <2>3
    <3>2. tx.segwit = TRUE
      BY <2>3, <3>1 DEF Signing, SignedUpTo
    <3> QED
      BY <2>1, <2>2, <3>2 DEF CarriesWitness
  <2>4. CASE ~(i <= signed /\ tx.inputsToSign[i].scriptPubKeyType \in WitnessType)
    BY <2>1, <2>2, <2>4 DEF Witness
  <2> QED
    BY <2>1, <2>2, <2>3, <2>4
<1> QED
  BY <1>1, <1>2, <1>3, <1>4

LEMMA SentSignatures ==
    ASSUME Signing, Built, NEW i \in DOMAIN Inputs
    PROVE  /\ CommitTo(SignaturesOf(Inputs[i]), tx, i)
           /\ i <= signed => SignaturesOf(Inputs[i]) # <<>>
<1>1. /\ i \in 1..Len(tx.inputsToSign) /\ signed \in 0..Len(tx.inputsToSign)
      /\ Len(tx.inputsToSign) \in Nat
      /\ Inputs[i].sigScript = SigScript(tx, i, signed)
      /\ Inputs[i].witness = Witness(tx, i, signed)
  BY SentInputs
<1>2. CASE ~(i <= signed)
  <2>1. Inputs[i].sigScript.signatures = <<>> /\ Inputs[i].witness.signatures = <<>>
    BY <1>1, <1>2 DEF SigScript, Witness, NoData
  <2>2. SignaturesOf(Inputs[i]) = <<>>
    BY <2>1 DEF SignaturesOf
  <2> QED
    BY <1>2, <2>2 DEF CommitTo
<1>3. CASE i <= signed
  <2>1. i \in 1..signed
    BY <1>1, <1>3
  <2>2. sigScriptData(tx, i) # None
    BY <2>1 DEF Signing, SignedUpTo
  <2>3. tx.inputsToSign[i].redeemScript \in RedeemScript \cup {None}
    BY <1>1, InputFields, WalletAssumption DEF Signing
  <2>4. PICK s : /\ s # <<>> /\ CommitTo(s, tx, i)
                 /\ LET data == sigScriptData(tx, i)
                    IN  \/ /\ tx.inputsToSign[i].scriptPubKeyType \notin WitnessType
                           /\ data.sigScript.signatures = s
                           /\ s \o <<>> = s
                        \/ /\ tx.inputsToSign[i].scriptPubKeyType \in WitnessType
                           /\ data.witness.signatures = s
                           /\ <<>> \o s = s
    BY <2>2, <2>3, AnswerSigns
  <2>5. SignaturesOf(Inputs[i]) = s
    <3>1. CASE tx.inputsToSign[i].scriptPubKeyType \notin WitnessType
      <4>1. Inputs[i].sigScript.signatures = s /\ Inputs[i].witness.signatures = <<>>
        BY <1>1, <1>3, <2>4, <3>1 DEF SigScript, Witness, NoData
      <4> QED
        BY <2>4, <3>1, <4>1 DEF SignaturesOf
    <3>2. CASE tx.inputsToSign[i].scriptPubKeyType \in WitnessType
      <4>1. Inputs[i].sigScript.signatures = <<>> /\ Inputs[i].witness.signatures = s
        BY <1>1, <1>3, <2>4, <3>2 DEF SigScript, Witness, NoData
      <4> QED
        BY <2>4, <3>2, <4>1 DEF SignaturesOf
    <3> QED
      BY <3>1, <3>2
  <2> QED
    BY <2>4, <2>5
<1> QED
  BY <1>2, <1>3

\* Each signature of a transaction that is returned is over that transaction,
\* although the transaction was still being filled while it was signed.
THEOREM SignsWhatIsSent == Spec => []SignsWhatItSends
<1>1. Signing => SignsWhatItSends
  <2> SUFFICES ASSUME Signing, Built, NEW i \in DOMAIN Inputs,
                      NEW j \in DOMAIN SignaturesOf(Inputs[i])
               PROVE  LET digest == SignaturesOf(Inputs[i])[j].digest
                      IN  /\ digest.inputs = [k \in DOMAIN Inputs |-> Inputs[k].outpoint]
                          /\ digest.outputs = result.transaction.outputs
                          /\ digest.index = i
    BY DEF SignsWhatItSends
  <2>1. CommitTo(SignaturesOf(Inputs[i]), tx, i)
    BY SentSignatures
  <2>2. Outpoints(tx) = [k \in DOMAIN Inputs |-> Inputs[k].outpoint]
    BY SentInputs DEF Outpoints, Signing, SignedUpTo, IsList
  <2> QED
    BY <2>1, <2>2, SentInputs DEF CommitTo
<1> QED
  BY <1>1, BuildInv, PTL

\* The signer chain leaves no input of a returned transaction without a
\* signature.
THEOREM NoInputUnsigned == Spec => []AllSignedOrThrown
<1>1. Signing => AllSignedOrThrown
  <2> SUFFICES ASSUME Signing, Built, call.signer = "chain", NEW i \in DOMAIN Inputs
               PROVE  SignaturesOf(Inputs[i]) # <<>>
    BY DEF AllSignedOrThrown
  <2>1. signed = Len(tx.inputsToSign)
    BY DEF Signing
  <2>2. i <= signed
    BY <2>1, SentInputs
  <2> QED
    BY <2>2, SentSignatures
<1> QED
  BY <1>1, BuildInv, PTL

-----------------------------------------------------------------------------
(***************************************************************************)
(* The automatic overload, from the return of select on: the transaction   *)
(* is filled from the answer, which stays what the selector's invariant    *)
(* says it is.                                                             *)
(***************************************************************************)
Answer == Select!Selection /\ pc = "done" /\ outcome.kind # "thrown"

Paying(t) ==
    /\ req = [amount |-> call.value, feeRate |-> call.feeRate,
              receiveType |-> scriptType(t.recipientAddress),
              changeType |-> scriptType(t.changeAddress),
              senderPay |-> call.senderPay, dust |-> dust("P2PKH", dustRelayTxFee),
              limit |-> NoLimit]
    /\ t.recipientAddress # None
    /\ t.recipientValue = outcome.recipientValue
    /\ t.changeValue = IF outcome.kind = "change" THEN outcome.changeValue ELSE 0

FromSelection(t) ==
    /\ DOMAIN t.inputsToSign = DOMAIN outcome.outputs
    /\ \A i \in DOMAIN t.inputsToSign :
        /\ t.inputsToSign[i].outpoint = outcome.outputs[i]
        /\ t.inputsToSign[i].scriptPubKeyType = scriptType(Owner[outcome.outputs[i]])

OutputsOf(t) ==
    (IF t.recipientAddress = None THEN <<>>
     ELSE <<TransactionOutput(t.recipientAddress, t.recipientValue)>>)
 \o (IF t.changeAddress = None THEN <<>>
     ELSE <<TransactionOutput(t.changeAddress, t.changeValue)>>)
 \o [i \in DOMAIN call.other |-> PluginOutput(call.other[i])]

FillsFromAnswer ==
    stage # "idle" /\ call.auto /\ (stage \in {"outputs", "sign", "build"} \/ Built)

Sending ==
    FillsFromAnswer => /\ Answer /\ Paying(tx) /\ FromSelection(tx)
                       /\ stage # "outputs" => tx.outputs = OutputsOf(tx)

\* The rest of a transaction, which signing leaves as it is
SameToPay(t, u) ==
    /\ u.recipientAddress = t.recipientAddress /\ u.recipientValue = t.recipientValue
    /\ u.changeAddress = t.changeAddress /\ u.changeValue = t.changeValue

LEMMA AnswerStays == Answer /\ UNCHANGED selectorVars => Answer'
<1>1. Select!Selection /\ UNCHANGED selectorVars => Select!Selection'
  BY SelectionStep
<1> QED
  BY <1>1 DEF Answer, selectorVars

LEMMA PayingStays ==
    ASSUME Paying(tx), UNCHANGED <<selectorVars, call>>, SameToPay(tx, tx')
    PROVE  Paying(tx)'
  BY DEF Paying, SameToPay, selectorVars

LEMMA FromSelectionStays ==
    ASSUME FromSelection(tx), UNCHANGED selectorVars, SameToSigners(tx, tx')
    PROVE  FromSelection(tx)'
  BY DEF FromSelection, SameToSigners, selectorVars

\* What is sent stays while it is signed.
LEMMA SendingStays ==
    ASSUME Sending, UNCHANGED <<selectorVars, call>>, FillsFromAnswer, stage # "outputs",
           SameToPay(tx, tx'), SameToSigners(tx, tx')
    PROVE  Sending'
<1>1. Answer' /\ Paying(tx)' /\ FromSelection(tx)'
  BY AnswerStays, PayingStays, FromSelectionStays DEF Sending
<1>2. tx.outputs = OutputsOf(tx) /\ tx'.outputs = tx.outputs
  BY DEF Sending, SameToSigners
<1>3. OutputsOf(tx)' = OutputsOf(tx)
  BY DEF OutputsOf, SameToPay
<1> QED
  BY <1>1, <1>2, <1>3 DEF Sending

LEMMA SelectionFills ==
    ASSUME Choosing, SetSelectedInputs, outcome.kind # "thrown"
    PROVE  Answer' /\ Paying(tx)' /\ FromSelection(tx)' /\ stage' = "outputs"
<1>1. /\ stage = "select" /\ pc = "done" /\ call \in Call /\ call.auto /\ Addressed(tx)
      /\ req = RequestOf(tx) /\ Select!Selection /\ IsTransaction(tx)
      /\ UNCHANGED <<selectorVars, call>>
  BY DEF Choosing, SetSelectedInputs
<1>2. Answer'
  BY <1>1, AnswerStays DEF Answer
<1>3. tx.recipientAddress # None /\ tx.recipientValue = call.value /\ tx.changeValue = 0
  <2>1. req.amount > req.dust
    BY <1>1 DEF Select!Selection, Select!Answered
  <2>2. req.amount = tx.recipientValue /\ req.dust = dust("P2PKH", dustRelayTxFee)
    BY <1>1 DEF RequestOf
  <2>3. PICK d \in Nat : d = dust("P2PKH", dustRelayTxFee)
    BY SizesType
  <2>4. tx.recipientValue # 0
    BY <2>1, <2>2, <2>3
  <2> QED
    BY <1>1, <2>4 DEF Addressed
<1>4. PICK list : list = [i \in DOMAIN outcome.outputs |->
                            InputToSign(outcome.outputs[i], scriptType(Owner[outcome.outputs[i]]))]
  OBVIOUS
<1>5. /\ tx'.inputsToSign = list
      /\ tx'.recipientAddress = tx.recipientAddress
      /\ tx'.recipientValue = outcome.recipientValue
      /\ tx'.changeAddress = tx.changeAddress
      /\ tx'.changeValue = IF outcome.kind = "change" THEN outcome.changeValue ELSE 0
  <2>1. tx' = [Amounts(tx, outcome) EXCEPT !.inputsToSign = list]
    BY <1>4 DEF SetSelectedInputs
  <2>2. CASE outcome.kind = "change"
    BY <1>1, <2>1, <2>2 DEF Amounts, IsTransaction
  <2>3. CASE outcome.kind # "change"
    BY <1>1, <1>3, <2>1, <2>3 DEF Amounts, IsTransaction
  <2> QED
    BY <2>2, <2>3
<1>6. Paying(tx)'
  BY <1>1, <1>3, <1>5 DEF Paying, RequestOf, selectorVars
<1>7. FromSelection(tx)'
  <2>1. \A i \in DOMAIN list : /\ list[i].outpoint = outcome.outputs[i]
                               /\ list[i].scriptPubKeyType = scriptType(Owner[outcome.outputs[i]])
    BY <1>4 DEF InputToSign
  <2> QED
    BY <1>1, <1>4, <1>5, <2>1 DEF FromSelection, selectorVars
<1>8. stage' = "outputs"
  BY <1>1, Onward DEF SetSelectedInputs
<1> QED
  BY <1>2, <1>6, <1>7, <1>8

LEMMA SendingStep == Choosing /\ Signing /\ Sending /\ [Next]_vars => Sending'
<1> SUFFICES ASSUME Choosing, Signing, Sending, [Next]_vars PROVE Sending'
  OBVIOUS
<1>1. stage \in Stages /\ (stage # "done" => ~Built) /\ (stage # "idle" => call \in Call)
  BY DEF Choosing, Signing
<1>2. ASSUME stage' \in {"idle", "recipient", "change", "inputs", "select"}, ~Built'
      PROVE  Sending'
  BY <1>2 DEF Sending, FillsFromAnswer
<1>3. ASSUME ~call'.auto PROVE Sending'
  BY <1>3 DEF Sending, FillsFromAnswer
<1>4. ASSUME NEW e, Throw(e) PROVE Sending'
  BY <1>4 DEF Sending, FillsFromAnswer, Throw, Built, Thrown
<1>5. ASSUME stage # "done", result' = result PROVE ~Built'
  BY <1>1, <1>5 DEF Built
<1>6. CASE Build
  BY <1>2, <1>5, <1>6 DEF Build
<1>7. CASE SetRecipient
  <2>1. (stage' = "change" /\ result' = result) \/ Throw("AddressFormat")
    BY <1>1, <1>7, Onward DEF SetRecipient, Continue
  <2> QED
    BY <1>2, <1>4, <1>5, <1>7, <2>1 DEF SetRecipient
<1>8. CASE SetChange
  <2>1. \/ stage' = Following("change") /\ result' = result /\ call' = call
        \/ Throw("AddressFormat")
    BY <1>8 DEF SetChange, Continue
  <2>2. call.auto => Following("change") = "inputs"
    BY DEF Following
  <2> QED
    BY <1>2, <1>3, <1>4, <1>5, <1>8, <2>1, <2>2 DEF SetChange
<1>9. CASE SetManualInputs
  BY <1>3, <1>9 DEF SetManualInputs, Continue
<1>10. CASE CallSelect
  BY <1>2, <1>5, <1>10 DEF CallSelect
<1>11. CASE Selecting
  BY <1>2, <1>5, <1>11 DEF Selecting, builderVars
<1>12. CASE SetSelectedInputs
  <2>1. CASE outcome.kind = "thrown"
    BY <1>4, <1>12, <2>1 DEF SetSelectedInputs
  <2>2. CASE outcome.kind # "thrown"
    BY <1>12, <2>2, SelectionFills DEF Sending
  <2> QED
    BY <2>1, <2>2
<1>13. CASE SetOutputs
  <2> SUFFICES ASSUME call.auto PROVE Sending'
    BY <1>3, <1>13 DEF SetOutputs, Continue
  <2>1. /\ stage = "outputs" /\ UNCHANGED <<selectorVars, call>>
        /\ Answer /\ Paying(tx) /\ FromSelection(tx)
    BY <1>13 DEF SetOutputs, Continue, Sending, FillsFromAnswer
  <2>2. tx' = [tx EXCEPT !.outputs = OutputsOf(tx)]
    BY <1>13 DEF SetOutputs, Continue, OutputsOf
  <2>3. /\ SameToPay(tx, tx') /\ tx'.inputsToSign = tx.inputsToSign
        /\ tx'.outputs = OutputsOf(tx)
    BY <2>2 DEF Choosing, IsTransaction, SameToPay
  <2>4. Answer' /\ Paying(tx)'
    BY <2>1, <2>3, AnswerStays, PayingStays
  <2>5. FromSelection(tx)'
    BY <2>1, <2>3 DEF FromSelection, selectorVars
  <2>6. OutputsOf(tx)' = OutputsOf(tx)
    BY <2>1, <2>3 DEF OutputsOf, SameToPay
  <2> QED
    BY <2>3, <2>4, <2>5, <2>6 DEF Sending
<1>14. CASE SignInput
  <2> SUFFICES ASSUME call.auto, stage' # "done", stage = "sign" PROVE Sending'
    BY <1>3, <1>4, <1>14 DEF SignInput, Throw
  <2>1. PICK data : data = sigScriptData(tx, signed + 1)
    OBVIOUS
  <2>2. /\ tx' = SignedWith(tx, signed + 1, data) /\ data # None
        /\ UNCHANGED <<selectorVars, call>> /\ signed < Len(tx.inputsToSign)
    BY <1>14, <2>1 DEF SignInput, SignedWith, Throw
  <2>3. SameToSigners(tx, tx')
    BY <2>1, <2>2, SignsNext DEF Choosing, Signing
  <2>4. SameToPay(tx, tx')
    BY <2>2 DEF Choosing, IsTransaction, SignedWith, SameToPay
  <2>5. FillsFromAnswer
    BY DEF FillsFromAnswer
  <2> QED
    BY <2>2, <2>3, <2>4, <2>5, SendingStays
<1>15. ASSUME UNCHANGED <<selectorVars, call, tx>>, FillsFromAnswer, stage # "outputs"
       PROVE  Sending'
  <2>1. SameToPay(tx, tx') /\ SameToSigners(tx, tx')
    BY <1>15 DEF SameToPay, SameToSigners
  <2> QED
    BY <1>15, <2>1, SendingStays
<1>16. CASE Signed
  <2>1. stage = "sign" /\ UNCHANGED <<selectorVars, call, tx>>
    BY <1>16 DEF Signed, Continue
  <2> QED
    BY <1>3, <1>15, <2>1 DEF FillsFromAnswer
<1>17. CASE MakeTransaction
  <2>1. stage = "build" /\ UNCHANGED <<selectorVars, call, tx>>
    BY <1>17 DEF MakeTransaction
  <2> QED
    BY <1>3, <1>15, <2>1 DEF FillsFromAnswer
<1>18. CASE BuildAgain
  BY <1>18 DEF BuildAgain, Sending, FillsFromAnswer
<1>19. CASE UNCHANGED vars
  <2>1. Answer => Answer'
    BY <1>19, AnswerStays DEF vars
  <2> QED
    BY <1>19, <2>1 DEF vars, builderVars, selectorVars, Sending, FillsFromAnswer, Built,
                       Paying, FromSelection, OutputsOf
<1> QED
  BY <1>6, <1>7, <1>8, <1>9, <1>10, <1>11, <1>12, <1>13, <1>14, <1>16, <1>17, <1>18, <1>19 DEF Next

LEMMA SendingInv == Spec => [](Choosing /\ Signing /\ Sending)
<1>1. Init => Sending
  BY DEF Init, Sending, FillsFromAnswer
<1>2. Choosing /\ Signing /\ Sending /\ [Next]_vars => Sending'
  BY SendingStep
<1> QED
  BY <1>1, <1>2, BuildInv, PTL DEF Spec

-----------------------------------------------------------------------------
(***************************************************************************)
(* The signatures are the ones that the owners' scripts ask for.           *)
(***************************************************************************)
LEMMA PlaceFound ==
    ASSUME NEW N \in Nat, NEW H \in SUBSET (1..N), NEW j \in 1..Cardinality(H)
    PROVE  Place(H, j) \in H /\ Cardinality({h \in H : h <= Place(H, j)}) = j
<1> DEFINE Upto(k) == {h \in H : h <= k}
           Count(k) == Cardinality(Upto(k))
<1>1. /\ IsFiniteSet(H) /\ Cardinality(H) \in Nat /\ j \in Nat /\ 1 <= j /\ j <= Cardinality(H)
      /\ \A h \in H : h \in Nat /\ 1 <= h /\ h <= N
  <2>1. IsFiniteSet(1..N) /\ H \subseteq 1..N
    BY FS_Interval
  <2>2. IsFiniteSet(H) /\ Cardinality(H) \in Nat
    BY <2>1, FS_Subset, FS_CardinalityType
  <2> QED
    BY <2>2
<1>2. \A k \in Nat : IsFiniteSet(Upto(k)) /\ Count(k) \in Nat
  <2>1. \A k \in Nat : Upto(k) \subseteq H
    OBVIOUS
  <2>2. \A k \in Nat : IsFiniteSet(Upto(k))
    BY <1>1, <2>1, FS_Subset
  <2> QED
    BY <2>2, FS_CardinalityType
<1>3. Count(N) = Cardinality(H) /\ Count(0) = 0
  <2>1. Upto(N) = H
    BY <1>1
  <2>2. Upto(0) = {}
    <3>1. \A h \in H : ~(h <= 0)
      BY <1>1
    <3> QED
      BY <3>1
  <2> QED
    BY <2>1, <2>2, FS_EmptySet
<1>4. ASSUME NEW k \in Nat \ {0}
      PROVE  Count(k) = IF k \in H THEN Count(k - 1) + 1 ELSE Count(k - 1)
  <2>1. \A h \in H : h <= k <=> h <= k - 1 \/ h = k
    BY <1>1
  <2>2. k - 1 \in Nat /\ ~(k <= k - 1)
    OBVIOUS
  <2>3. IsFiniteSet(Upto(k - 1)) /\ k \notin Upto(k - 1)
    BY <1>2, <2>2
  <2>4. CASE k \in H
    <3>1. Upto(k) = Upto(k - 1) \cup {k}
      BY <2>1, <2>4
    <3> QED
      BY <2>3, <2>4, <3>1, FS_AddElement
  <2>5. CASE k \notin H
    <3>1. Upto(k) = Upto(k - 1)
      BY <2>1, <2>5
    <3> QED
      BY <2>5, <3>1
  <2> QED
    BY <2>4, <2>5
<1> DEFINE Enough == {k \in Nat : Count(k) >= j}
<1> HIDE DEF Count
<1>5. N \in Enough
  BY <1>1, <1>3
<1>6. PICK k \in Nat : k \in Enough /\ \A l \in Enough : k <= l
  BY <1>5, LeastNumber
<1>7. k # 0
  BY <1>1, <1>3, <1>6
<1>8. k - 1 \in Nat /\ ~(k <= k - 1)
  BY <1>7
<1>9. Count(k - 1) \in Nat /\ Count(k) \in Nat /\ ~(Count(k - 1) >= j) /\ Count(k) >= j
  BY <1>2, <1>6, <1>8 DEF Count
<1>10. Count(k) = IF k \in H THEN Count(k - 1) + 1 ELSE Count(k - 1)
  BY <1>4, <1>7
<1>11. k \in H /\ Count(k) = j
  BY <1>1, <1>9, <1>10
<1> QED
  BY <1>11 DEF Place, Count

LEMMA PlacesAscend ==
    ASSUME NEW N \in Nat, NEW H \in SUBSET (1..N), NEW i \in 1..Cardinality(H),
           NEW j \in 1..Cardinality(H), i < j
    PROVE  Place(H, i) < Place(H, j)
<1>1. PICK p \in H : p = Place(H, i) /\ Cardinality({h \in H : h <= p}) = i
  BY PlaceFound
<1>2. PICK q \in H : q = Place(H, j) /\ Cardinality({h \in H : h <= q}) = j
  BY PlaceFound
<1>3. IsFiniteSet(1..N) /\ H \subseteq 1..N
  <2>1. IsFiniteSet(1..N)
    BY FS_Interval
  <2> QED
    BY <2>1
<1>4. p \in Nat /\ q \in Nat /\ \A h \in H : h \in Nat
  BY <1>3
<1> SUFFICES ASSUME q <= p PROVE FALSE
  BY <1>1, <1>2, <1>4
<1>5. \A h \in H : h <= q => h <= p
  BY <1>4
<1>6. {h \in H : h <= q} \subseteq {h \in H : h <= p} /\ {h \in H : h <= p} \subseteq H
  BY <1>5
<1>7. IsFiniteSet(H) /\ Cardinality(H) \in Nat
  BY <1>3, FS_Subset, FS_CardinalityType
<1>8. Cardinality({h \in H : h <= q}) <= Cardinality({h \in H : h <= p})
  BY <1>6, <1>7, FS_Subset
<1>9. j <= i /\ i \in Nat /\ j \in Nat
  BY <1>1, <1>2, <1>7, <1>8
<1> QED
  BY <1>9

\* With enough keys, as many sign as the script asks for, in its order.
InOrder(script, at) ==
    \A j \in 1..script.m : /\ SigningKeys(script)[j] = script.keys[at[j]]
                           /\ j > 1 => at[j - 1] < at[j]
LEMMA KeysInOrder ==
    ASSUME NEW script \in RedeemScript, Cardinality(HeldAt(script)) >= script.m
    PROVE  /\ DOMAIN SigningKeys(script) = 1..script.m
           /\ \E at \in [1..script.m -> DOMAIN script.keys] : InOrder(script, at)
<1> DEFINE H == HeldAt(script)
<1>1. PICK m \in 1..16 : m = script.m
  BY HeldKeys
<1>2. PICK c \in Nat : c = Cardinality(H) /\ m <= c
  BY <1>1, HeldKeys
<1>3. PICK n \in Nat : /\ SigningKeys(script) = [j \in 1..n |-> script.keys[Place(H, j)]]
                       /\ n <= m /\ (n = m \/ n = c)
  BY <1>1, <1>2, KeysThatSign
<1>4. n = m
  BY <1>2, <1>3
<1>5. PICK N \in Nat : H \subseteq 1..N /\ DOMAIN script.keys = 1..N
  BY HeldKeys
<1> HIDE DEF H
<1>6. \A j \in 1..m : j \in 1..Cardinality(H)
  BY <1>2
<1>7. PICK at : at = [j \in 1..m |-> Place(H, j)]
  OBVIOUS
<1>8. at \in [1..m -> DOMAIN script.keys]
  BY <1>5, <1>6, <1>7, PlaceFound
<1>9. ASSUME NEW j \in 1..m
      PROVE  /\ SigningKeys(script)[j] = script.keys[at[j]]
             /\ j > 1 => at[j - 1] < at[j]
  <2>1. SigningKeys(script)[j] = script.keys[at[j]]
    BY <1>3, <1>4, <1>7
  <2>2. ASSUME j > 1 PROVE at[j - 1] < at[j]
    <3>1. j - 1 \in 1..m /\ j - 1 < j
      BY <2>2
    <3> QED
      BY <1>5, <1>6, <1>7, <3>1, PlacesAscend
  <2> QED
    BY <2>1, <2>2
<1>10. DOMAIN SigningKeys(script) = 1..m
  BY <1>3, <1>4
<1> QED
  BY <1>1, <1>8, <1>9, <1>10 DEF InOrder

LEMMA DigestFields ==
    ASSUME NEW t, NEW i, NEW script, NEW isWitness
    PROVE  LET digest == Digest(t, i, script, isWitness)
           IN  /\ digest.index = i /\ digest.script = script /\ digest.isWitness = isWitness
               /\ isWitness => digest.value = t.inputsToSign[i].value
  BY DEF Digest

\* An input of the transaction t that carries what the first n of t carry
LEMMA KeyUnlocks ==
    ASSUME NEW t, NEW n, SignedUpTo(t, n), NEW i \in 1..n, NEW type \in {"P2PKH", "P2WPKH"},
           NEW u \in Utxo, t.inputsToSign[i].outpoint = u,
           t.inputsToSign[i].scriptPubKeyType = type, AddressType[Owner[u]] = type,
           NEW input, input.outpoint = u, input.sigScript = SigScript(t, i, n),
           input.witness = Witness(t, i, n)
    PROVE  Unlocks(input, i, Owner[u], Redeem[u])
<1>1. /\ i \in 1..Len(t.inputsToSign) /\ i <= n /\ sigScriptData(t, i) # None
  BY DEF SignedUpTo, IsList
<1>2. /\ t.inputsToSign[i].address = Owner[u] /\ t.inputsToSign[i].value = Info[u].value
      /\ t.inputsToSign[i].isWitness = (type \in WitnessType)
  BY <1>1, InputFields
<1>3. Answers(t, i)
  BY <1>1, ChainAnswers
<1>4. PICK of : /\ of = IF type = "P2PKH" THEN [of |-> "address", at |-> Owner[u]]
                                          ELSE [of |-> "keyHash", at |-> KeyOf[Owner[u]]]
  OBVIOUS
<1>5. PICK data : data = KeyData(t, i, of)
  OBVIOUS
<1>6. /\ input.sigScript = IF type = "P2PKH" THEN data ELSE NoData
      /\ input.witness = IF type = "P2PKH" THEN NoData ELSE data
  BY <1>1, <1>2, <1>3, <1>4, <1>5 DEF Answers, ScriptData, SigScript, Witness, WitnessType
<1>7. PICK sig : sig = Sign(KeyOf[Owner[u]], Digest(t, i, of, t.inputsToSign[i].isWitness))
  OBVIOUS
<1>8. data.reveals = KeyOf[Owner[u]] /\ data.signatures = <<sig>>
  BY <1>2, <1>5, <1>7 DEF KeyData
<1>9. /\ sig.key = KeyOf[Owner[u]] /\ sig.digest.index = i /\ sig.digest.script = of
      /\ sig.digest.isWitness = (type \in WitnessType)
      /\ type \in WitnessType => sig.digest.value = Info[u].value
  <2>1. PICK w : w = t.inputsToSign[i].isWitness /\ w = (type \in WitnessType)
    BY <1>2
  <2>2. PICK digest : digest = Digest(t, i, of, w)
    OBVIOUS
  <2>3. /\ digest.index = i /\ digest.script = of /\ digest.isWitness = w
        /\ w => digest.value = Info[u].value
    BY <1>2, <2>2, DigestFields
  <2>4. sig.key = KeyOf[Owner[u]] /\ sig.digest = digest
    BY <1>7, <2>1, <2>2 DEF Sign
  <2> QED
    BY <2>1, <2>3, <2>4
<1>10. Len(<<sig>>) = 1 /\ <<sig>>[1] = sig /\ DOMAIN <<sig>> = {1}
  OBVIOUS
<1>11. CASE type = "P2PKH"
  BY <1>4, <1>6, <1>8, <1>9, <1>10, <1>11 DEF Unlocks, WitnessType
<1>12. CASE type = "P2WPKH"
  BY <1>4, <1>6, <1>8, <1>9, <1>10, <1>12 DEF Unlocks, WitnessType
<1> QED
  BY <1>11, <1>12

\* The case of Unlocks for a script hash, with what unlocks the input named
SignedFor(input, i, a, script, data) ==
    /\ AddressType[a] \notin {"P2PKH", "P2WPKH"}
    /\ (IF AddressType[a] \in WitnessType THEN input.witness ELSE input.sigScript) = data
    /\ (IF AddressType[a] \in WitnessType THEN input.sigScript ELSE input.witness) = NoData
    /\ data.reveals = script /\ Len(data.signatures) = script.m
    /\ \E at \in [1..script.m -> DOMAIN script.keys] :
         \A j \in 1..script.m : /\ data.signatures[j].key = script.keys[at[j]]
                                /\ j > 1 => at[j - 1] < at[j]
    /\ \A j \in DOMAIN data.signatures :
         LET digest == data.signatures[j].digest
         IN  /\ digest.isWitness = (AddressType[a] \in WitnessType)
             /\ AddressType[a] \in WitnessType => digest.value = Info[input.outpoint].value
             /\ digest.script = [of |-> "redeem", at |-> script]
             /\ digest.index = i

LEMMA RedeemUnlocks ==
    ASSUME NEW input, NEW i, NEW a, NEW script, NEW data,
           SignedFor(input, i, a, script, data)
    PROVE  Unlocks(input, i, a, script)
<1> USE DEF SignedFor
<1>1. ASSUME AddressType[a] \in WitnessType
      PROVE  Unlocks(input, i, a, script)
  <2>1. input.witness = data /\ input.sigScript = NoData
    BY <1>1
  <2>2. \A j \in DOMAIN data.signatures :
                LET digest == data.signatures[j].digest
                IN  /\ digest.isWitness = (AddressType[a] \in WitnessType)
                    /\ AddressType[a] \in WitnessType
                         => digest.value = Info[input.outpoint].value
                    /\ digest.script = [of |-> "redeem", at |-> script]
                    /\ digest.index = i
    BY <1>1
  <2> QED
    BY <1>1, <2>1, <2>2 DEF Unlocks
<1>2. ASSUME AddressType[a] \notin WitnessType
      PROVE  Unlocks(input, i, a, script)
  <2>1. input.sigScript = data /\ input.witness = NoData
    BY <1>2
  <2> QED
    BY <1>2, <2>1 DEF Unlocks
<1> QED
  BY <1>1, <1>2

LEMMA ScriptUnlocks ==
    ASSUME NEW t, NEW n, SignedUpTo(t, n), NEW i \in 1..n, NEW type \in {"P2SH", "P2WSH"},
           NEW u \in Utxo, t.inputsToSign[i].outpoint = u,
           t.inputsToSign[i].scriptPubKeyType = type, AddressType[Owner[u]] = type,
           NEW input, input.outpoint = u, input.sigScript = SigScript(t, i, n),
           input.witness = Witness(t, i, n), EnoughKeys(u)
    PROVE  Unlocks(input, i, Owner[u], Redeem[u])
<1>1. /\ i \in 1..Len(t.inputsToSign) /\ i <= n /\ sigScriptData(t, i) # None
  BY DEF SignedUpTo, IsList
<1>2. /\ t.inputsToSign[i].redeemScript = Redeem[u] /\ t.inputsToSign[i].value = Info[u].value
      /\ t.inputsToSign[i].isWitness = (type \in WitnessType)
  BY <1>1, InputFields
<1>3. Answers(t, i)
  BY <1>1, ChainAnswers
<1>4. Redeem[u] # None /\ Redeem[u] \in RedeemScript
  <2>1. Redeem[u] # None
    BY <1>2, <1>3 DEF Answers
  <2> QED
    BY <2>1, WalletAssumption
<1>5. PICK script \in RedeemScript : script = Redeem[u]
  BY <1>4
<1>6. PICK data : data = RedeemData(t, i)
  OBVIOUS
<1>7. /\ input.sigScript = IF type = "P2SH" THEN data ELSE NoData
      /\ input.witness = IF type = "P2SH" THEN NoData ELSE data
  BY <1>1, <1>3, <1>6 DEF Answers, ScriptData, SigScript, Witness, WitnessType
<1>8. Cardinality(HeldAt(script)) >= script.m
  BY <1>4, <1>5 DEF EnoughKeys, HeldAt
<1>9. PICK m \in 1..16 : m = script.m
  BY HeldKeys
<1>10. PICK at \in [1..m -> DOMAIN script.keys] : InOrder(script, at)
  BY <1>8, <1>9, KeysInOrder
<1>11. PICK digest : digest = RedeemDigest(t, i)
  OBVIOUS
<1>12. PICK s : s = [j \in 1..m |-> Sign(SigningKeys(script)[j], digest)]
  OBVIOUS
<1>13. data.reveals = script /\ data.signatures = s
  BY <1>2, <1>5, <1>6, <1>8, <1>9, <1>11, <1>12, KeysInOrder DEF RedeemData
<1>14. Len(s) = m /\ DOMAIN s = 1..m
  BY <1>12
<1>15. \A j \in 1..m : s[j].key = SigningKeys(script)[j] /\ s[j].digest = digest
  BY <1>12 DEF Sign
<1>16. \A j \in 1..m : s[j].key = script.keys[at[j]] /\ (j > 1 => at[j - 1] < at[j])
  BY <1>9, <1>10, <1>15 DEF InOrder
<1>17. /\ digest.index = i /\ digest.script = [of |-> "redeem", at |-> script]
       /\ digest.isWitness = (type \in WitnessType)
       /\ type \in WitnessType => digest.value = Info[u].value
  <2>1. PICK w : w = t.inputsToSign[i].isWitness /\ w = (type \in WitnessType)
    BY <1>2
  <2>2. digest = Digest(t, i, [of |-> "redeem", at |-> script], w)
    BY <1>2, <1>5, <1>11, <2>1 DEF RedeemDigest
  <2>3. /\ digest.index = i /\ digest.script = [of |-> "redeem", at |-> script]
        /\ digest.isWitness = w
        /\ w => digest.value = Info[u].value
    BY <1>2, <2>2, DigestFields
  <2> QED
    BY <2>1, <2>3
<1>18. PICK a : a = Owner[u] /\ AddressType[a] = type /\ a \in Address
  BY WalletAssumption
<1>19. AddressType[a] \notin {"P2PKH", "P2WPKH"}
  BY <1>18
<1>20. /\ (IF AddressType[a] \in WitnessType THEN input.witness ELSE input.sigScript) = data
       /\ (IF AddressType[a] \in WitnessType THEN input.sigScript ELSE input.witness) = NoData
  BY <1>7, <1>18 DEF WitnessType
<1>21. data.reveals = script /\ Len(data.signatures) = script.m
  BY <1>9, <1>13, <1>14
<1>22. \E places \in [1..script.m -> DOMAIN script.keys] :
         \A j \in 1..script.m : /\ data.signatures[j].key = script.keys[places[j]]
                                /\ j > 1 => places[j - 1] < places[j]
  BY <1>9, <1>13, <1>16
<1>23. \A j \in DOMAIN data.signatures :
         LET d == data.signatures[j].digest
         IN  /\ d.isWitness = (AddressType[a] \in WitnessType)
             /\ AddressType[a] \in WitnessType => d.value = Info[input.outpoint].value
             /\ d.script = [of |-> "redeem", at |-> script]
             /\ d.index = i
  BY <1>13, <1>14, <1>15, <1>17, <1>18
<1>24. Unlocks(input, i, a, script)
  <2>1. SignedFor(input, i, a, script, data)
    BY <1>19, <1>20, <1>21, <1>22, <1>23 DEF SignedFor
  <2> QED
    BY <2>1, RedeemUnlocks
<1> QED
  BY <1>5, <1>18, <1>24

\* Whatever the mix of inputs, what the automatic overload signs with enough
\* keys can be spent.
THEOREM AutoSpends == Spec => []AutoBuildSpends
<1>1. Choosing /\ Signing /\ Sending => AutoBuildSpends
  <2> SUFFICES ASSUME Choosing, Signing, Sending, Built, call.auto, call.signer = "chain",
                      NEW i \in DOMAIN Inputs, NEW u, u = Inputs[i].outpoint, EnoughKeys(u)
               PROVE  Unlocks(Inputs[i], i, Owner[u], Redeem[u])
    BY DEF AutoBuildSpends
  <2>1. /\ i \in 1..signed /\ i \in 1..Len(tx.inputsToSign)
        /\ u = tx.inputsToSign[i].outpoint
        /\ Inputs[i].sigScript = SigScript(tx, i, signed)
        /\ Inputs[i].witness = Witness(tx, i, signed)
    BY SentInputs DEF Signing
  <2>2. SignedUpTo(tx, signed) /\ u \in Utxo
    BY <2>1 DEF Signing, SignedUpTo
  <2>3. FromSelection(tx)
    BY DEF Signing, Sending, FillsFromAnswer
  <2>4. PICK type : type = scriptType(Owner[u]) /\ tx.inputsToSign[i].scriptPubKeyType = type
    BY <2>1, <2>2, <2>3 DEF FromSelection, SignedUpTo, IsList
  <2>5. sigScriptData(tx, i) # None
    BY <2>1, <2>2 DEF SignedUpTo
  <2>6. Answers(tx, i)
    BY <2>5, ChainAnswers
  <2>7. type \in {"P2PKH", "P2WPKH"} \/ type \in {"P2SH", "P2WSH"}
    BY <2>4, <2>6 DEF Answers
  <2>8. AddressType[Owner[u]] = type
    BY <2>4, <2>7 DEF scriptType
  <2>9. CASE type \in {"P2PKH", "P2WPKH"}
    BY <2>1, <2>2, <2>4, <2>8, <2>9, KeyUnlocks
  <2>10. CASE type \in {"P2SH", "P2WSH"}
    BY <2>1, <2>2, <2>4, <2>8, <2>10, ScriptUnlocks
  <2> QED
    BY <2>7, <2>9, <2>10
<1> QED
  BY <1>1, SendingInv, PTL

-----------------------------------------------------------------------------
(***************************************************************************)
(* The money. What select answers is balanced; the builder pays out what   *)
(* the answer says, and nothing besides.                                   *)
(***************************************************************************)
LEMMA SameSums == \A f : Select!SumFunction(f) = SumFunction(f)
  BY DEF Select!SumFunction, SumFunction, Select!SumFunctionOnSet, SumFunctionOnSet,
         Select!FoldFunctionOnSet, FoldFunctionOnSet, Select!MapThenFoldSet, MapThenFoldSet

\* The sum of a list whose values after the first, or the first two, are zero
LEMMA FirstAddUp ==
    ASSUME NEW n \in Nat, NEW k \in {1, 2}, NEW v, DOMAIN v = 1..(k + n),
           \A i \in 1..(k + n) : v[i] \in Int, \A i \in 1..(k + n) : i > k => v[i] = 0
    PROVE  SumFunction(v) = v[1] + (IF k = 1 THEN 0 ELSE v[2])
<1>1. Select!ZeroBeyond(v, k, n)
  BY DEF Select!ZeroBeyond
<1>2. Select!SumFunction(v) = v[1] + (IF k = 1 THEN 0 ELSE v[2])
  BY <1>1, Select!SumOfFirst, WalletAssumption, RedeemPushAssumption
     DEF Request, Select!UnspentOutput, UnspentOutput, Select!ScriptType, ScriptType,
         Select!IsFiniteSet, IsFiniteSet
<1> QED
  BY <1>2, SameSums

LEMMA AnswerIsBalanced == Answer /\ req.limit = NoLimit => Select!Balance
  BY Select!AnswerBalances, WalletAssumption, RedeemPushAssumption
     DEF Answer, Request, Select!UnspentOutput, UnspentOutput, Select!ScriptType, ScriptType,
         Select!IsFiniteSet, IsFiniteSet

\* The outputs of a transaction with a recipient: its own first, that of the
\* change if there is one, and no value in the others.
LEMMA OutputsPayOut ==
    ASSUME NEW t, t.recipientAddress # None, t.recipientValue \in Int, t.changeValue \in Int,
           call.other \in Seq(OtherScript), t.outputs = OutputsOf(t),
           NEW outs, outs = SerializedOutputs(t)
    PROVE  /\ outs[1].value = t.recipientValue
           /\ SumFunction([i \in DOMAIN outs |-> outs[i].value])
                = t.recipientValue + (IF t.changeAddress = None THEN 0 ELSE t.changeValue)
<1>1. PICK n \in Nat : n = Len(call.other) /\ DOMAIN call.other = 1..n
  OBVIOUS
<1>2. PICK plugins : plugins = [i \in 1..n |-> PluginOutput(call.other[i])]
  OBVIOUS
<1>3. PICK pay, change : /\ pay = TransactionOutput(t.recipientAddress, t.recipientValue)
                         /\ change = TransactionOutput(t.changeAddress, t.changeValue)
  OBVIOUS
<1>4. PICK k \in {1, 2} : k = IF t.changeAddress = None THEN 1 ELSE 2
  OBVIOUS
<1>5. PICK first : first = IF k = 1 THEN <<pay>> ELSE <<pay>> \o <<change>>
  OBVIOUS
<1>6. PICK all : all = t.outputs
  OBVIOUS
<1>7. all = first \o plugins
  <2>1. plugins = [i \in DOMAIN call.other |-> PluginOutput(call.other[i])]
    BY <1>1, <1>2
  <2>2. CASE k = 1
    <3>1. <<pay>> \o <<>> = <<pay>>
      OBVIOUS
    <3> QED
      BY <1>3, <1>4, <1>5, <1>6, <2>1, <2>2, <3>1 DEF OutputsOf
  <2>3. CASE k = 2
    BY <1>3, <1>4, <1>5, <1>6, <2>1, <2>3 DEF OutputsOf
  <2> QED
    BY <2>2, <2>3
<1>8. /\ DOMAIN all = 1..(k + n) /\ all[1] = pay /\ (k = 2 => all[2] = change)
      /\ \A i \in 1..(k + n) : i > k => all[i] = plugins[i - k]
  <2>1. PICK S : S = {pay, change} \cup {plugins[i] : i \in 1..n}
    OBVIOUS
  <2>2. plugins \in Seq(S) /\ Len(plugins) = n
    BY <1>2, <2>1
  <2>3. /\ first \in Seq(S) /\ Len(first) = k /\ first[1] = pay
        /\ k = 2 => first[2] = change
    <3>1. <<pay>> \in Seq(S) /\ <<change>> \in Seq(S)
      BY <2>1
    <3>2. /\ Len(<<pay>>) = 1 /\ Len(<<change>>) = 1
          /\ <<pay>>[1] = pay /\ <<change>>[1] = change
      OBVIOUS
    <3>3. CASE k = 1
      BY <1>5, <3>1, <3>2, <3>3
    <3>4. CASE k = 2
      <4>1. PICK a, b : a = <<pay>> /\ b = <<change>>
        OBVIOUS
      <4>2. /\ a \o b \in Seq(S) /\ Len(a \o b) = 1 + 1
            /\ \A i \in 1..(1 + 1) : (a \o b)[i] = IF i <= 1 THEN a[i] ELSE b[i - 1]
        BY <3>1, <3>2, <4>1, ConcatProperties
      <4>3. (a \o b)[1] = a[1] /\ (a \o b)[2] = b[1]
        BY <4>2
      <4> QED
        BY <1>5, <3>2, <3>4, <4>1, <4>2, <4>3
    <3> QED
      BY <3>3, <3>4
  <2>4. /\ Len(all) = k + n /\ all \in Seq(S)
        /\ \A i \in 1..(k + n) : all[i] = IF i <= k THEN first[i] ELSE plugins[i - k]
    BY <1>7, <2>2, <2>3, ConcatProperties
  <2>5. DOMAIN all = 1..(k + n)
    BY <2>4
  <2>6. 1 \in 1..(k + n) /\ 1 <= k /\ (k = 2 => 2 \in 1..(k + n) /\ 2 <= k)
    OBVIOUS
  <2> QED
    BY <2>3, <2>4, <2>5, <2>6
<1>9. /\ Serialized(pay).value = t.recipientValue
      /\ k = 2 => Serialized(change).value = t.changeValue
      /\ \A i \in 1..n : Serialized(plugins[i]).value = 0
  <2>1. Serialized(pay).value = t.recipientValue
    BY <1>3 DEF TransactionOutput, Serialized
  <2>2. k = 2 => Serialized(change).value = t.changeValue
    BY <1>3, <1>4 DEF TransactionOutput, Serialized
  <2>3. \A i \in 1..n : Serialized(plugins[i]).value = 0
    BY <1>2 DEF PluginOutput, Serialized
  <2> QED
    BY <2>1, <2>2, <2>3
<1>10. PICK v : v = [i \in DOMAIN outs |-> outs[i].value]
  OBVIOUS
<1>11. /\ DOMAIN v = 1..(k + n) /\ DOMAIN outs = 1..(k + n)
       /\ \A i \in 1..(k + n) : v[i] = Serialized(all[i]).value /\ outs[i].value = v[i]
  BY <1>6, <1>8, <1>10 DEF SerializedOutputs
<1>12. /\ v[1] = t.recipientValue /\ outs[1].value = v[1]
       /\ k = 2 => v[2] = t.changeValue
       /\ \A i \in 1..(k + n) : i > k => v[i] = 0
  <2>1. 1 \in 1..(k + n) /\ (k = 2 => 2 \in 1..(k + n))
    OBVIOUS
  <2>2. \A i \in 1..(k + n) : i > k => i - k \in 1..n
    OBVIOUS
  <2>3. \A i \in 1..(k + n) : i > k => v[i] = 0
    BY <1>8, <1>9, <1>11, <2>2
  <2> QED
    BY <1>8, <1>9, <1>11, <2>1, <2>3
<1>13. \A i \in 1..(k + n) : v[i] \in Int
  <2>1. \A i \in 1..(k + n) : i > k \/ i = 1 \/ (k = 2 /\ i = 2)
    OBVIOUS
  <2> QED
    BY <1>12, <2>1
<1>14. SumFunction(v) = v[1] + (IF k = 1 THEN 0 ELSE v[2])
  BY <1>11, <1>12, <1>13, FirstAddUp
<1> QED
  BY <1>4, <1>10, <1>12, <1>14

LEMMA BalancedWhenBuilt ==
    ASSUME Choosing, Signing, Sending, Built, call.auto
    PROVE  Balanced
<1>1. stage = "done" /\ call \in Call /\ Answer /\ Paying(tx) /\ FromSelection(tx)
      /\ tx.outputs = OutputsOf(tx)
  BY DEF Choosing, Signing, Sending, FillsFromAnswer
<1>2. req.limit = NoLimit /\ Select!Balance
  <2>1. req.limit = NoLimit
    BY <1>1 DEF Paying
  <2> QED
    BY <1>1, <2>1, AnswerIsBalanced
<1>3. PICK s \in Seq(Utxo) : s = outcome.outputs
  BY <1>2 DEF Select!Balance
<1>4. PICK fee \in Nat : fee = Select!feeAmount(s)
  BY <1>2, <1>3 DEF Select!Balance
<1>5. PICK feeC \in Nat : feeC = Select!changeOutputHavingTransactionFee(s) /\ fee <= feeC
  BY <1>2, <1>3, <1>4 DEF Select!Balance
<1>6. PICK r \in Int : r = outcome.recipientValue
  BY <1>2 DEF Select!Balance
<1>7. PICK c \in Int : /\ c = tx.changeValue /\ c >= 0
                       /\ outcome.kind = "change" => c = outcome.changeValue
                       /\ outcome.kind = "exact" => c = 0
  BY <1>1, <1>2 DEF Select!Balance, Paying
<1>8. PICK worth \in Int : worth = Select!ValueOf(s)
  BY <1>2, <1>3 DEF Select!Balance
<1>9. /\ outcome.kind \in {"exact", "change"}
      /\ outcome.kind = "exact" => worth >= r + fee /\ r = Select!RecipientAmount(fee)
      /\ outcome.kind = "change" => worth = r + c + feeC /\ r = Select!RecipientAmount(feeC)
  BY <1>2, <1>3, <1>4, <1>5, <1>6, <1>7, <1>8 DEF Select!Balance
<1>10. DOMAIN Inputs = DOMAIN s /\ \A i \in DOMAIN s : Inputs[i].outpoint = s[i]
  <2>1. DOMAIN Inputs = DOMAIN tx.inputsToSign
    BY SentInputs DEF Signing, SignedUpTo, IsList
  <2>2. \A i \in DOMAIN Inputs : Inputs[i].outpoint = tx.inputsToSign[i].outpoint
    BY SentInputs
  <2> QED
    BY <1>1, <1>3, <2>1, <2>2 DEF FromSelection
<1>11. InputsWorth = worth
  <2>1. [i \in DOMAIN Inputs |-> Info[Inputs[i].outpoint].value] = [i \in DOMAIN s |-> Info[s[i]].value]
    BY <1>10
  <2> QED
    BY <1>8, <2>1, SameSums DEF InputsWorth, Select!ValueOf
<1>12. PICK outs : outs = SerializedOutputs(tx) /\ outs = result.transaction.outputs
  BY SentInputs
<1>13. /\ outs[1].value = r
       /\ OutputsWorth = r + (IF tx.changeAddress = None THEN 0 ELSE c)
  <2>1. tx.recipientAddress # None /\ tx.recipientValue = r /\ call.other \in Seq(OtherScript)
    BY <1>1, <1>6, CallAssumption DEF Paying
  <2> QED
    BY <1>1, <1>7, <1>12, <2>1, OutputsPayOut DEF OutputsWorth
<1>14. PICK spent : /\ spent = [i \in DOMAIN Inputs |-> Info[Inputs[i].outpoint]]
                    /\ spent = Select!Outputs(s)
  BY <1>10 DEF Select!Outputs
<1>15. /\ transactionSize(spent, outputSize(scriptType(tx.recipientAddress))) * call.feeRate = fee
       /\ transactionSize(spent, outputSize(scriptType(tx.recipientAddress))
                                   + outputSize(scriptType(tx.changeAddress))) * call.feeRate
            = feeC
  <2>1. /\ req.receiveType = scriptType(tx.recipientAddress)
        /\ req.changeType = scriptType(tx.changeAddress) /\ req.feeRate = call.feeRate
    BY <1>1 DEF Paying
  <2> QED
    BY <1>4, <1>5, <1>14, <2>1, SameSizes
       DEF Select!feeAmount, Select!changeOutputHavingTransactionFee
<1>16. \A f : Select!RecipientAmount(f) = IF call.senderPay THEN call.value ELSE call.value - f
  BY <1>1 DEF Paying, Select!RecipientAmount
<1>17. /\ InputsWorth >= OutputsWorth + fee
       /\ outcome.kind = "change" /\ tx.changeAddress # None => InputsWorth = OutputsWorth + feeC
       /\ outs[1].value = (IF call.senderPay THEN call.value
                           ELSE call.value - (IF outcome.kind = "change" THEN feeC ELSE fee))
  <2>1. CASE outcome.kind = "exact"
    BY <1>7, <1>9, <1>11, <1>13, <1>16, <2>1
  <2>2. CASE outcome.kind = "change"
    <3>1. worth = r + c + feeC /\ r = Select!RecipientAmount(feeC)
      BY <1>9, <2>2
    <3>2. worth = (r + c) + feeC /\ worth >= (r + c) + fee /\ worth >= r + fee
      BY <1>5, <1>7, <3>1
    <3>3. InputsWorth >= OutputsWorth + fee
      <4>1. CASE tx.changeAddress = None
        <5>1. OutputsWorth = r
          BY <1>13, <4>1
        <5> QED
          BY <1>11, <3>2, <5>1
      <4>2. CASE tx.changeAddress # None
        <5>1. OutputsWorth = r + c
          BY <1>13, <4>2
        <5> QED
          BY <1>11, <3>2, <5>1
      <4> QED
        BY <4>1, <4>2
    <3>4. tx.changeAddress # None => InputsWorth = OutputsWorth + feeC
      BY <1>11, <1>13, <3>2
    <3>5. outs[1].value = IF call.senderPay THEN call.value ELSE call.value - feeC
      BY <1>13, <1>16, <3>1
    <3> QED
      BY <2>2, <3>3, <3>4, <3>5
  <2> QED
    BY <1>9, <2>1, <2>2
<1> QED
  BY <1>12, <1>14, <1>15, <1>17 DEF Balanced

\* The inputs pay for the outputs and the fee, exactly when there is change.
THEOREM AutoBalances == Spec => []Balanced
<1>1. Choosing /\ Signing /\ Sending => Balanced
  BY BalancedWhenBuilt DEF Balanced
<1> QED
  BY <1>1, SendingInv, PTL
=============================================================================
