------------------------------- MODULE SigHash -------------------------------
(***************************************************************************)
(* What a signature commits to. Three functions write the bytes that are   *)
(* hashed and signed: TransactionSerializer.hashForSignature and           *)
(* hashForWitnessSignature, on a Transaction, and the builder's            *)
(* MutableTransactionSerializer.serializeForSignature, on its inputs and   *)
(* outputs. They are compared with what a signature of each type signs     *)
(* according to object SigHash, on a transaction that its other signers    *)
(* edit after it has been signed.                                          *)
(*                                                                         *)
(* A serialization is a sequence of fields <<kind, contents>>. Hashes are  *)
(* taken to be free of collisions, so two hashes agree when what is hashed *)
(* does. Places are counted from one.                                      *)
(***************************************************************************)
EXTENDS Integers, Sequences, SequencesExt

CONSTANTS
    OutPoint,       \* a sequence of distinct outpoints, in the order used
    Sequence,       \* the sequence numbers an input may have
    Amount,         \* of an output
    MaxOutputs,     \* bound: outputs of a transaction
    MaxEdits        \* bound: edits after the signature

ASSUME SequenceAssumption == {0, 1} \subseteq Sequence /\ Sequence \subseteq Nat
ASSUME OutPointAssumption == OutPoint \in Seq({OutPoint[k] : k \in DOMAIN OutPoint})
ASSUME BoundAssumption == MaxOutputs \in Nat

VARIABLES
    signed,     \* the transaction when it was hashed
    tx,         \* the transaction now
    edits

vars == <<signed, tx, edits>>

Null == <<>>            \* no script, or a script of no bytes
DEFAULT_TX_VERSION == 2
EMPTY_TX_SEQUENCE == 0
DEFAULT_TX_SEQUENCE == 1         \* stands for 0xFFFFFFFF
NEGATIVE_SATOSHI == -1

\* OutPoint, sequence and the amount of the output that is spent; then the
\* unlocking script and the witness, which are filled in by signing
Input(o, s) == [outPoint |-> o, value |-> 1, sequence |-> s, script |-> Null, witness |-> <<>>]
Output(v) == [value |-> v, script |-> <<"pay">>]

\* object SigHash
Type == [base : {"ALL", "NONE", "SINGLE"}, anyoneCanPay : BOOLEAN]

\* The scriptPubKey or redeem script of the output that is spent
ScriptOf(input) == <<"code", input.outPoint>>

-----------------------------------------------------------------------------
(* Serialization                                                           *)

Number(n) == <<"number", n>>
InputField(input) == <<"input", <<input.outPoint, input.script, input.sequence>>>>
OutputField(output) == <<"output", <<output.value, output.script>>>>
WitnessField(input) == <<"witness", input.witness>>

hasSegwit(t) == \E k \in DOMAIN t.inputs : t.inputs[k].witness # <<>>

Fields(xs, Field(_)) == [k \in DOMAIN xs |-> Field(xs[k])]

\* TransactionSerializer.serialize, with signatures and witnesses
serialize(t) ==
    <<Number(t.version)>>
    \o (IF hasSegwit(t) THEN <<Number(0), Number(1)>> ELSE <<>>)
    \o <<Number(Len(t.inputs))>> \o Fields(t.inputs, InputField)
    \o <<Number(Len(t.outputs))>> \o Fields(t.outputs, OutputField)
    \o (IF hasSegwit(t) THEN Fields(t.inputs, WitnessField) ELSE <<>>)
    \o <<Number(t.lockTime)>>

ForgetsSequence(field, witness) ==      \* mutant: the constructor's default
    [outPoint |-> field[2][1], script |-> field[2][2],
     sequence |-> DEFAULT_TX_SEQUENCE, witness |-> witness]
\* InputSerializer.deserialize, and the witness from behind the outputs
ReadInput(field, witness) ==
    [outPoint |-> field[2][1], script |-> field[2][2],
     sequence |-> field[2][3], witness |-> witness]

\* TransactionSerializer.deserialize. A count of zero inputs followed by one
\* output reads as the segwit marker; no transaction here is without inputs.
deserialize(xs) ==
    LET segwit == xs[2] = Number(0) /\ xs[3] = Number(1)
        at == IF segwit THEN 4 ELSE 2
        n == xs[at][2]
        m == xs[at + n + 1][2]
        inputs == SubSeq(xs, at + 1, at + n)
        outputs == SubSeq(xs, at + n + 2, at + n + 1 + m)
        witnesses == SubSeq(xs, at + n + m + 2, Len(xs) - 1)
    IN  [version |-> xs[1][2],
         inputs |-> [k \in 1..n |->
             ReadInput(inputs[k], IF segwit THEN witnesses[k][2] ELSE <<>>)],
         outputs |-> [k \in 1..m |-> [value |-> outputs[k][2][1], script |-> outputs[k][2][2]]],
         lockTime |-> Last(xs)[2]]

\* Transaction.copy
copy(t) == deserialize(serialize(t))

-----------------------------------------------------------------------------
(* TransactionSerializer                                                   *)

SigHashField(type) == <<"sigHash", type>>

\* The constant that is hashed when SINGLE has no output at its place
One == <<<<"one">>>>

KeepsSequences(input, type) == input.sequence       \* mutant
\* The sequence of another input
OtherSequence(input, type) ==
    IF type.base = "ALL" THEN input.sequence ELSE EMPTY_TX_SEQUENCE

\* The first output is left as it is: the loop begins at index 1
SingleOutputs(outputs, i) ==
    [k \in 1..i |-> IF k \in 2..(i - 1) THEN [value |-> NEGATIVE_SATOSHI, script |-> Null]
                                        ELSE outputs[k]]

hashForSignature(t, i, type) ==
    LET c == copy(t)
        inputs == [k \in DOMAIN c.inputs |->
            IF k = i THEN [c.inputs[k] EXCEPT !.script = ScriptOf(c.inputs[k])]
            ELSE [c.inputs[k] EXCEPT !.script = Null,
                                     !.sequence = OtherSequence(c.inputs[k], type)]]
        outputs == CASE type.base = "ALL"    -> c.outputs
                     [] type.base = "NONE"   -> <<>>
                     [] type.base = "SINGLE" -> SingleOutputs(c.outputs, i)
    IN  IF type.base = "SINGLE" /\ i > Len(c.outputs) THEN One
        ELSE serialize([c EXCEPT !.inputs = IF type.anyoneCanPay THEN <<inputs[i]>> ELSE inputs,
                                 !.outputs = outputs])
             \o <<SigHashField(type)>>

\* BIP 143: hashPrevouts, hashSequence and hashOutputs, then the input itself.
\* Where nothing is hashed there are zeros.
Zeros == <<<<"zeros">>>>
IfSeveral(type) == ~type.anyoneCanPay       \* mutant: the base type is forgotten
HashesSequences(type) == ~type.anyoneCanPay /\ type.base = "ALL"
WitnessHashes(t, i, type) ==
    LET Prevout(input) == <<"outPoint", input.outPoint>>
        SequenceField(input) == Number(input.sequence)
    IN  << IF type.anyoneCanPay THEN Zeros ELSE Fields(t.inputs, Prevout),
           IF HashesSequences(type) THEN Fields(t.inputs, SequenceField) ELSE Zeros,
           IF type.base = "ALL" THEN Fields(t.outputs, OutputField)
           ELSE IF type.base = "SINGLE" /\ i <= Len(t.outputs)
                THEN <<OutputField(t.outputs[i])>> ELSE Zeros >>

\* The fields of a witness input, which both serializers write line for line
\* alike; one takes them from a copy of the transaction
WitnessFields(t, i, type, prevAmount) ==
    LET hashes == WitnessHashes(t, i, type)
        own == t.inputs[i]
    IN  << Number(t.version), <<"hash", hashes[1]>>, <<"hash", hashes[2]>>,
           <<"outPoint", own.outPoint>>, <<"script", ScriptOf(own)>>,
           Number(prevAmount), Number(own.sequence), <<"hash", hashes[3]>>,
           Number(t.lockTime), SigHashField(type) >>

hashForWitnessSignature(t, i, type, prevAmount) ==
    WitnessFields(copy(t), i, type, prevAmount)

-----------------------------------------------------------------------------
(* MutableTransactionSerializer.serializeForSignature, on inputsToSign and *)
(* outputs of the builder: it sees neither scripts nor witnesses           *)

ForSignature(input, type, current) ==
    <<"input", <<input.outPoint, IF current THEN ScriptOf(input) ELSE Null,
                 IF current \/ type.base = "ALL" THEN input.sequence ELSE EMPTY_TX_SEQUENCE>>>>

EveryInput(t, i, type) ==       \* mutant: without ANYONECANPAY
    <<Number(Len(t.inputs))>> \o
    [k \in DOMAIN t.inputs |-> ForSignature(t.inputs[k], type, k = i)]
\* One input, or all of them: with NONE always all of them
LegacyInputs(t, i, type) ==
    IF type.anyoneCanPay /\ type.base # "NONE"
    THEN <<Number(1), ForSignature(t.inputs[i], type, TRUE)>>
    ELSE <<Number(Len(t.inputs))>> \o
         [k \in DOMAIN t.inputs |-> ForSignature(t.inputs[k], type, k = i)]

\* With SINGLE the count is that of all outputs, and two fewer blank outputs
\* are written than there are outputs up to the signed one
LegacyOutputs(t, i, type) ==
    CASE type.base = "NONE"   -> <<Number(0)>>
      [] type.base = "SINGLE" ->
            <<Number(Len(t.outputs))>>
            \o [k \in 1..(i - 2) |-> <<"output", <<NEGATIVE_SATOSHI, Null>>>>]
            \o <<OutputField(t.outputs[i])>>
      [] type.base = "ALL"    -> <<Number(Len(t.outputs))>> \o Fields(t.outputs, OutputField)

serializeForSignature(t, i, type, isWitness) ==
    IF isWitness THEN WitnessFields(t, i, type, t.inputs[i].value)
    ELSE IF type.base = "SINGLE" /\ i > Len(t.outputs) THEN <<>>
    ELSE <<Number(t.version)>> \o LegacyInputs(t, i, type) \o LegacyOutputs(t, i, type)
         \o <<Number(t.lockTime), SigHashField(type)>>

-----------------------------------------------------------------------------
(* A transaction is hashed and then edited by its other signers            *)

Init ==
    /\ \E n \in 1..Len(OutPoint), m \in 1..MaxOutputs, v \in Amount :
           tx = [version |-> DEFAULT_TX_VERSION,
                 inputs |-> [k \in 1..n |-> Input(OutPoint[k], DEFAULT_TX_SEQUENCE)],
                 outputs |-> [k \in 1..m |-> Output(v)], lockTime |-> 0]
    /\ signed = tx
    /\ edits = 0

Edit(t) ==
    /\ edits < MaxEdits /\ edits' = edits + 1
    /\ tx' = t
    /\ UNCHANGED signed

\* The other signers hash it anew, each from what it is then
HashAgain ==
    /\ tx # signed
    /\ signed' = tx
    /\ UNCHANGED <<tx, edits>>

AddInput ==
    /\ Len(tx.inputs) < Len(OutPoint)
    /\ \E s \in Sequence :
           Edit([tx EXCEPT !.inputs = Append(@, Input(OutPoint[Len(@) + 1], s))])

RemoveInput ==
    /\ Len(tx.inputs) > 1
    /\ Edit([tx EXCEPT !.inputs = Front(@)])

SetSequence(k) ==
    \E s \in Sequence \ {tx.inputs[k].sequence} :
        Edit([tx EXCEPT !.inputs[k].sequence = s])

SetScript(k) ==
    /\ tx.inputs[k].script = Null
    /\ Edit([tx EXCEPT !.inputs[k].script = <<"signature">>])

AddStack(k) ==
    /\ tx.inputs[k].witness = <<>>
    /\ Edit([tx EXCEPT !.inputs[k].witness = Append(@, <<"signature">>)])

AddOutput ==
    /\ Len(tx.outputs) < MaxOutputs
    /\ \E v \in Amount : Edit([tx EXCEPT !.outputs = Append(@, Output(v))])

RemoveOutput ==
    /\ tx.outputs # <<>>
    /\ Edit([tx EXCEPT !.outputs = Front(@)])

SetOutput(k) ==
    \E v \in Amount \ {tx.outputs[k].value} : Edit([tx EXCEPT !.outputs[k].value = v])

SetLockTime == Edit([tx EXCEPT !.lockTime = 1 - @])

Next ==
    \/ HashAgain \/ AddInput \/ RemoveInput \/ AddOutput \/ RemoveOutput \/ SetLockTime
    \/ \E k \in DOMAIN tx.inputs : SetSequence(k) \/ SetScript(k) \/ AddStack(k)
    \/ \E k \in DOMAIN tx.outputs : SetOutput(k)

Spec == Init /\ [][Next]_vars

-----------------------------------------------------------------------------
(***************************************************************************)
(* What each type signs, by the comments of object SigHash: ALL "all       *)
(* outputs", NONE "do not sign outputs (zero sequences)", SINGLE "output   *)
(* at the same index (zero sequences)", ANYONECANPAY "only the current     *)
(* input". Version, lock time and the input itself are signed always; the  *)
(* amount it spends when it is a witness input.                            *)
(***************************************************************************)
Inputs(t, i, type) ==
    IF type.anyoneCanPay THEN <<>>
    ELSE [k \in DOMAIN t.inputs |->
            <<t.inputs[k].outPoint,
              IF k = i \/ type.base = "ALL" THEN t.inputs[k].sequence ELSE 0>>]

Outputs(t, i, type) ==
    CASE type.base = "ALL"    -> t.outputs
      [] type.base = "NONE"   -> <<>>
      [] type.base = "SINGLE" -> IF i <= Len(t.outputs) THEN <<t.outputs[i]>> ELSE <<>>

Signs(t, i, type) ==
    <<t.version, t.lockTime, t.inputs[i].outPoint, t.inputs[i].sequence,
      Inputs(t, i, type), Outputs(t, i, type)>>

\* A signature by H of the inputs is survives the edits exactly if they leave
\* what it signs
Places == DOMAIN signed.inputs \cap DOMAIN tx.inputs
Commits(H(_, _, _), is, types) ==
    \A i \in is, type \in types :
        H(signed, i, type) = H(tx, i, type) <=> Signs(signed, i, type) = Signs(tx, i, type)

OfWitness(t, i, type) == hashForWitnessSignature(t, i, type, t.inputs[i].value)
OfLegacy(t, i, type) == hashForSignature(t, i, type)
ByBuilder(t, i, type) == serializeForSignature(t, i, type, FALSE)

Of(bases) == [base : bases, anyoneCanPay : BOOLEAN]
BuilderTypes == Of({"ALL"}) \cup [base : {"NONE"}, anyoneCanPay : {FALSE}]

\* A witness signature of every type survives what it does not sign, and
\* nothing else: the other signers may fill in scripts and witnesses, change
\* outputs behind a NONE or a SINGLE, add inputs behind an ANYONECANPAY.
WitnessSignsItsType == Commits(OfWitness, Places, Type)

\* So does a legacy signature by hashForSignature, as long as no input of the
\* transaction has a witness, when its type is ALL or NONE.
LegacySignsItsType ==
    ~hasSegwit(signed) /\ ~hasSegwit(tx) => Commits(OfLegacy, Places, Of({"ALL", "NONE"}))

\* The builder's own legacy serialization does for the type it uses, ALL, also
\* next to witnesses, and for NONE where all inputs are signed.
BuilderSignsItsType ==
    Commits(ByBuilder, Places, BuilderTypes)

\* Builder and Transaction hash the same bytes for the same input: a signature
\* made by one is what the other would have made.
SerializersAgree ==
    \A i \in DOMAIN tx.inputs :
        /\ \A type \in Type : serializeForSignature(tx, i, type, TRUE) = OfWitness(tx, i, type)
        /\ \A type \in BuilderTypes :
               ~hasSegwit(tx) => ByBuilder(tx, i, type) = OfLegacy(tx, i, type)

\* "Sign output at the same index": a legacy signature of type SINGLE signs no
\* other output, when there is one at its index.
SingleSignsItsOutput ==
    ~hasSegwit(signed) /\ ~hasSegwit(tx)
        => Commits(OfLegacy, Places \cap DOMAIN signed.outputs \cap DOMAIN tx.outputs,
                   Of({"SINGLE"}))

=============================================================================
