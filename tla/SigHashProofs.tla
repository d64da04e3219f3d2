---------------------------- MODULE SigHashProofs ----------------------------
(***************************************************************************)
(* Theorems about SigHash, for any outpoints, sequence numbers, amounts    *)
(* and bounds.                                                             *)
(*                                                                         *)
(* What is hashed is injective in what it says: a serialization is read    *)
(* back as it was written (CopyKeeps), so equal encodings have equal parts *)
(* (EncodingsDiffer), and the parts of what is hashed are just what the    *)
(* type signs (WitnessCommits, LegacyCommits).                             *)
(***************************************************************************)
EXTENDS SigHash, SequenceTheorems, TLAPS

OutPoints == {OutPoint[k] : k \in DOMAIN OutPoint}
Signature == <<"signature">>

InputType == [outPoint : OutPoints, value : {1}, sequence : Sequence,
              script : {Null, Signature}, witness : {<<>>, <<Signature>>}]
OutputType == [value : Amount, script : {<<"pay">>}]
Transaction == [version : {DEFAULT_TX_VERSION}, inputs : Seq(InputType),
                outputs : Seq(OutputType), lockTime : {0, 1}]

\* A transaction has an input.
Typed(t) == t \in Transaction /\ Len(t.inputs) >= 1
TypeOK == Typed(tx) /\ Typed(signed)

\* All fields that are written
Field == ({"number"} \X Int)
    \cup ({"input"} \X (OutPoints \X ({Null, Signature} \cup ({"code"} \X OutPoints)) \X Int))
    \cup ({"output"} \X (Amount \X {<<"pay">>}))
    \cup ({"witness"} \X {<<>>, <<Signature>>})
    \cup ({"sigHash"} \X Type)

-----------------------------------------------------------------------------

LEMMA SequencesAreNumbers == Sequence \subseteq Int /\ 0 \in Sequence /\ 1 \in Sequence
  BY SequenceAssumption

LEMMA InputsAreTyped ==
    ASSUME NEW k \in 1..Len(OutPoint), NEW s \in Sequence
    PROVE  Input(OutPoint[k], s) \in InputType
<1>1. DOMAIN OutPoint = 1..Len(OutPoint)
  BY OutPointAssumption, LenProperties
<1>2. OutPoint[k] \in OutPoints
  BY <1>1 DEF OutPoints
<1> QED
  BY <1>2 DEF Input, InputType, Null

LEMMA OutputsAreTyped ==
    ASSUME NEW v \in Amount
    PROVE  Output(v) \in OutputType
  BY DEF Output, OutputType

LEMMA InitTyped == Init => TypeOK
<1> SUFFICES ASSUME Init PROVE TypeOK
  OBVIOUS
<1>1. PICK n \in 1..Len(OutPoint), m \in 1..MaxOutputs, v \in Amount :
          tx = [version |-> DEFAULT_TX_VERSION,
                inputs |-> [k \in 1..n |-> Input(OutPoint[k], DEFAULT_TX_SEQUENCE)],
                outputs |-> [k \in 1..m |-> Output(v)], lockTime |-> 0]
  BY DEF Init
<1>2. n \in Nat /\ n >= 1 /\ m \in Nat
  BY OutPointAssumption, BoundAssumption, LenProperties
<1>3. \A k \in 1..n : Input(OutPoint[k], DEFAULT_TX_SEQUENCE) \in InputType
  <2>1. Len(OutPoint) \in Nat
    BY OutPointAssumption, LenProperties
  <2>2. DEFAULT_TX_SEQUENCE \in Sequence
    BY SequencesAreNumbers DEF DEFAULT_TX_SEQUENCE
  <2> QED
    BY <1>2, <2>1, <2>2, InputsAreTyped
<1>4. [k \in 1..n |-> Input(OutPoint[k], DEFAULT_TX_SEQUENCE)] \in Seq(InputType)
  BY <1>2, <1>3, IsASeq
<1>5. [k \in 1..m |-> Output(v)] \in Seq(OutputType)
  BY <1>2, OutputsAreTyped, IsASeq
<1>6. Len(tx.inputs) = n
  BY <1>1, <1>2, <1>4, LenProperties
<1>7. Typed(tx)
  BY <1>1, <1>2, <1>4, <1>5, <1>6 DEF Typed, Transaction
<1> QED
  BY <1>7 DEF TypeOK, Init

LEMMA NextTyped == TypeOK /\ [Next]_vars => TypeOK'
<1> SUFFICES ASSUME TypeOK, [Next]_vars PROVE TypeOK'
  OBVIOUS
<1>t. /\ tx \in Transaction /\ Typed(signed)
      /\ tx.inputs \in Seq(InputType) /\ tx.outputs \in Seq(OutputType)
      /\ Len(tx.inputs) \in Nat /\ Len(tx.inputs) >= 1
      /\ DOMAIN tx.inputs = 1..Len(tx.inputs)
      /\ DOMAIN tx.outputs = 1..Len(tx.outputs)
      /\ Len(tx.outputs) \in Nat
      /\ tx.lockTime \in {0, 1} /\ tx.version \in {DEFAULT_TX_VERSION}
  BY LenProperties DEF TypeOK, Typed, Transaction
<1>i. ASSUME NEW ins \in Seq(InputType), Len(ins) >= 1, Edit([tx EXCEPT !.inputs = ins])
      PROVE  TypeOK'
  BY <1>t, <1>i DEF TypeOK, Typed, Transaction, Edit
<1>o. ASSUME NEW outs \in Seq(OutputType), Edit([tx EXCEPT !.outputs = outs])
      PROVE  TypeOK'
  BY <1>t, <1>o DEF TypeOK, Typed, Transaction, Edit
<1>k. ASSUME NEW k \in DOMAIN tx.inputs, NEW e \in InputType,
             Edit([tx EXCEPT !.inputs = [tx.inputs EXCEPT ![k] = e]])
      PROVE  TypeOK'
  <2>1. /\ [tx.inputs EXCEPT ![k] = e] \in Seq(InputType)
        /\ Len([tx.inputs EXCEPT ![k] = e]) = Len(tx.inputs)
    BY <1>t, ExceptSeq
  <2> QED
    BY <2>1, <1>t, <1>i, <1>k
<1>1. CASE HashAgain
  BY <1>1 DEF HashAgain, TypeOK
<1>2. CASE AddInput
  <2>1. PICK s \in Sequence :
            Edit([tx EXCEPT !.inputs = Append(@, Input(OutPoint[Len(@) + 1], s))])
    BY <1>2 DEF AddInput
  <2>2. Len(tx.inputs) + 1 \in 1..Len(OutPoint)
    <3>1. Len(OutPoint) \in Nat
      BY OutPointAssumption, LenProperties
    <3> QED
      BY <1>2, <1>t, <3>1 DEF AddInput
  <2>3. Input(OutPoint[Len(tx.inputs) + 1], s) \in InputType
    BY <2>2, InputsAreTyped
  <2>4. Append(tx.inputs, Input(OutPoint[Len(tx.inputs) + 1], s)) \in Seq(InputType)
    BY <2>3, <1>t, AppendProperties
  <2>5. Len(Append(tx.inputs, Input(OutPoint[Len(tx.inputs) + 1], s))) = Len(tx.inputs) + 1
    BY <2>3, <1>t, AppendProperties
  <2> DEFINE more == Append(tx.inputs, Input(OutPoint[Len(tx.inputs) + 1], s))
  <2>6. Edit([tx EXCEPT !.inputs = more])
    BY <2>1
  <2>7. more \in Seq(InputType) /\ Len(more) >= 1
    BY <2>4, <2>5, <1>t
  <2> HIDE DEF more
  <2> QED
    BY <2>6, <2>7, <1>i
<1>3. CASE RemoveInput
  <2>1. Edit([tx EXCEPT !.inputs = Front(@)]) /\ Len(tx.inputs) > 1
    BY <1>3 DEF RemoveInput
  <2>2. \A k \in 1..(Len(tx.inputs) - 1) : tx.inputs[k] \in InputType
    BY <1>t, ElementOfSeq
  <2>3. SubSeq(tx.inputs, 1, Len(tx.inputs) - 1) \in Seq(InputType)
    BY <2>2, <1>t, SubSeqProperties
  <2>4. Len(SubSeq(tx.inputs, 1, Len(tx.inputs) - 1)) = Len(tx.inputs) - 1
    BY <2>1, <2>2, <1>t, SubSeqProperties
  <2> DEFINE fewer == SubSeq(tx.inputs, 1, Len(tx.inputs) - 1)
  <2>5. Edit([tx EXCEPT !.inputs = fewer])
    BY <2>1 DEF Front
  <2>6. fewer \in Seq(InputType) /\ Len(fewer) >= 1
    BY <2>1, <2>3, <2>4, <1>t
  <2> HIDE DEF fewer
  <2> QED
    BY <2>5, <2>6, <1>i
<1>4. CASE AddOutput
  <2>1. PICK v \in Amount : Edit([tx EXCEPT !.outputs = Append(@, Output(v))])
    BY <1>4 DEF AddOutput
  <2>2. Append(tx.outputs, Output(v)) \in Seq(OutputType)
    BY <1>t, OutputsAreTyped, AppendProperties
  <2> QED
    BY <2>1, <2>2, <1>t, <1>o
<1>5. CASE RemoveOutput
  <2>1. Edit([tx EXCEPT !.outputs = Front(@)])
    BY <1>5 DEF RemoveOutput
  <2>2. \A k \in 1..(Len(tx.outputs) - 1) : tx.outputs[k] \in OutputType
    BY <1>t, ElementOfSeq
  <2>3. SubSeq(tx.outputs, 1, Len(tx.outputs) - 1) \in Seq(OutputType)
    BY <2>2, <1>t, SubSeqProperties
  <2> QED
    BY <2>1, <2>3, <1>t, <1>o DEF Front
<1>6. CASE SetLockTime
  BY <1>6, <1>t DEF SetLockTime, Edit, TypeOK, Typed, Transaction
<1>7. ASSUME NEW k \in DOMAIN tx.inputs, SetSequence(k) \/ SetScript(k) \/ AddStack(k)
      PROVE  TypeOK'
  <2>e. tx.inputs[k] \in InputType
    BY <1>t, ElementOfSeq
  <2>1. CASE SetSequence(k)
    <3>1. PICK s \in Sequence : Edit([tx EXCEPT !.inputs[k].sequence = s])
      BY <2>1 DEF SetSequence
    <3>2. [tx.inputs[k] EXCEPT !.sequence = s] \in InputType
      BY <2>e DEF InputType
    <3> QED
      BY <3>1, <3>2, <1>k
  <2>2. CASE SetScript(k)
    <3>1. Edit([tx EXCEPT !.inputs[k].script = <<"signature">>])
      BY <2>2 DEF SetScript
    <3>2. [tx.inputs[k] EXCEPT !.script = <<"signature">>] \in InputType
      BY <2>e DEF InputType, Signature
    <3> QED
      BY <3>1, <3>2, <1>k
  <2>3. CASE AddStack(k)
    <3>1. Edit([tx EXCEPT !.inputs[k].witness = Append(@, <<"signature">>)])
      BY <2>3 DEF AddStack
    <3>3. Append(tx.inputs[k].witness, <<"signature">>) = <<Signature>>
      BY <2>3 DEF AddStack, Signature
    <3>2. [tx.inputs[k] EXCEPT !.witness = <<Signature>>] \in InputType
      BY <2>e DEF InputType
    <3> QED
      BY <3>1, <3>2, <3>3, <1>k
  <2> QED
    BY <1>7, <2>1, <2>2, <2>3
<1>8. ASSUME NEW k \in DOMAIN tx.outputs, SetOutput(k)
      PROVE  TypeOK'
  <2>e. tx.outputs[k] \in OutputType
    BY <1>t, ElementOfSeq
  <2>1. PICK v \in Amount : Edit([tx EXCEPT !.outputs[k].value = v])
    BY <1>8 DEF SetOutput
  <2>2. [tx.outputs[k] EXCEPT !.value = v] \in OutputType
    BY <2>e DEF OutputType
  <2>3. [tx.outputs EXCEPT ![k] = [tx.outputs[k] EXCEPT !.value = v]] \in Seq(OutputType)
    BY <2>2, <1>t, ExceptSeq
  <2> QED
    BY <2>1, <2>3, <1>o
<1>9. CASE UNCHANGED vars
  BY <1>9 DEF vars, TypeOK
<1> QED
  BY <1>1, <1>2, <1>3, <1>4, <1>5, <1>6, <1>7, <1>8, <1>9 DEF Next

\* Whatever the other signers edit, a transaction keeps the shape that a
\* serialization can be read back from: an input at least, amounts and scripts
\* of their types.
THEOREM TypeCorrect == Spec => []TypeOK
  BY InitTyped, NextTyped, PTL DEF Spec

-----------------------------------------------------------------------------

Encoding(p, xs, ys, z) ==
    p \o <<Number(Len(xs))>> \o xs \o <<Number(Len(ys))>> \o ys \o z

\* Where the parts of an encoding are found
Parts(e, p, xs, ys, z) ==
    /\ e \in Seq(Field)
    /\ Len(e) = Len(p) + Len(xs) + Len(ys) + Len(z) + 2
    /\ \A k \in 1..Len(p) : e[k] = p[k]
    /\ e[Len(p) + 1] = Number(Len(xs))
    /\ \A k \in 1..Len(xs) : e[Len(p) + 1 + k] = xs[k]
    /\ e[Len(p) + Len(xs) + 2] = Number(Len(ys))
    /\ \A k \in 1..Len(ys) : e[Len(p) + Len(xs) + 2 + k] = ys[k]
    /\ \A k \in 1..Len(z) : e[Len(p) + Len(xs) + Len(ys) + 2 + k] = z[k]

LEMMA NumberIsField ==
    ASSUME NEW n \in Int
    PROVE  Number(n) \in Field /\ <<Number(n)>> \in Seq(Field)
<1>1. Number(n) \in Field
  BY DEF Number, Field
<1> QED
  BY <1>1

\* r is s with t behind it.
Joins(r, s, t) ==
    /\ r \in Seq(Field)
    /\ Len(r) = Len(s) + Len(t)
    /\ \A k \in 1..Len(s) : r[k] = s[k]
    /\ \A k \in 1..Len(t) : r[Len(s) + k] = t[k]

LEMMA Joined ==
    ASSUME NEW s \in Seq(Field), NEW t \in Seq(Field)
    PROVE  Joins(s \o t, s, t)
<1> DEFINE r == s \o t
<1>1. Len(s) \in Nat /\ Len(t) \in Nat
  BY LenProperties
<1>2. /\ r \in Seq(Field)
      /\ Len(r) = Len(s) + Len(t)
      /\ \A k \in 1..Len(s) + Len(t) : r[k] = IF k <= Len(s) THEN s[k] ELSE t[k - Len(s)]
  BY ConcatProperties
<1> HIDE DEF r
<1>3. \A k \in 1..Len(s) : r[k] = s[k]
  BY <1>1, <1>2
<1>4. ASSUME NEW k \in 1..Len(t) PROVE r[Len(s) + k] = t[k]
  <2>1. Len(s) + k \in 1..Len(s) + Len(t) /\ ~(Len(s) + k <= Len(s)) /\ Len(s) + k - Len(s) = k
    BY <1>1
  <2> QED
    BY <1>2, <2>1
<1> QED
  BY <1>2, <1>3, <1>4 DEF Joins, r

LEMMA EncodingParts ==
    ASSUME NEW p \in Seq(Field), NEW xs \in Seq(Field), NEW ys \in Seq(Field),
           NEW z \in Seq(Field)
    PROVE  Parts(Encoding(p, xs, ys, z), p, xs, ys, z)
<1> DEFINE n == <<Number(Len(xs))>>
           m == <<Number(Len(ys))>>
           a == p \o n
           b == a \o xs
           c == b \o m
           d == c \o ys
           e == d \o z
<1>0. /\ Len(p) \in Nat /\ Len(xs) \in Nat /\ Len(ys) \in Nat /\ Len(z) \in Nat
  BY LenProperties
<1>n. /\ n \in Seq(Field) /\ Len(n) = 1 /\ n[1] = Number(Len(xs))
      /\ m \in Seq(Field) /\ Len(m) = 1 /\ m[1] = Number(Len(ys))
  <2>1. n \in Seq(Field) /\ m \in Seq(Field)
    BY <1>0, NumberIsField
  <2> QED
    BY <2>1
<1> HIDE DEF n, m
<1>1. Joins(a, p, n)
  BY <1>n, Joined
<1>2. Joins(b, a, xs)
  BY <1>1, Joined DEF Joins
<1>3. Joins(c, b, m)
  BY <1>n, <1>2, Joined DEF Joins
<1>4. Joins(d, c, ys)
  BY <1>3, Joined DEF Joins
<1>5. Joins(e, d, z)
  BY <1>4, Joined DEF Joins
<1>6. Encoding(p, xs, ys, z) = e
  BY DEF Encoding, n, m
<1> HIDE DEF a, b, c, d, e
<1>7. /\ Len(a) = Len(p) + 1
      /\ Len(b) = Len(p) + 1 + Len(xs)
      /\ Len(c) = Len(p) + Len(xs) + 2
      /\ Len(d) = Len(p) + Len(xs) + Len(ys) + 2
      /\ Len(e) = Len(p) + Len(xs) + Len(ys) + Len(z) + 2
      /\ e \in Seq(Field)
  BY <1>0, <1>n, <1>1, <1>2, <1>3, <1>4, <1>5 DEF Joins
\* A part keeps its place in what is longer.
<1>a. \A k \in 1..Len(d) : e[k] = d[k]
  BY <1>5 DEF Joins
<1>b. \A k \in 1..Len(c) : e[k] = c[k]
  <2>1. \A k \in 1..Len(c) : d[k] = c[k] /\ k \in 1..Len(d)
    BY <1>0, <1>4, <1>7 DEF Joins
  <2> QED
    BY <2>1, <1>a
<1>c. \A k \in 1..Len(b) : e[k] = b[k]
  <2>1. \A k \in 1..Len(b) : c[k] = b[k] /\ k \in 1..Len(c)
    BY <1>0, <1>3, <1>7 DEF Joins
  <2> QED
    BY <2>1, <1>b
<1>d. \A k \in 1..Len(a) : e[k] = a[k]
  <2>1. \A k \in 1..Len(a) : b[k] = a[k] /\ k \in 1..Len(b)
    BY <1>0, <1>2, <1>7 DEF Joins
  <2> QED
    BY <2>1, <1>c
<1>8. ASSUME NEW k \in 1..Len(p) PROVE e[k] = p[k]
  <2>1. a[k] = p[k]
    BY <1>1 DEF Joins
  <2> QED
    BY <2>1, <1>0, <1>7, <1>d
<1>9. e[Len(p) + 1] = Number(Len(xs))
  <2>1. a[Len(p) + 1] = n[1] /\ n[1] = Number(Len(xs))
    BY <1>1, <1>n DEF Joins
  <2>2. Len(p) + 1 \in 1..Len(a)
    BY <1>0, <1>7
  <2>3. e[Len(p) + 1] = a[Len(p) + 1]
    BY <2>2, <1>d
  <2> QED
    BY <2>1, <2>3
<1>10. ASSUME NEW k \in 1..Len(xs) PROVE e[Len(p) + 1 + k] = xs[k]
  <2>1. b[Len(a) + k] = xs[k]
    BY <1>2 DEF Joins
  <2>2. Len(a) + k = Len(p) + 1 + k /\ Len(p) + 1 + k \in 1..Len(b)
    BY <1>0, <1>7
  <2> QED
    BY <2>1, <2>2, <1>c
<1>11. e[Len(p) + Len(xs) + 2] = Number(Len(ys))
  <2>1. c[Len(b) + 1] = m[1]
    BY <1>3, <1>n DEF Joins
  <2>2. Len(b) + 1 = Len(p) + Len(xs) + 2 /\ Len(p) + Len(xs) + 2 \in 1..Len(c)
    BY <1>0, <1>7
  <2> QED
    BY <2>1, <2>2, <1>n, <1>b
<1>12. ASSUME NEW k \in 1..Len(ys) PROVE e[Len(p) + Len(xs) + 2 + k] = ys[k]
  <2>1. d[Len(c) + k] = ys[k]
    BY <1>4 DEF Joins
  <2>2. Len(p) + Len(xs) + 2 + k \in 1..Len(d)
    BY <1>0, <1>7
  <2> QED
    BY <2>1, <2>2, <1>7, <1>a
<1>13. ASSUME NEW k \in 1..Len(z) PROVE e[Len(p) + Len(xs) + Len(ys) + 2 + k] = z[k]
  BY <1>5, <1>7 DEF Joins
<1> QED
  BY <1>6, <1>7, <1>8, <1>9, <1>10, <1>11, <1>12, <1>13 DEF Parts

LEMMA NumbersDiffer ==
    ASSUME NEW a, NEW b
    PROVE  Number(a) = Number(b) <=> a = b
  BY DEF Number

\* Two encodings whose ends are of the same lengths, and are the same bytes
SameBytes(p, xs, ys, z, q, us, ws, y) ==
    /\ {p, xs, ys, z, q, us, ws, y} \subseteq Seq(Field)
    /\ Len(p) = Len(q) /\ Len(z) = Len(y)
    /\ Encoding(p, xs, ys, z) = Encoding(q, us, ws, y)

\* They encode the same.
LEMMA EncodingsDiffer ==
    ASSUME NEW p, NEW xs, NEW ys, NEW z, NEW q, NEW us, NEW ws, NEW y,
           SameBytes(p, xs, ys, z, q, us, ws, y)
    PROVE  p = q /\ xs = us /\ ys = ws /\ z = y
<1> DEFINE e == Encoding(p, xs, ys, z)
<1>a. /\ p \in Seq(Field) /\ xs \in Seq(Field) /\ ys \in Seq(Field) /\ z \in Seq(Field)
      /\ q \in Seq(Field) /\ us \in Seq(Field) /\ ws \in Seq(Field) /\ y \in Seq(Field)
      /\ Len(p) = Len(q) /\ Len(z) = Len(y)
      /\ Encoding(p, xs, ys, z) = Encoding(q, us, ws, y)
  BY DEF SameBytes
<1>1. Parts(e, p, xs, ys, z) /\ Parts(e, q, us, ws, y)
  BY <1>a, EncodingParts
<1> HIDE DEF e
<1>0. /\ Len(p) \in Nat /\ Len(xs) \in Nat /\ Len(ys) \in Nat /\ Len(z) \in Nat
      /\ Len(us) \in Nat /\ Len(ws) \in Nat
  BY <1>a, LenProperties
<1>2. \A k \in 1..Len(p) : p[k] = q[k]
  BY <1>a, <1>1, <1>0 DEF Parts
<1>3. p = q
  BY <1>2, <1>a, SeqEqual
<1>4. Len(xs) = Len(us)
  <2>1. Number(Len(xs)) = Number(Len(us))
    BY <1>1, <1>3 DEF Parts
  <2> QED
    BY <2>1, NumbersDiffer
<1>5. \A k \in 1..Len(xs) : xs[k] = us[k]
  BY <1>a, <1>1, <1>0, <1>3, <1>4 DEF Parts
<1>6. xs = us
  BY <1>4, <1>5, <1>a, SeqEqual
<1>7. Len(ys) = Len(ws)
  <2>1. Number(Len(ys)) = Number(Len(ws))
    BY <1>1, <1>3, <1>6 DEF Parts
  <2> QED
    BY <2>1, NumbersDiffer
<1>8. \A k \in 1..Len(ys) : ys[k] = ws[k]
  BY <1>a, <1>1, <1>0, <1>3, <1>6, <1>7 DEF Parts
<1>9. ys = ws
  BY <1>7, <1>8, <1>a, SeqEqual
<1>10. \A k \in 1..Len(z) : z[k] = y[k]
  BY <1>a, <1>1, <1>0, <1>3, <1>6, <1>9 DEF Parts
<1>11. z = y
  BY <1>10, <1>a, SeqEqual
<1> QED
  BY <1>3, <1>6, <1>9, <1>11

-----------------------------------------------------------------------------
(* copy                                                                    *)

InputFields(t) == [k \in 1..Len(t.inputs) |-> InputField(t.inputs[k])]
OutputFields(t) == [k \in 1..Len(t.outputs) |-> OutputField(t.outputs[k])]
WitnessStacks(t) == [k \in 1..Len(t.inputs) |-> WitnessField(t.inputs[k])]

LEMMA PartsOfTransaction ==
    ASSUME NEW t, Typed(t)
    PROVE  /\ Len(t.inputs) \in Nat /\ Len(t.inputs) >= 1 /\ Len(t.outputs) \in Nat
           /\ DOMAIN t.inputs = 1..Len(t.inputs) /\ DOMAIN t.outputs = 1..Len(t.outputs)
           /\ t.inputs \in Seq(InputType) /\ t.outputs \in Seq(OutputType)
           /\ \A k \in 1..Len(t.inputs) :
                  /\ t.inputs[k] \in InputType
                  /\ t.inputs[k].outPoint \in OutPoints
                  /\ t.inputs[k].value = 1
                  /\ t.inputs[k].sequence \in Int
                  /\ t.inputs[k].script \in {Null, Signature}
                  /\ t.inputs[k].witness \in {<<>>, <<Signature>>}
           /\ \A k \in 1..Len(t.outputs) :
                  /\ t.outputs[k] \in OutputType
                  /\ t.outputs[k].value \in Amount
                  /\ t.outputs[k].script = <<"pay">>
           /\ t.version \in Int /\ t.lockTime \in Int
<1>1. /\ t.inputs \in Seq(InputType) /\ t.outputs \in Seq(OutputType)
      /\ Len(t.inputs) >= 1
      /\ t.version \in Int /\ t.lockTime \in Int
  BY DEF Typed, Transaction, DEFAULT_TX_VERSION
<1>2. \A k \in 1..Len(t.inputs) : t.inputs[k] \in InputType
  BY <1>1, ElementOfSeq
<1>3. \A k \in 1..Len(t.outputs) : t.outputs[k] \in OutputType
  BY <1>1, ElementOfSeq
<1>4. \A i \in InputType :
          /\ i.outPoint \in OutPoints
          /\ i.value = 1
          /\ i.sequence \in Int
          /\ i.script \in {Null, Signature}
          /\ i.witness \in {<<>>, <<Signature>>}
  BY SequencesAreNumbers DEF InputType
<1>5. \A o \in OutputType : o.value \in Amount /\ o.script = <<"pay">>
  BY DEF OutputType
<1> QED
  BY <1>1, <1>2, <1>3, <1>4, <1>5, LenProperties

LEMMA FieldsAreTyped ==
    ASSUME NEW t, Typed(t)
    PROVE  /\ InputFields(t) \in Seq(Field) /\ Len(InputFields(t)) = Len(t.inputs)
           /\ OutputFields(t) \in Seq(Field) /\ Len(OutputFields(t)) = Len(t.outputs)
           /\ WitnessStacks(t) \in Seq(Field) /\ Len(WitnessStacks(t)) = Len(t.inputs)
<1>0. Len(t.inputs) \in Nat /\ Len(t.outputs) \in Nat
  BY PartsOfTransaction
<1>1. \A k \in 1..Len(t.inputs) : InputField(t.inputs[k]) \in Field
  BY PartsOfTransaction DEF InputField, Field
<1>2. \A k \in 1..Len(t.outputs) : OutputField(t.outputs[k]) \in Field
  BY PartsOfTransaction DEF OutputField, Field
<1>3. \A k \in 1..Len(t.inputs) : WitnessField(t.inputs[k]) \in Field
  BY PartsOfTransaction DEF WitnessField, Field
<1>4. InputFields(t) \in Seq(Field)
  BY <1>0, <1>1, IsASeq DEF InputFields
<1>5. OutputFields(t) \in Seq(Field)
  BY <1>0, <1>2, IsASeq DEF OutputFields
<1>6. WitnessStacks(t) \in Seq(Field)
  BY <1>0, <1>3, IsASeq DEF WitnessStacks
<1>7. Len(InputFields(t)) = Len(t.inputs)
  BY <1>0 DEF InputFields
<1>8. Len(OutputFields(t)) = Len(t.outputs)
  BY <1>0 DEF OutputFields
<1>9. Len(WitnessStacks(t)) = Len(t.inputs)
  BY <1>0 DEF WitnessStacks
<1> QED
  BY <1>4, <1>5, <1>6, <1>7, <1>8, <1>9

\* Behind the version comes the marker of a transaction with witnesses.
Marked(t) == IF hasSegwit(t) THEN <<Number(t.version), Number(0), Number(1)>>
                             ELSE <<Number(t.version)>>
Stacks(t) == IF hasSegwit(t) THEN WitnessStacks(t) ELSE <<>>
LockTime(t) == <<Number(t.lockTime)>>

LEMMA OneAndTwo ==
    ASSUME NEW a, NEW b, NEW c
    PROVE  <<a>> \o <<b, c>> = <<a, b, c>>
<1> DEFINE S == {a, b, c}
           s == <<a>>
           t == <<b, c>>
           u == <<a, b, c>>
<1>1. /\ s \in Seq(S) /\ t \in Seq(S) /\ u \in Seq(S)
      /\ Len(s) = 1 /\ Len(t) = 2 /\ Len(u) = 3
  OBVIOUS
<1>2. s[1] = a /\ t[1] = b /\ t[2] = c /\ u[1] = a /\ u[2] = b /\ u[3] = c
  OBVIOUS
<1> HIDE DEF s, t, u, S
<1>3. /\ s \o t \in Seq(S) /\ Len(s \o t) = 3
      /\ \A k \in 1..3 : (s \o t)[k] = IF k <= 1 THEN s[k] ELSE t[k - 1]
  <2>1. /\ s \o t \in Seq(S) /\ Len(s \o t) = Len(s) + Len(t)
        /\ \A k \in 1..Len(s) + Len(t) : (s \o t)[k] = IF k <= Len(s) THEN s[k] ELSE t[k - Len(s)]
    BY <1>1, ConcatProperties
  <2>2. Len(s) + Len(t) = 3
    BY <1>1
  <2> QED
    BY <2>1, <2>2, <1>1
<1>4. \A k \in 1..3 : (s \o t)[k] = u[k]
  <2>1. \A k \in 1..3 : k = 1 \/ k = 2 \/ k = 3
    OBVIOUS
  <2>2. (s \o t)[1] = s[1] /\ (s \o t)[2] = t[1] /\ (s \o t)[3] = t[2]
    BY <1>3
  <2> QED
    BY <2>1, <2>2, <1>2
<1>5. s \o t = u
  BY <1>1, <1>3, <1>4, SeqEqual
<1> QED
  BY <1>5 DEF s, t, u

LEMMA SerializeEncodes ==
    ASSUME NEW t, Typed(t)
    PROVE  serialize(t) = Encoding(Marked(t), InputFields(t), OutputFields(t), Stacks(t))
                          \o LockTime(t)
<1>1. /\ Fields(t.inputs, InputField) = InputFields(t)
      /\ Fields(t.outputs, OutputField) = OutputFields(t)
      /\ Fields(t.inputs, WitnessField) = WitnessStacks(t)
  BY PartsOfTransaction DEF Fields, InputFields, OutputFields, WitnessStacks
<1>2. <<Number(t.version)>> \o <<Number(0), Number(1)>>
          = <<Number(t.version), Number(0), Number(1)>>
  BY OneAndTwo
<1>3. <<Number(t.version)>> \o <<>> = <<Number(t.version)>>
  OBVIOUS
<1>4. Len(InputFields(t)) = Len(t.inputs) /\ Len(OutputFields(t)) = Len(t.outputs)
  BY FieldsAreTyped
<1>5. CASE hasSegwit(t)
  <2>1. Marked(t) = <<Number(t.version)>> \o <<Number(0), Number(1)>> /\ Stacks(t) = WitnessStacks(t)
    BY <1>2, <1>5 DEF Marked, Stacks
  <2> QED
    BY <1>1, <1>4, <1>5, <2>1 DEF serialize, Encoding, LockTime
<1>6. CASE ~hasSegwit(t)
  <2>1. Marked(t) = <<Number(t.version)>> \o <<>> /\ Stacks(t) = <<>>
    BY <1>3, <1>6 DEF Marked, Stacks
  <2> QED
    BY <1>1, <1>4, <1>6, <2>1 DEF serialize, Encoding, LockTime
<1> QED
  BY <1>5, <1>6

\* What a copy keeps of an input: all but the amount it spends, which is not
\* written
KeptInput(input) == [outPoint |-> input.outPoint, script |-> input.script,
                     sequence |-> input.sequence, witness |-> input.witness]
Kept(t) == [version |-> t.version, inputs |-> [k \in 1..Len(t.inputs) |-> KeptInput(t.inputs[k])],
            outputs |-> t.outputs, lockTime |-> t.lockTime]

LEMMA MarkedIsTyped ==
    ASSUME NEW t, Typed(t)
    PROVE  /\ Marked(t) \in Seq(Field)
           /\ Len(Marked(t)) = IF hasSegwit(t) THEN 3 ELSE 1
           /\ Marked(t)[1] = Number(t.version)
           /\ hasSegwit(t) => Marked(t)[2] = Number(0) /\ Marked(t)[3] = Number(1)
           /\ LockTime(t) \in Seq(Field) /\ Len(LockTime(t)) = 1
           /\ LockTime(t)[1] = Number(t.lockTime)
           /\ Stacks(t) \in Seq(Field)
           /\ Len(Stacks(t)) = IF hasSegwit(t) THEN Len(t.inputs) ELSE 0
<1>1. Number(t.version) \in Field /\ Number(0) \in Field /\ Number(1) \in Field
      /\ Number(t.lockTime) \in Field
  BY PartsOfTransaction, NumberIsField
<1>2. Stacks(t) \in Seq(Field) /\ Len(Stacks(t)) = IF hasSegwit(t) THEN Len(t.inputs) ELSE 0
  BY FieldsAreTyped DEF Stacks
<1>3. Marked(t) \in Seq(Field) /\ LockTime(t) \in Seq(Field)
  BY <1>1 DEF Marked, LockTime
<1>4. /\ Len(Marked(t)) = IF hasSegwit(t) THEN 3 ELSE 1
      /\ Marked(t)[1] = Number(t.version)
      /\ hasSegwit(t) => Marked(t)[2] = Number(0) /\ Marked(t)[3] = Number(1)
  BY DEF Marked
<1>5. Len(LockTime(t)) = 1 /\ LockTime(t)[1] = Number(t.lockTime)
  BY DEF LockTime
<1> QED
  BY <1>2, <1>3, <1>4, <1>5

\* Where the fields of a serialized transaction are
Layout(xs, t, at, n, m) ==
    /\ xs \in Seq(Field)
    /\ Len(xs) = at + n + m + 2 + Len(Stacks(t))
    /\ xs[1] = Number(t.version)
    /\ xs[at] = Number(n)
    /\ \A k \in 1..n : xs[at + k] = InputField(t.inputs[k])
    /\ xs[at + n + 1] = Number(m)
    /\ \A k \in 1..m : xs[at + n + 1 + k] = OutputField(t.outputs[k])
    /\ \A k \in 1..Len(Stacks(t)) : xs[at + n + m + 1 + k] = WitnessField(t.inputs[k])
    /\ xs[Len(xs)] = Number(t.lockTime)
    /\ hasSegwit(t) => xs[2] = Number(0) /\ xs[3] = Number(1)

LEMMA SerializedLayout ==
    ASSUME NEW t, Typed(t)
    PROVE  Layout(serialize(t), t, IF hasSegwit(t) THEN 4 ELSE 2,
                  Len(t.inputs), Len(t.outputs))
<1> DEFINE e == Encoding(Marked(t), InputFields(t), OutputFields(t), Stacks(t))
           xs == e \o LockTime(t)
           n == Len(t.inputs)
           m == Len(t.outputs)
           at == IF hasSegwit(t) THEN 4 ELSE 2
<1>0. n \in Nat /\ n >= 1 /\ m \in Nat
  BY PartsOfTransaction
<1>1. Parts(e, Marked(t), InputFields(t), OutputFields(t), Stacks(t))
  BY FieldsAreTyped, MarkedIsTyped, EncodingParts
<1>2. Joins(xs, e, LockTime(t))
  BY <1>1, MarkedIsTyped, Joined DEF Parts
<1>3. serialize(t) = xs
  BY SerializeEncodes
<1> HIDE DEF e, xs
<1>4. /\ Len(Marked(t)) = at - 1 /\ Len(InputFields(t)) = n /\ Len(OutputFields(t)) = m
      /\ Len(Stacks(t)) \in Nat
  <2>1. Len(InputFields(t)) = n /\ Len(OutputFields(t)) = m
    BY FieldsAreTyped
  <2>2. CASE hasSegwit(t)
    <3>1. /\ Len(Marked(t)) = IF hasSegwit(t) THEN 3 ELSE 1
          /\ Len(Stacks(t)) = IF hasSegwit(t) THEN Len(t.inputs) ELSE 0
      BY MarkedIsTyped
    <3> QED
      BY <1>0, <2>1, <2>2, <3>1
  <2>3. CASE ~hasSegwit(t)
    <3>1. /\ Len(Marked(t)) = IF hasSegwit(t) THEN 3 ELSE 1
          /\ Len(Stacks(t)) = IF hasSegwit(t) THEN Len(t.inputs) ELSE 0
      BY MarkedIsTyped
    <3> QED
      BY <1>0, <2>1, <2>3, <3>1
  <2> QED
    BY <2>2, <2>3
<1>a. at \in Nat /\ at >= 2 /\ (hasSegwit(t) => at = 4)
  OBVIOUS
<1> HIDE DEF at, n, m
<1>5. /\ xs \in Seq(Field) /\ Len(e) = at + n + m + 1 + Len(Stacks(t))
      /\ Len(xs) = at + n + m + 2 + Len(Stacks(t))
  <2>1. /\ Len(e) = Len(Marked(t)) + Len(InputFields(t)) + Len(OutputFields(t)) + Len(Stacks(t)) + 2
        /\ xs \in Seq(Field)
        /\ Len(xs) = Len(e) + Len(LockTime(t))
    BY <1>1, <1>2 DEF Parts, Joins
  <2>2. Len(LockTime(t)) = 1
    BY MarkedIsTyped
  <2> QED
    BY <2>1, <2>2, <1>0, <1>4, <1>a
<1>6. \A k \in 1..Len(e) : xs[k] = e[k]
  BY <1>2 DEF Joins
<1>7. xs[Len(xs)] = Number(t.lockTime)
  <2>1. xs[Len(e) + 1] = Number(t.lockTime)
    BY <1>2, MarkedIsTyped DEF Joins
  <2> QED
    BY <2>1, <1>0, <1>4, <1>5, <1>a
<1>8. xs[1] = Number(t.version)
  <2>1. e[1] = Number(t.version)
    BY <1>1, <1>4, <1>a, MarkedIsTyped DEF Parts
  <2> QED
    BY <2>1, <1>0, <1>4, <1>5, <1>6, <1>a
<1>9. xs[at] = Number(n)
  <2>1. e[at - 1 + 1] = Number(n)
    BY <1>1, <1>4 DEF Parts
  <2>2. at \in 1..Len(e) /\ at - 1 + 1 = at
    BY <1>0, <1>4, <1>5, <1>a
  <2> QED
    BY <2>1, <2>2, <1>6
<1>10. ASSUME NEW k \in 1..n PROVE xs[at + k] = InputField(t.inputs[k])
  <2>1. e[at - 1 + 1 + k] = InputFields(t)[k]
    BY <1>1, <1>4 DEF Parts
  <2>2. at + k \in 1..Len(e) /\ at - 1 + 1 + k = at + k
    BY <1>0, <1>4, <1>5, <1>a
  <2>3. InputFields(t)[k] = InputField(t.inputs[k])
    BY DEF InputFields, n
  <2> QED
    BY <2>1, <2>2, <2>3, <1>6
<1>11. xs[at + n + 1] = Number(m)
  <2>1. e[at - 1 + n + 2] = Number(m)
    BY <1>1, <1>4 DEF Parts
  <2>2. at + n + 1 \in 1..Len(e) /\ at - 1 + n + 2 = at + n + 1
    BY <1>0, <1>4, <1>5, <1>a
  <2> QED
    BY <2>1, <2>2, <1>6
<1>12. ASSUME NEW k \in 1..m PROVE xs[at + n + 1 + k] = OutputField(t.outputs[k])
  <2>1. e[at - 1 + n + 2 + k] = OutputFields(t)[k]
    BY <1>1, <1>4 DEF Parts
  <2>2. at + n + 1 + k \in 1..Len(e) /\ at - 1 + n + 2 + k = at + n + 1 + k
    BY <1>0, <1>4, <1>5, <1>a
  <2>3. OutputFields(t)[k] = OutputField(t.outputs[k])
    BY DEF OutputFields, m
  <2> QED
    BY <2>1, <2>2, <2>3, <1>6
<1>13. ASSUME NEW k \in 1..Len(Stacks(t))
       PROVE  xs[at + n + m + 1 + k] = WitnessField(t.inputs[k])
  <2>1. e[at - 1 + n + m + 2 + k] = Stacks(t)[k]
    BY <1>1, <1>4 DEF Parts
  <2>2. at + n + m + 1 + k \in 1..Len(e) /\ at - 1 + n + m + 2 + k = at + n + m + 1 + k
    BY <1>0, <1>4, <1>5, <1>a
  <2>3. Stacks(t)[k] = WitnessField(t.inputs[k])
    <3>1. hasSegwit(t)
      BY MarkedIsTyped
    <3>2. k \in 1..n
      BY <3>1, MarkedIsTyped DEF n
    <3> QED
      BY <3>1, <3>2 DEF Stacks, WitnessStacks, n
  <2> QED
    BY <2>1, <2>2, <2>3, <1>6
<1>14. hasSegwit(t) => xs[2] = Number(0) /\ xs[3] = Number(1)
  <2> SUFFICES ASSUME hasSegwit(t) PROVE xs[2] = Number(0) /\ xs[3] = Number(1)
    OBVIOUS
  <2>1. Len(Marked(t)) = 3 /\ at = 4
    BY MarkedIsTyped, <1>a
  <2>2. e[2] = Number(0) /\ e[3] = Number(1)
    BY <1>1, <2>1, MarkedIsTyped DEF Parts
  <2>3. 2 \in 1..Len(e) /\ 3 \in 1..Len(e)
    BY <1>0, <1>4, <1>5, <2>1
  <2> QED
    BY <2>2, <2>3, <1>6
<1>15. Layout(xs, t, at, n, m)
  BY <1>5, <1>7, <1>8, <1>9, <1>10, <1>11, <1>12, <1>13, <1>14 DEF Layout
<1> QED
  BY <1>3, <1>15 DEF at, n, m

LEMMA CopyKeeps ==
    ASSUME NEW t, Typed(t)
    PROVE  copy(t) = Kept(t)
<1> DEFINE xs == serialize(t)
           segwit == xs[2] = Number(0) /\ xs[3] = Number(1)
           at == IF segwit THEN 4 ELSE 2
           n == xs[at][2]
           m == xs[at + n + 1][2]
           inputs == SubSeq(xs, at + 1, at + n)
           outputs == SubSeq(xs, at + n + 2, at + n + 1 + m)
           witnesses == SubSeq(xs, at + n + m + 2, Len(xs) - 1)
<1>0. /\ Len(t.inputs) \in Nat /\ Len(t.inputs) >= 1 /\ Len(t.outputs) \in Nat
      /\ t.inputs \in Seq(InputType) /\ t.outputs \in Seq(OutputType)
  BY PartsOfTransaction
<1>1. Layout(xs, t, IF hasSegwit(t) THEN 4 ELSE 2, Len(t.inputs), Len(t.outputs))
  BY SerializedLayout
<1> HIDE DEF xs
<1>2. segwit <=> hasSegwit(t)
  <2>1. CASE hasSegwit(t)
    BY <1>1, <2>1 DEF Layout
  <2>2. CASE ~hasSegwit(t)
    <3>1. xs[2] = Number(Len(t.inputs))
      BY <1>1, <2>2 DEF Layout
    <3>2. Number(Len(t.inputs)) # Number(0)
      BY <1>0, NumbersDiffer
    <3> QED
      BY <2>2, <3>1, <3>2
  <2> QED
    BY <2>1, <2>2
<1>3. Layout(xs, t, at, Len(t.inputs), Len(t.outputs)) /\ at \in {2, 4}
  BY <1>1, <1>2
<1> HIDE DEF segwit, at
<1>4. n = Len(t.inputs)
  BY <1>3 DEF Layout, Number
<1> HIDE DEF n
<1>5. m = Len(t.outputs)
  <2>1. xs[at + n + 1] = <<"number", Len(t.outputs)>>
    BY <1>3, <1>4 DEF Layout, Number
  <2> QED
    BY <2>1
<1> HIDE DEF m
<1>6. Layout(xs, t, at, n, m) /\ n \in Nat /\ m \in Nat /\ at \in Nat /\ at >= 2
  BY <1>0, <1>3, <1>4, <1>5
<1>7. Len(Stacks(t)) = IF hasSegwit(t) THEN n ELSE 0
  BY <1>4, MarkedIsTyped
<1>8. Len(xs) \in Nat /\ Len(xs) >= at + n + m + 2
  BY <1>6, <1>7 DEF Layout
<1>9. \A k \in 1..Len(xs) : xs[k] \in Field
  BY <1>6, <1>8, ElementOfSeq DEF Layout
<1>10. \A k \in 1..n : inputs[k] = InputField(t.inputs[k])
  <2>1. \A k \in (at + 1)..(at + n) : xs[k] \in Field
    BY <1>6, <1>8, <1>9
  <2>2. \A k \in 1..(at + n - (at + 1) + 1) : inputs[k] = xs[at + 1 + k - 1]
    BY <1>6, <2>1, SubSeqProperties
  <2>3. \A k \in 1..n : inputs[k] = xs[at + k]
    <3> SUFFICES ASSUME NEW k \in 1..n PROVE inputs[k] = xs[at + k]
      OBVIOUS
    <3>1. at + n - (at + 1) + 1 = n /\ at + 1 + k - 1 = at + k
      BY <1>6
    <3> QED
      BY <2>2, <3>1
  <2> QED
    BY <1>6, <2>3 DEF Layout
<1>11. \A k \in 1..m : outputs[k] = OutputField(t.outputs[k])
  <2>1. \A k \in (at + n + 2)..(at + n + 1 + m) : xs[k] \in Field
    BY <1>6, <1>8, <1>9
  <2>2. \A k \in 1..(at + n + 1 + m - (at + n + 2) + 1) : outputs[k] = xs[at + n + 2 + k - 1]
    BY <1>6, <2>1, SubSeqProperties
  <2>3. \A k \in 1..m : outputs[k] = xs[at + n + 1 + k]
    <3> SUFFICES ASSUME NEW k \in 1..m PROVE outputs[k] = xs[at + n + 1 + k]
      OBVIOUS
    <3>1. at + n + 1 + m - (at + n + 2) + 1 = m /\ at + n + 2 + k - 1 = at + n + 1 + k
      BY <1>6
    <3> QED
      BY <2>2, <3>1
  <2> QED
    BY <1>6, <2>3 DEF Layout
<1>12. hasSegwit(t) => \A k \in 1..n : witnesses[k] = WitnessField(t.inputs[k])
  <2> SUFFICES ASSUME hasSegwit(t)
               PROVE  \A k \in 1..n : witnesses[k] = WitnessField(t.inputs[k])
    OBVIOUS
  <2>0. Len(xs) - 1 = at + n + m + 1 + n /\ Len(Stacks(t)) = n
    BY <1>6, <1>7 DEF Layout
  <2>1. \A k \in (at + n + m + 2)..(Len(xs) - 1) : xs[k] \in Field
    BY <1>6, <1>8, <1>9
  <2>2. \A k \in 1..(Len(xs) - 1 - (at + n + m + 2) + 1) :
            witnesses[k] = xs[at + n + m + 2 + k - 1]
    BY <1>6, <1>8, <2>1, SubSeqProperties
  <2>3. \A k \in 1..n : witnesses[k] = xs[at + n + m + 1 + k]
    <3> SUFFICES ASSUME NEW k \in 1..n PROVE witnesses[k] = xs[at + n + m + 1 + k]
      OBVIOUS
    <3>1. Len(xs) - 1 - (at + n + m + 2) + 1 = n /\ at + n + m + 2 + k - 1 = at + n + m + 1 + k
      BY <1>6, <2>0
    <3> QED
      BY <2>2, <3>1
  <2> QED
    BY <1>6, <2>0, <2>3 DEF Layout
<1>13. ~hasSegwit(t) => \A k \in 1..n : t.inputs[k].witness = <<>>
  BY <1>4, PartsOfTransaction DEF hasSegwit
<1> HIDE DEF inputs, outputs, witnesses
<1>14. ASSUME NEW k \in 1..n
       PROVE  ReadInput(inputs[k], IF segwit THEN witnesses[k][2] ELSE <<>>)
                  = KeptInput(t.inputs[k])
  <2>1. inputs[k] = <<"input", <<t.inputs[k].outPoint, t.inputs[k].script, t.inputs[k].sequence>>>>
    BY <1>10 DEF InputField
  <2>2. (IF segwit THEN witnesses[k][2] ELSE <<>>) = t.inputs[k].witness
    <3>1. CASE hasSegwit(t)
      <4>1. witnesses[k] = <<"witness", t.inputs[k].witness>>
        BY <1>12, <3>1 DEF WitnessField
      <4> QED
        BY <3>1, <4>1, <1>2
    <3>2. CASE ~hasSegwit(t)
      BY <3>2, <1>2, <1>13
    <3> QED
      BY <3>1, <3>2
  <2> QED
    BY <2>1, <2>2 DEF ReadInput, KeptInput
<1>15. ASSUME NEW k \in 1..m
       PROVE  [value |-> outputs[k][2][1], script |-> outputs[k][2][2]] = t.outputs[k]
  <2>1. outputs[k] = <<"output", <<t.outputs[k].value, t.outputs[k].script>>>>
    BY <1>11 DEF OutputField
  <2>2. t.outputs[k] \in OutputType
    BY <1>5, PartsOfTransaction
  <2> QED
    BY <2>1, <2>2 DEF OutputType
<1>16. [k \in 1..m |-> [value |-> outputs[k][2][1], script |-> outputs[k][2][2]]] = t.outputs
  <2>1. t.outputs = [k \in 1..m |-> t.outputs[k]]
    BY <1>0, <1>5, LenProperties
  <2> QED
    BY <2>1, <1>15
<1>17. xs[1][2] = t.version /\ Last(xs)[2] = t.lockTime
  BY <1>6 DEF Layout, Last, Number
<1>18. copy(t) = [version |-> xs[1][2],
                  inputs |-> [k \in 1..n |->
                      ReadInput(inputs[k], IF segwit THEN witnesses[k][2] ELSE <<>>)],
                  outputs |-> [k \in 1..m |->
                      [value |-> outputs[k][2][1], script |-> outputs[k][2][2]]],
                  lockTime |-> Last(xs)[2]]
  BY DEF copy, deserialize, xs, segwit, at, n, m, inputs, outputs, witnesses
<1>19. [k \in 1..n |-> ReadInput(inputs[k], IF segwit THEN witnesses[k][2] ELSE <<>>)]
           = [k \in 1..Len(t.inputs) |-> KeptInput(t.inputs[k])]
  BY <1>4, <1>14
<1> QED
  BY <1>16, <1>17, <1>18, <1>19 DEF Kept

-----------------------------------------------------------------------------
(* Witness inputs                                                          *)

Prevouts(t) == [k \in 1..Len(t.inputs) |-> <<"outPoint", t.inputs[k].outPoint>>]
SequenceNumbers(t) == [k \in 1..Len(t.inputs) |-> Number(t.inputs[k].sequence)]

HashPrevouts(t, type) == IF type.anyoneCanPay THEN Zeros ELSE Prevouts(t)
HashSequence(t, type) == IF HashesSequences(type) THEN SequenceNumbers(t) ELSE Zeros
HashOutputs(t, i, type) ==
    IF type.base = "ALL" THEN OutputFields(t)
    ELSE IF type.base = "SINGLE" /\ i <= Len(t.outputs)
         THEN <<OutputField(t.outputs[i])>> ELSE Zeros

LEMMA WitnessHashesAre ==
    ASSUME NEW t, DOMAIN t.inputs = 1..Len(t.inputs), DOMAIN t.outputs = 1..Len(t.outputs),
           NEW i, NEW type
    PROVE  WitnessHashes(t, i, type)
               = <<HashPrevouts(t, type), HashSequence(t, type), HashOutputs(t, i, type)>>
<1>1. (IF type.anyoneCanPay THEN Zeros
       ELSE [k \in DOMAIN t.inputs |-> <<"outPoint", t.inputs[k].outPoint>>])
          = HashPrevouts(t, type)
  BY DEF HashPrevouts, Prevouts
<1>2. (IF HashesSequences(type)
       THEN [k \in DOMAIN t.inputs |-> Number(t.inputs[k].sequence)] ELSE Zeros)
          = HashSequence(t, type)
  BY DEF HashSequence, SequenceNumbers
<1>3. (IF type.base = "ALL" THEN [k \in DOMAIN t.outputs |-> OutputField(t.outputs[k])]
       ELSE IF type.base = "SINGLE" /\ i <= Len(t.outputs)
            THEN <<OutputField(t.outputs[i])>> ELSE Zeros)
          = HashOutputs(t, i, type)
  BY DEF HashOutputs, OutputFields
<1> QED
  BY <1>1, <1>2, <1>3 DEF WitnessHashes, Fields

LEMMA WitnessFieldsAre ==
    ASSUME NEW t, DOMAIN t.inputs = 1..Len(t.inputs), DOMAIN t.outputs = 1..Len(t.outputs),
           NEW i, NEW type, NEW amount
    PROVE  WitnessFields(t, i, type, amount)
               = << Number(t.version), <<"hash", HashPrevouts(t, type)>>,
                    <<"hash", HashSequence(t, type)>>,
                    <<"outPoint", t.inputs[i].outPoint>>, <<"script", ScriptOf(t.inputs[i])>>,
                    Number(amount), Number(t.inputs[i].sequence),
                    <<"hash", HashOutputs(t, i, type)>>,
                    Number(t.lockTime), SigHashField(type) >>
<1> DEFINE hashes == WitnessHashes(t, i, type)
<1>1. /\ hashes[1] = HashPrevouts(t, type)
      /\ hashes[2] = HashSequence(t, type)
      /\ hashes[3] = HashOutputs(t, i, type)
  BY WitnessHashesAre
<1> HIDE DEF hashes
<1>2. WitnessFields(t, i, type, amount)
          = << Number(t.version), <<"hash", hashes[1]>>, <<"hash", hashes[2]>>,
               <<"outPoint", t.inputs[i].outPoint>>, <<"script", ScriptOf(t.inputs[i])>>,
               Number(amount), Number(t.inputs[i].sequence), <<"hash", hashes[3]>>,
               Number(t.lockTime), SigHashField(type) >>
  BY DEF WitnessFields, hashes
<1> QED
  BY <1>1, <1>2

\* A copy has lost the amounts, which are given apart.
LEMMA SameWitnessFields ==
    ASSUME NEW t, Typed(t), NEW i \in 1..Len(t.inputs), NEW type, NEW amount
    PROVE  hashForWitnessSignature(t, i, type, amount) = WitnessFields(t, i, type, amount)
<1> DEFINE c == Kept(t)
<1>0. /\ Len(t.inputs) \in Nat /\ DOMAIN t.inputs = 1..Len(t.inputs)
      /\ DOMAIN t.outputs = 1..Len(t.outputs)
  BY PartsOfTransaction
<1>1. /\ c.version = t.version /\ c.lockTime = t.lockTime /\ c.outputs = t.outputs
      /\ c.inputs = [k \in 1..Len(t.inputs) |-> KeptInput(t.inputs[k])]
  BY DEF Kept
<1> HIDE DEF c
<1>2. DOMAIN c.inputs = 1..Len(t.inputs) /\ Len(c.inputs) = Len(t.inputs)
  BY <1>0, <1>1
<1>3. \A k \in 1..Len(t.inputs) : /\ c.inputs[k].outPoint = t.inputs[k].outPoint
                                  /\ c.inputs[k].sequence = t.inputs[k].sequence
  BY <1>1 DEF KeptInput
<1>4. Prevouts(c) = Prevouts(t) /\ SequenceNumbers(c) = SequenceNumbers(t)
  BY <1>2, <1>3 DEF Prevouts, SequenceNumbers
<1>5. /\ HashPrevouts(c, type) = HashPrevouts(t, type)
      /\ HashSequence(c, type) = HashSequence(t, type)
      /\ HashOutputs(c, i, type) = HashOutputs(t, i, type)
  BY <1>1, <1>4 DEF HashPrevouts, HashSequence, HashOutputs, OutputFields
<1>6. ScriptOf(c.inputs[i]) = ScriptOf(t.inputs[i])
  BY <1>3 DEF ScriptOf
<1>7. WitnessFields(c, i, type, amount) = WitnessFields(t, i, type, amount)
  <2>1. /\ DOMAIN c.inputs = 1..Len(c.inputs)
        /\ DOMAIN c.outputs = 1..Len(c.outputs)
    BY <1>0, <1>1, <1>2
  <2>2. WitnessFields(c, i, type, amount)
               = << Number(c.version), <<"hash", HashPrevouts(c, type)>>,
                    <<"hash", HashSequence(c, type)>>,
                    <<"outPoint", c.inputs[i].outPoint>>, <<"script", ScriptOf(c.inputs[i])>>,
                    Number(amount), Number(c.inputs[i].sequence),
                    <<"hash", HashOutputs(c, i, type)>>,
                    Number(c.lockTime), SigHashField(type) >>
    BY <2>1, WitnessFieldsAre
  <2>3. WitnessFields(t, i, type, amount)
               = << Number(t.version), <<"hash", HashPrevouts(t, type)>>,
                    <<"hash", HashSequence(t, type)>>,
                    <<"outPoint", t.inputs[i].outPoint>>, <<"script", ScriptOf(t.inputs[i])>>,
                    Number(amount), Number(t.inputs[i].sequence),
                    <<"hash", HashOutputs(t, i, type)>>,
                    Number(t.lockTime), SigHashField(type) >>
    BY <1>0, WitnessFieldsAre
  <2> QED
    BY <2>2, <2>3, <1>1, <1>3, <1>5, <1>6
<1> QED
  BY <1>7, CopyKeeps DEF hashForWitnessSignature, c

\* Transactions of which a type signs the same outputs
LEMMA SameOutputs ==
    ASSUME NEW s, Typed(s), NEW t, Typed(t)
    PROVE  OutputFields(s) = OutputFields(t) <=> s.outputs = t.outputs
<1>0. /\ Len(s.outputs) \in Nat /\ Len(t.outputs) \in Nat
      /\ s.outputs \in Seq(OutputType) /\ t.outputs \in Seq(OutputType)
      /\ \A k \in 1..Len(s.outputs) : s.outputs[k] \in OutputType
      /\ \A k \in 1..Len(t.outputs) : t.outputs[k] \in OutputType
  BY PartsOfTransaction
<1>1. ASSUME s.outputs = t.outputs PROVE OutputFields(s) = OutputFields(t)
  BY <1>1 DEF OutputFields
<1>2. ASSUME OutputFields(s) = OutputFields(t) PROVE s.outputs = t.outputs
  <2>1. Len(s.outputs) = Len(t.outputs)
    BY <1>2, FieldsAreTyped
  <2>2. ASSUME NEW k \in 1..Len(s.outputs) PROVE s.outputs[k] = t.outputs[k]
    <3>1. OutputFields(s)[k] = OutputField(s.outputs[k]) /\ OutputFields(t)[k] = OutputField(t.outputs[k])
      BY <2>1 DEF OutputFields
    <3>2. OutputField(s.outputs[k]) = OutputField(t.outputs[k])
      BY <3>1, <1>2
    <3>3. /\ s.outputs[k].value = t.outputs[k].value
          /\ s.outputs[k].script = t.outputs[k].script
      BY <3>2 DEF OutputField
    <3>4. s.outputs[k] \in OutputType /\ t.outputs[k] \in OutputType
      BY <1>0, <2>1
    <3> QED
      BY <3>3, <3>4 DEF OutputType
  <2> QED
    BY <1>0, <2>1, <2>2, SeqEqual
<1> QED
  BY <1>1, <1>2

LEMMA SameOutput ==
    ASSUME NEW a \in OutputType, NEW b \in OutputType
    PROVE  <<OutputField(a)>> = <<OutputField(b)>> <=> <<a>> = <<b>>
<1>1. OutputField(a) = OutputField(b) => a = b
  BY DEF OutputField, OutputType
<1> QED
  BY <1>1

\* What is written behind a type's outputs differs when they do.
LEMMA HashOutputsDiffer ==
    ASSUME NEW s, Typed(s), NEW t, Typed(t), NEW i \in Nat \ {0}, NEW type \in Type
    PROVE  HashOutputs(s, i, type) = HashOutputs(t, i, type)
               <=> Outputs(s, i, type) = Outputs(t, i, type)
<1>0. type.base \in {"ALL", "NONE", "SINGLE"}
  BY DEF Type
<1>1. CASE type.base = "ALL"
  <2>1. /\ HashOutputs(s, i, type) = OutputFields(s) /\ HashOutputs(t, i, type) = OutputFields(t)
        /\ Outputs(s, i, type) = s.outputs /\ Outputs(t, i, type) = t.outputs
    BY <1>1 DEF HashOutputs, Outputs
  <2> QED
    BY <2>1, SameOutputs
<1>2. CASE type.base = "NONE"
  <2>1. /\ HashOutputs(s, i, type) = Zeros /\ HashOutputs(t, i, type) = Zeros
        /\ Outputs(s, i, type) = <<>> /\ Outputs(t, i, type) = <<>>
    BY <1>2 DEF HashOutputs, Outputs
  <2> QED
    BY <2>1
<1>3. CASE type.base = "SINGLE"
  <2>0. /\ i <= Len(s.outputs) => s.outputs[i] \in OutputType
        /\ i <= Len(t.outputs) => t.outputs[i] \in OutputType
    <3>1. i <= Len(s.outputs) => i \in 1..Len(s.outputs)
      BY PartsOfTransaction
    <3>2. i <= Len(t.outputs) => i \in 1..Len(t.outputs)
      BY PartsOfTransaction
    <3> QED
      BY <3>1, <3>2, PartsOfTransaction
  <2>1. /\ HashOutputs(s, i, type)
               = (IF i <= Len(s.outputs) THEN <<OutputField(s.outputs[i])>> ELSE Zeros)
        /\ HashOutputs(t, i, type)
               = (IF i <= Len(t.outputs) THEN <<OutputField(t.outputs[i])>> ELSE Zeros)
        /\ Outputs(s, i, type) = (IF i <= Len(s.outputs) THEN <<s.outputs[i]>> ELSE <<>>)
        /\ Outputs(t, i, type) = (IF i <= Len(t.outputs) THEN <<t.outputs[i]>> ELSE <<>>)
    BY <1>3 DEF HashOutputs, Outputs
  <2>2. \A a : <<OutputField(a)>> # Zeros
    <3>1. \A a : OutputField(a) # <<"zeros">>
      BY DEF OutputField
    <3> QED
      BY <3>1 DEF Zeros
  <2>3. \A a : <<a>> # <<>>
    OBVIOUS
  <2>4. CASE i <= Len(s.outputs) /\ i <= Len(t.outputs)
    BY <2>0, <2>1, <2>4, SameOutput
  <2>5. CASE i <= Len(s.outputs) /\ ~(i <= Len(t.outputs))
    BY <2>1, <2>2, <2>3, <2>5
  <2>6. CASE ~(i <= Len(s.outputs)) /\ i <= Len(t.outputs)
    BY <2>1, <2>2, <2>3, <2>6
  <2>7. CASE ~(i <= Len(s.outputs)) /\ ~(i <= Len(t.outputs))
    BY <2>1, <2>7
  <2> QED
    BY <2>4, <2>5, <2>6, <2>7
<1> QED
  BY <1>0, <1>1, <1>2, <1>3

\* The inputs, as a type signs them
SignedSequence(t, i, type, k) ==
    IF k = i \/ type.base = "ALL" THEN t.inputs[k].sequence ELSE 0

\* Two transactions show a type the same inputs next to input i.
SameInputs(s, t, i, type) ==
    type.anyoneCanPay
    \/ /\ Len(s.inputs) = Len(t.inputs)
       /\ \A k \in 1..Len(s.inputs) :
              /\ s.inputs[k].outPoint = t.inputs[k].outPoint
              /\ SignedSequence(s, i, type, k) = SignedSequence(t, i, type, k)

LEMMA InputsAreSame ==
    ASSUME NEW s, Typed(s), NEW t, Typed(t), NEW i, NEW type \in Type
    PROVE  Inputs(s, i, type) = Inputs(t, i, type) <=> SameInputs(s, t, i, type)
<1>0. /\ Len(s.inputs) \in Nat /\ DOMAIN s.inputs = 1..Len(s.inputs)
      /\ Len(t.inputs) \in Nat /\ DOMAIN t.inputs = 1..Len(t.inputs)
  BY PartsOfTransaction
<1>1. CASE type.anyoneCanPay
  BY <1>1 DEF Inputs, SameInputs
<1>2. CASE ~type.anyoneCanPay
  <2> DEFINE a == [k \in 1..Len(s.inputs) |->
                      <<s.inputs[k].outPoint, SignedSequence(s, i, type, k)>>]
             b == [k \in 1..Len(t.inputs) |->
                      <<t.inputs[k].outPoint, SignedSequence(t, i, type, k)>>]
  <2>1. Inputs(s, i, type) = a /\ Inputs(t, i, type) = b
    BY <1>0, <1>2 DEF Inputs, SignedSequence
  <2>2. ASSUME a = b PROVE SameInputs(s, t, i, type)
    <3>1. DOMAIN a = DOMAIN b /\ \A k \in DOMAIN a : a[k] = b[k]
      BY <2>2
    <3>2. Len(s.inputs) = Len(t.inputs)
      BY <3>1, <1>0
    <3>3. ASSUME NEW k \in 1..Len(s.inputs)
          PROVE  /\ s.inputs[k].outPoint = t.inputs[k].outPoint
                 /\ SignedSequence(s, i, type, k) = SignedSequence(t, i, type, k)
      <4>1. a[k] = b[k]
        BY <3>1
      <4>2. <<s.inputs[k].outPoint, SignedSequence(s, i, type, k)>>
                = <<t.inputs[k].outPoint, SignedSequence(t, i, type, k)>>
        BY <4>1, <3>2
      <4> QED
        BY <4>2
    <3> QED
      BY <3>2, <3>3 DEF SameInputs
  <2>3. ASSUME SameInputs(s, t, i, type) PROVE a = b
    BY <2>3, <1>2 DEF SameInputs
  <2> QED
    BY <2>1, <2>2, <2>3
<1> QED
  BY <1>1, <1>2

LEMMA HashedInputsAreSame ==
    ASSUME NEW s, Typed(s), NEW t, Typed(t), NEW i \in 1..Len(s.inputs), NEW type \in Type,
           s.inputs[i].sequence = t.inputs[i].sequence
    PROVE  /\ HashPrevouts(s, type) = HashPrevouts(t, type)
           /\ HashSequence(s, type) = HashSequence(t, type)
           <=> SameInputs(s, t, i, type)
<1>0. /\ Len(s.inputs) \in Nat /\ Len(t.inputs) \in Nat
  BY PartsOfTransaction
<1>1. CASE type.anyoneCanPay
  BY <1>1 DEF HashPrevouts, HashSequence, HashesSequences, SameInputs
<1>2. CASE ~type.anyoneCanPay
  <2>1. ASSUME Prevouts(s) = Prevouts(t)
        PROVE  /\ Len(s.inputs) = Len(t.inputs)
               /\ \A k \in 1..Len(s.inputs) : s.inputs[k].outPoint = t.inputs[k].outPoint
    <3>1. DOMAIN Prevouts(s) = 1..Len(s.inputs) /\ DOMAIN Prevouts(t) = 1..Len(t.inputs)
      BY DEF Prevouts
    <3>2. Len(s.inputs) = Len(t.inputs)
      BY <2>1, <3>1, <1>0
    <3>3. ASSUME NEW k \in 1..Len(s.inputs) PROVE s.inputs[k].outPoint = t.inputs[k].outPoint
      <4>1. /\ Prevouts(s)[k] = <<"outPoint", s.inputs[k].outPoint>>
            /\ Prevouts(t)[k] = <<"outPoint", t.inputs[k].outPoint>>
        BY <3>2 DEF Prevouts
      <4>2. <<"outPoint", s.inputs[k].outPoint>> = <<"outPoint", t.inputs[k].outPoint>>
        BY <4>1, <2>1
      <4> QED
        BY <4>2
    <3> QED
      BY <3>2, <3>3
  <2>2. ASSUME SequenceNumbers(s) = SequenceNumbers(t), Len(s.inputs) = Len(t.inputs)
        PROVE  \A k \in 1..Len(s.inputs) : s.inputs[k].sequence = t.inputs[k].sequence
    <3> SUFFICES ASSUME NEW k \in 1..Len(s.inputs)
                 PROVE  s.inputs[k].sequence = t.inputs[k].sequence
      OBVIOUS
    <3>1. /\ SequenceNumbers(s)[k] = Number(s.inputs[k].sequence)
          /\ SequenceNumbers(t)[k] = Number(t.inputs[k].sequence)
      BY <2>2 DEF SequenceNumbers
    <3> QED
      BY <3>1, <2>2, NumbersDiffer
  <2>3. ASSUME HashPrevouts(s, type) = HashPrevouts(t, type),
               HashSequence(s, type) = HashSequence(t, type)
        PROVE  SameInputs(s, t, i, type)
    <3>1. /\ Len(s.inputs) = Len(t.inputs)
          /\ \A k \in 1..Len(s.inputs) : s.inputs[k].outPoint = t.inputs[k].outPoint
      BY <1>2, <2>1, <2>3 DEF HashPrevouts
    <3>2. CASE type.base = "ALL"
      <4>1. SequenceNumbers(s) = SequenceNumbers(t)
        BY <1>2, <2>3, <3>2 DEF HashSequence, HashesSequences
      <4> QED
        BY <4>1, <2>2, <3>1 DEF SameInputs, SignedSequence
    <3>3. CASE type.base # "ALL"
      BY <3>1, <3>3 DEF SameInputs, SignedSequence
    <3> QED
      BY <3>2, <3>3
  <2>4. ASSUME SameInputs(s, t, i, type)
        PROVE  /\ HashPrevouts(s, type) = HashPrevouts(t, type)
               /\ HashSequence(s, type) = HashSequence(t, type)
    <3>1. /\ Len(s.inputs) = Len(t.inputs)
          /\ \A k \in 1..Len(s.inputs) :
                 /\ s.inputs[k].outPoint = t.inputs[k].outPoint
                 /\ SignedSequence(s, i, type, k) = SignedSequence(t, i, type, k)
      BY <2>4, <1>2 DEF SameInputs
    <3>2. Prevouts(s) = Prevouts(t)
      BY <3>1 DEF Prevouts
    <3>3. HashPrevouts(s, type) = HashPrevouts(t, type)
      BY <3>2 DEF HashPrevouts
    <3>4. HashSequence(s, type) = HashSequence(t, type)
      <4>1. CASE type.base = "ALL"
        <5>1. \A k \in 1..Len(s.inputs) : s.inputs[k].sequence = t.inputs[k].sequence
          BY <3>1, <4>1 DEF SignedSequence
        <5>2. SequenceNumbers(s) = SequenceNumbers(t)
          BY <3>1, <5>1 DEF SequenceNumbers
        <5> QED
          BY <5>2 DEF HashSequence
      <4>2. CASE type.base # "ALL"
        BY <4>2 DEF HashSequence, HashesSequences
      <4> QED
        BY <4>1, <4>2
    <3> QED
      BY <3>3, <3>4
  <2> QED
    BY <2>3, <2>4
<1> QED
  BY <1>1, <1>2

\* What every type signs of input i and around it
SameFrame(s, t, i) ==
    /\ s.version = t.version /\ s.lockTime = t.lockTime
    /\ s.inputs[i].outPoint = t.inputs[i].outPoint
    /\ s.inputs[i].sequence = t.inputs[i].sequence

LEMMA SignedIsSame ==
    ASSUME NEW s, Typed(s), NEW t, Typed(t), NEW i, NEW type \in Type
    PROVE  Signs(s, i, type) = Signs(t, i, type)
               <=> /\ SameFrame(s, t, i)
                   /\ SameInputs(s, t, i, type)
                   /\ Outputs(s, i, type) = Outputs(t, i, type)
<1>1. Signs(s, i, type) = Signs(t, i, type)
          <=> /\ SameFrame(s, t, i)
              /\ Inputs(s, i, type) = Inputs(t, i, type)
              /\ Outputs(s, i, type) = Outputs(t, i, type)
  BY DEF Signs, SameFrame
<1> QED
  BY <1>1, InputsAreSame

LEMMA WitnessCommits ==
    ASSUME NEW s, Typed(s), NEW t, Typed(t), NEW type \in Type,
           NEW i \in 1..Len(s.inputs), i \in 1..Len(t.inputs)
    PROVE  OfWitness(s, i, type) = OfWitness(t, i, type)
               <=> Signs(s, i, type) = Signs(t, i, type)
<1>0. /\ s.inputs[i].value = 1 /\ t.inputs[i].value = 1
      /\ DOMAIN s.inputs = 1..Len(s.inputs) /\ DOMAIN s.outputs = 1..Len(s.outputs)
      /\ DOMAIN t.inputs = 1..Len(t.inputs) /\ DOMAIN t.outputs = 1..Len(t.outputs)
  BY PartsOfTransaction
<1>i. i \in Nat \ {0}
  BY PartsOfTransaction
<1>1. /\ OfWitness(s, i, type) = WitnessFields(s, i, type, 1)
      /\ OfWitness(t, i, type) = WitnessFields(t, i, type, 1)
  BY <1>0, SameWitnessFields DEF OfWitness
<1>2. WitnessFields(s, i, type, 1) = WitnessFields(t, i, type, 1)
          <=> /\ SameFrame(s, t, i)
              /\ HashPrevouts(s, type) = HashPrevouts(t, type)
              /\ HashSequence(s, type) = HashSequence(t, type)
              /\ HashOutputs(s, i, type) = HashOutputs(t, i, type)
  <2> DEFINE w(r) == << Number(r.version), <<"hash", HashPrevouts(r, type)>>,
                    <<"hash", HashSequence(r, type)>>,
                    <<"outPoint", r.inputs[i].outPoint>>, <<"script", ScriptOf(r.inputs[i])>>,
                    Number(1), Number(r.inputs[i].sequence),
                    <<"hash", HashOutputs(r, i, type)>>,
                    Number(r.lockTime), SigHashField(type) >>
  <2>1. WitnessFields(s, i, type, 1) = w(s) /\ WitnessFields(t, i, type, 1) = w(t)
    BY <1>0, WitnessFieldsAre
  <2>2. ASSUME w(s) = w(t)
        PROVE  /\ SameFrame(s, t, i)
               /\ HashPrevouts(s, type) = HashPrevouts(t, type)
               /\ HashSequence(s, type) = HashSequence(t, type)
               /\ HashOutputs(s, i, type) = HashOutputs(t, i, type)
    <3>1. /\ w(s)[1] = w(t)[1] /\ w(s)[2] = w(t)[2] /\ w(s)[3] = w(t)[3] /\ w(s)[4] = w(t)[4]
          /\ w(s)[7] = w(t)[7] /\ w(s)[8] = w(t)[8] /\ w(s)[9] = w(t)[9]
      BY <2>2
    <3>2. /\ Number(s.version) = Number(t.version)
          /\ <<"hash", HashPrevouts(s, type)>> = <<"hash", HashPrevouts(t, type)>>
          /\ <<"hash", HashSequence(s, type)>> = <<"hash", HashSequence(t, type)>>
          /\ <<"outPoint", s.inputs[i].outPoint>> = <<"outPoint", t.inputs[i].outPoint>>
          /\ Number(s.inputs[i].sequence) = Number(t.inputs[i].sequence)
          /\ <<"hash", HashOutputs(s, i, type)>> = <<"hash", HashOutputs(t, i, type)>>
          /\ Number(s.lockTime) = Number(t.lockTime)
      BY <3>1
    <3> QED
      BY <3>2, NumbersDiffer DEF SameFrame
  <2>3. ASSUME SameFrame(s, t, i),
               HashPrevouts(s, type) = HashPrevouts(t, type),
               HashSequence(s, type) = HashSequence(t, type),
               HashOutputs(s, i, type) = HashOutputs(t, i, type)
        PROVE  w(s) = w(t)
    BY <2>3 DEF SameFrame, ScriptOf
  <2> QED
    BY <2>1, <2>2, <2>3
<1>3. HashOutputs(s, i, type) = HashOutputs(t, i, type)
          <=> Outputs(s, i, type) = Outputs(t, i, type)
  BY <1>i, HashOutputsDiffer
<1>4. SameFrame(s, t, i) =>
          (/\ HashPrevouts(s, type) = HashPrevouts(t, type)
           /\ HashSequence(s, type) = HashSequence(t, type)
           <=> SameInputs(s, t, i, type))
  BY HashedInputsAreSame DEF SameFrame
<1> QED
  BY <1>1, <1>2, <1>3, <1>4, SignedIsSame

LEMMA PlacesInBoth ==
    ASSUME TypeOK
    PROVE  \A i \in Places : i \in 1..Len(signed.inputs) /\ i \in 1..Len(tx.inputs)
  BY PartsOfTransaction DEF TypeOK, Places

LEMMA WitnessInv == TypeOK => WitnessSignsItsType
<1> SUFFICES ASSUME TypeOK PROVE WitnessSignsItsType
  OBVIOUS
<1>1. ASSUME NEW i \in Places, NEW type \in Type
      PROVE  OfWitness(signed, i, type) = OfWitness(tx, i, type)
                 <=> Signs(signed, i, type) = Signs(tx, i, type)
  <2>1. i \in 1..Len(signed.inputs) /\ i \in 1..Len(tx.inputs)
    BY PlacesInBoth
  <2>2. Typed(signed) /\ Typed(tx)
    BY DEF TypeOK
  <2> QED
    BY <2>1, <2>2, WitnessCommits
<1> QED
  BY <1>1 DEF WitnessSignsItsType, Commits

\* A signature over a witness input survives exactly the edits that leave what
\* its type signs, for all six types, any number of inputs and outputs and any
\* history of edits: hashForWitnessSignature (TransactionSerializer.kt).
THEOREM WitnessSigned == Spec => []WitnessSignsItsType
  BY TypeCorrect, WitnessInv, PTL

-----------------------------------------------------------------------------
(* Legacy inputs, of the types ALL and NONE                                *)

SignedInputField(t, i, type, k) ==
    <<"input", <<t.inputs[k].outPoint, IF k = i THEN ScriptOf(t.inputs[k]) ELSE Null,
                 SignedSequence(t, i, type, k)>>>>
SignedInputFields(t, i, type) ==
    IF type.anyoneCanPay THEN <<SignedInputField(t, i, type, i)>>
    ELSE [k \in 1..Len(t.inputs) |-> SignedInputField(t, i, type, k)]
SignedOutputFields(t, type) == IF type.base = "ALL" THEN OutputFields(t) ELSE <<>>
Ending(t, type) == <<Number(t.lockTime), SigHashField(type)>>

\* The encoding that both serializers write
Legacy(t, i, type) ==
    Encoding(<<Number(t.version)>>, SignedInputFields(t, i, type), SignedOutputFields(t, type),
             Ending(t, type))

LEMMA SignedFieldsAreTyped ==
    ASSUME NEW t, Typed(t), NEW i \in 1..Len(t.inputs), NEW type \in Type
    PROVE  /\ SignedInputFields(t, i, type) \in Seq(Field)
           /\ Len(SignedInputFields(t, i, type))
                  = IF type.anyoneCanPay THEN 1 ELSE Len(t.inputs)
           /\ SignedOutputFields(t, type) \in Seq(Field)
           /\ Len(SignedOutputFields(t, type))
                  = IF type.base = "ALL" THEN Len(t.outputs) ELSE 0
           /\ <<Number(t.version)>> \in Seq(Field)
           /\ Number(t.lockTime) \in Field /\ SigHashField(type) \in Field
           /\ Ending(t, type) \in Seq(Field)
<1>0. Len(t.inputs) \in Nat
  BY PartsOfTransaction
<1>1. \A k \in 1..Len(t.inputs) : SignedInputField(t, i, type, k) \in Field
  <2> SUFFICES ASSUME NEW k \in 1..Len(t.inputs)
               PROVE  SignedInputField(t, i, type, k) \in Field
    OBVIOUS
  <2>1. SignedSequence(t, i, type, k) \in Int
    BY PartsOfTransaction DEF SignedSequence
  <2>2. t.inputs[k].outPoint \in OutPoints
    BY PartsOfTransaction
  <2>3. ScriptOf(t.inputs[k]) \in {"code"} \X OutPoints
    BY <2>2 DEF ScriptOf
  <2> QED
    BY <2>1, <2>2, <2>3 DEF SignedInputField, Field
<1>2. /\ SignedInputFields(t, i, type) \in Seq(Field)
      /\ Len(SignedInputFields(t, i, type)) = IF type.anyoneCanPay THEN 1 ELSE Len(t.inputs)
  <2>1. CASE type.anyoneCanPay
    BY <1>1, <2>1 DEF SignedInputFields
  <2>2. CASE ~type.anyoneCanPay
    <3>1. [k \in 1..Len(t.inputs) |-> SignedInputField(t, i, type, k)] \in Seq(Field)
      BY <1>0, <1>1, IsASeq
    <3>2. SignedInputFields(t, i, type)
              = [k \in 1..Len(t.inputs) |-> SignedInputField(t, i, type, k)]
      BY <2>2 DEF SignedInputFields
    <3> QED
      BY <1>0, <2>2, <3>1, <3>2
  <2> QED
    BY <2>1, <2>2
<1>3. /\ SignedOutputFields(t, type) \in Seq(Field)
      /\ Len(SignedOutputFields(t, type)) = IF type.base = "ALL" THEN Len(t.outputs) ELSE 0
  <2>1. CASE type.base = "ALL"
    BY <2>1, FieldsAreTyped DEF SignedOutputFields
  <2>2. CASE type.base # "ALL"
    BY <2>2 DEF SignedOutputFields
  <2> QED
    BY <2>1, <2>2
<1>4. <<Number(t.version)>> \in Seq(Field) /\ Number(t.lockTime) \in Field
  BY PartsOfTransaction, NumberIsField
<1>5. SigHashField(type) \in Field
  BY DEF SigHashField, Field
<1>6. Ending(t, type) \in Seq(Field)
  BY <1>4, <1>5 DEF Ending
<1> QED
  BY <1>2, <1>3, <1>4, <1>5, <1>6

LEMMA OneAndOne ==
    ASSUME NEW a, NEW b
    PROVE  <<a>> \o <<b>> = <<a, b>>
<1> DEFINE S == {a, b}
           s == <<a>>
           t == <<b>>
           u == <<a, b>>
<1>1. /\ s \in Seq(S) /\ t \in Seq(S) /\ u \in Seq(S)
      /\ Len(s) = 1 /\ Len(t) = 1 /\ Len(u) = 2
  OBVIOUS
<1>2. s[1] = a /\ t[1] = b /\ u[1] = a /\ u[2] = b
  OBVIOUS
<1> HIDE DEF s, t, u, S
<1>3. /\ s \o t \in Seq(S) /\ Len(s \o t) = Len(s) + Len(t)
      /\ \A k \in 1..Len(s) + Len(t) : (s \o t)[k] = IF k <= Len(s) THEN s[k] ELSE t[k - Len(s)]
  BY <1>1, ConcatProperties
<1>4. Len(s) + Len(t) = 2
  BY <1>1
<1>5. (s \o t)[1] = s[1] /\ (s \o t)[2] = t[1]
  BY <1>1, <1>3, <1>4
<1>6. \A k \in 1..2 : k = 1 \/ k = 2
  OBVIOUS
<1>7. \A k \in 1..2 : (s \o t)[k] = u[k]
  BY <1>2, <1>5, <1>6
<1>8. s \o t = u
  BY <1>1, <1>3, <1>4, <1>7, SeqEqual
<1> QED
  BY <1>8 DEF s, t, u

LEMMA Associative ==
    \A s, t, u \in Seq(Field) : (s \o t) \o u = s \o (t \o u)
  BY ConcatAssociative

\* The brackets of an encoding may be put otherwise.
InHalves(p, xs, ys, a, b) ==
    p \o (<<Number(Len(xs))>> \o xs) \o (<<Number(Len(ys))>> \o ys) \o <<a, b>>
        = Encoding(p, xs, ys, <<a, b>>)
EndApart(p, xs, ys, a, b) ==
    Encoding(p, xs, ys, <<>>) \o <<a>> \o <<b>> = Encoding(p, xs, ys, <<a, b>>)

LEMMA Regrouped ==
    \A p, xs, ys \in Seq(Field), a, b \in Field : InHalves(p, xs, ys, a, b)
<1> TAKE p, xs, ys \in Seq(Field), a, b \in Field
<1> DEFINE n == <<Number(Len(xs))>>
           m == <<Number(Len(ys))>>
           f == p \o n \o xs
           h == f \o m \o ys
<1>1. n \in Seq(Field) /\ m \in Seq(Field)
  BY LenProperties, NumberIsField
<1>3. \A z : Encoding(p, xs, ys, z) = h \o z
  BY DEF Encoding
<1> HIDE DEF n, m
<1>4. p \o n \in Seq(Field) /\ f \in Seq(Field)
  BY <1>1, ConcatProperties
<1>5. p \o (n \o xs) = f
  BY <1>1, Associative
<1> HIDE DEF f
<1>6. f \o m \in Seq(Field) /\ h \in Seq(Field)
  BY <1>1, <1>4, ConcatProperties
<1>7. f \o (m \o ys) = h
  <2> HIDE DEF h
  <2>0. f \in Seq(Field) /\ m \in Seq(Field) /\ ys \in Seq(Field)
    BY <1>1, <1>4
  <2>1. (f \o m) \o ys = f \o (m \o ys)
    BY <2>0, Associative
  <2> USE DEF h
  <2> QED
    BY <2>1
<1> HIDE DEF h
<1>8. ((p \o (n \o xs)) \o (m \o ys)) \o <<a, b>> = Encoding(p, xs, ys, <<a, b>>)
  BY <1>3, <1>5, <1>7
<1> QED
  BY <1>8 DEF InHalves, n, m

LEMMA RegroupedEnd ==
    \A p, xs, ys \in Seq(Field), a, b \in Field : EndApart(p, xs, ys, a, b)
<1> TAKE p, xs, ys \in Seq(Field), a, b \in Field
<1> DEFINE n == <<Number(Len(xs))>>
           m == <<Number(Len(ys))>>
           f == p \o n \o xs
           h == f \o m \o ys
<1>1. n \in Seq(Field) /\ m \in Seq(Field)
  BY LenProperties, NumberIsField
<1>2. <<a>> \in Seq(Field) /\ <<b>> \in Seq(Field)
  OBVIOUS
<1>3. \A z : Encoding(p, xs, ys, z) = h \o z
  BY DEF Encoding
<1> HIDE DEF n, m
<1>4. p \o n \in Seq(Field) /\ f \in Seq(Field)
  BY <1>1, ConcatProperties
<1> HIDE DEF f
<1>5. f \o m \in Seq(Field) /\ h \in Seq(Field)
  BY <1>1, <1>4, ConcatProperties
<1> HIDE DEF h
<1>6. h \o <<>> = h
  BY <1>5, ConcatEmptySeq
<1>7. (h \o <<a>>) \o <<b>> = h \o <<a, b>>
  <2> DEFINE s == <<a>>
             u == <<b>>
  <2>1. s \o u = <<a, b>>
    BY OneAndOne
  <2> HIDE DEF s, u
  <2>2. (h \o s) \o u = h \o (s \o u)
    BY <1>2, <1>5, Associative DEF s, u
  <2> QED
    BY <2>1, <2>2 DEF s, u
<1> QED
  BY <1>3, <1>6, <1>7 DEF EndApart

\* MutableTransactionSerializer.serializeForSignature
LEMMA BuilderWrites ==
    ASSUME NEW t, Typed(t), NEW type \in BuilderTypes, NEW i \in 1..Len(t.inputs)
    PROVE  ByBuilder(t, i, type) = Legacy(t, i, type)
<1> DEFINE xs == SignedInputFields(t, i, type)
           ys == SignedOutputFields(t, type)
<1>0. /\ type \in Type /\ type.base \in {"ALL", "NONE"}
      /\ type.base = "NONE" => ~type.anyoneCanPay
      /\ type.anyoneCanPay \in BOOLEAN
  BY DEF BuilderTypes, Of, Type
<1>d. /\ DOMAIN t.inputs = 1..Len(t.inputs) /\ DOMAIN t.outputs = 1..Len(t.outputs)
  BY PartsOfTransaction
<1>1. /\ xs \in Seq(Field) /\ ys \in Seq(Field) /\ <<Number(t.version)>> \in Seq(Field)
      /\ Number(t.lockTime) \in Field /\ SigHashField(type) \in Field
      /\ Len(xs) = IF type.anyoneCanPay THEN 1 ELSE Len(t.inputs)
      /\ Len(ys) = IF type.base = "ALL" THEN Len(t.outputs) ELSE 0
  BY <1>0, SignedFieldsAreTyped
<1>2. \A k \in 1..Len(t.inputs) :
          ForSignature(t.inputs[k], type, k = i) = SignedInputField(t, i, type, k)
  BY DEF ForSignature, SignedInputField, SignedSequence, EMPTY_TX_SEQUENCE
<1>3. LegacyInputs(t, i, type) = <<Number(Len(xs))>> \o xs
  <2>1. CASE type.anyoneCanPay
    <3>1. ForSignature(t.inputs[i], type, TRUE) = SignedInputField(t, i, type, i)
      BY DEF ForSignature, SignedInputField, SignedSequence
    <3>2. LegacyInputs(t, i, type) = <<Number(1), SignedInputField(t, i, type, i)>>
      BY <1>0, <2>1, <3>1 DEF LegacyInputs
    <3>3. Len(xs) = 1
      BY <1>1, <2>1
    <3>4. xs = <<SignedInputField(t, i, type, i)>>
      BY <2>1 DEF SignedInputFields
    <3> QED
      BY <3>2, <3>3, <3>4, OneAndOne
  <2>2. CASE ~type.anyoneCanPay
    <3>1. xs = [k \in DOMAIN t.inputs |-> ForSignature(t.inputs[k], type, k = i)]
      BY <1>d, <1>2, <2>2 DEF SignedInputFields
    <3>2. Len(xs) = Len(t.inputs)
      BY <1>1, <2>2
    <3>3. LegacyInputs(t, i, type) = <<Number(Len(t.inputs))>> \o
              [k \in DOMAIN t.inputs |-> ForSignature(t.inputs[k], type, k = i)]
      BY <2>2 DEF LegacyInputs
    <3> QED
      BY <3>1, <3>2, <3>3
  <2> QED
    BY <2>1, <2>2
<1>4. LegacyOutputs(t, i, type) = <<Number(Len(ys))>> \o ys
  <2>1. CASE type.base = "ALL"
    <3>1. LegacyOutputs(t, i, type) = <<Number(Len(t.outputs))>> \o OutputFields(t)
      BY <1>d, <2>1 DEF LegacyOutputs, Fields, OutputFields
    <3>2. ys = OutputFields(t) /\ Len(ys) = Len(t.outputs)
      BY <1>1, <2>1 DEF SignedOutputFields
    <3> QED
      BY <3>1, <3>2
  <2>2. CASE type.base = "NONE"
    <3>1. LegacyOutputs(t, i, type) = <<Number(0)>>
      BY <2>2 DEF LegacyOutputs
    <3>2. ys = <<>> /\ Len(ys) = 0
      BY <2>2 DEF SignedOutputFields
    <3>3. <<Number(0)>> \in Seq(Field)
      BY NumberIsField
    <3>4. <<Number(0)>> \o <<>> = <<Number(0)>>
      BY <3>3, ConcatEmptySeq
    <3> QED
      BY <3>1, <3>2, <3>4
  <2> QED
    BY <1>0, <2>1, <2>2
<1> HIDE DEF xs, ys
<1>5. ByBuilder(t, i, type)
          = <<Number(t.version)>> \o LegacyInputs(t, i, type) \o LegacyOutputs(t, i, type)
            \o <<Number(t.lockTime), SigHashField(type)>>
  BY <1>0 DEF ByBuilder, serializeForSignature
<1>6. <<Number(t.version)>> \o (<<Number(Len(xs))>> \o xs) \o (<<Number(Len(ys))>> \o ys)
          \o <<Number(t.lockTime), SigHashField(type)>>
          = Encoding(<<Number(t.version)>>, xs, ys, <<Number(t.lockTime), SigHashField(type)>>)
  <2>1. InHalves(<<Number(t.version)>>, xs, ys, Number(t.lockTime), SigHashField(type))
    BY <1>1, Regrouped
  <2> QED
    BY <2>1 DEF InHalves
<1> QED
  BY <1>3, <1>4, <1>5, <1>6 DEF Legacy, Ending, xs, ys

LEMMA OneElement ==
    ASSUME NEW x
    PROVE  /\ [k \in DOMAIN <<x>> |-> InputField(<<x>>[k])] = <<InputField(x)>>
           /\ \A k \in DOMAIN <<x>> : <<x>>[k] = x
           /\ Len(<<x>>) = 1
<1>1. DOMAIN <<x>> = 1..1 /\ \A k \in 1..1 : <<x>>[k] = x
  OBVIOUS
<1>2. [k \in 1..1 |-> InputField(x)] = <<InputField(x)>>
  OBVIOUS
<1>3. [k \in DOMAIN <<x>> |-> InputField(<<x>>[k])] = [k \in 1..1 |-> InputField(x)]
  BY <1>1
<1> QED
  BY <1>1, <1>2, <1>3

\* TransactionSerializer.hashForSignature, of a transaction without witnesses
LEMMA TransactionWrites ==
    ASSUME NEW t, Typed(t), ~hasSegwit(t), NEW type \in Of({"ALL", "NONE"}),
           NEW i \in 1..Len(t.inputs)
    PROVE  OfLegacy(t, i, type) = Legacy(t, i, type)
<1> DEFINE xs == SignedInputFields(t, i, type)
           ys == SignedOutputFields(t, type)
           c == copy(t)
           inputs == [k \in DOMAIN c.inputs |->
               IF k = i THEN [c.inputs[k] EXCEPT !.script = ScriptOf(c.inputs[k])]
               ELSE [c.inputs[k] EXCEPT !.script = Null,
                                        !.sequence = OtherSequence(c.inputs[k], type)]]
           ins == IF type.anyoneCanPay THEN <<inputs[i]>> ELSE inputs
           outs == IF type.base = "ALL" THEN t.outputs ELSE <<>>
           r == [version |-> t.version, inputs |-> ins, outputs |-> outs,
                 lockTime |-> t.lockTime]
<1>0. /\ type \in Type /\ type.base \in {"ALL", "NONE"} /\ type.anyoneCanPay \in BOOLEAN
  BY DEF Of, Type
<1>d. /\ DOMAIN t.inputs = 1..Len(t.inputs) /\ DOMAIN t.outputs = 1..Len(t.outputs)
      /\ Len(t.inputs) \in Nat
      /\ \A k \in 1..Len(t.inputs) : t.inputs[k].witness = <<>>
  BY PartsOfTransaction DEF hasSegwit
<1>1. /\ xs \in Seq(Field) /\ ys \in Seq(Field) /\ <<Number(t.version)>> \in Seq(Field)
      /\ Number(t.lockTime) \in Field /\ SigHashField(type) \in Field
      /\ Len(xs) = IF type.anyoneCanPay THEN 1 ELSE Len(t.inputs)
      /\ Len(ys) = IF type.base = "ALL" THEN Len(t.outputs) ELSE 0
  BY <1>0, SignedFieldsAreTyped
<1>2. /\ c.inputs = [k \in 1..Len(t.inputs) |-> KeptInput(t.inputs[k])]
      /\ c.outputs = t.outputs
      /\ c = [version |-> t.version, inputs |-> c.inputs,
              outputs |-> c.outputs, lockTime |-> t.lockTime]
  BY CopyKeeps DEF Kept
<1>3. DOMAIN inputs = 1..Len(t.inputs)
  BY <1>2
<1>4. ASSUME NEW k \in 1..Len(t.inputs)
      PROVE  /\ InputField(inputs[k]) = SignedInputField(t, i, type, k)
             /\ inputs[k].witness = <<>>
  <2> DEFINE d == c.inputs[k]
             x == inputs[k]
  <2>1. d = KeptInput(t.inputs[k]) /\ k \in DOMAIN c.inputs
    BY <1>2
  <2>2. x = IF k = i THEN [d EXCEPT !.script = ScriptOf(d)]
            ELSE [d EXCEPT !.script = Null, !.sequence = OtherSequence(d, type)]
    BY <2>1
  <2> HIDE DEF d, x
  <2>3. ScriptOf(d) = ScriptOf(t.inputs[k])
    BY <2>1 DEF ScriptOf, KeptInput
  <2>4. k # i => OtherSequence(d, type) = SignedSequence(t, i, type, k)
    BY <2>1 DEF OtherSequence, SignedSequence, KeptInput, EMPTY_TX_SEQUENCE
  <2>5. k = i => SignedSequence(t, i, type, k) = t.inputs[k].sequence
    BY DEF SignedSequence
  <2>6. x = [outPoint |-> t.inputs[k].outPoint,
             script |-> IF k = i THEN ScriptOf(t.inputs[k]) ELSE Null,
             sequence |-> SignedSequence(t, i, type, k),
             witness |-> t.inputs[k].witness]
    <3>0. /\ d.outPoint = t.inputs[k].outPoint /\ d.witness = t.inputs[k].witness
          /\ d.sequence = t.inputs[k].sequence
          /\ DOMAIN d = {"outPoint", "script", "sequence", "witness"}
      BY <2>1 DEF KeptInput
    <3>1. CASE k = i
      <4>1. x = [d EXCEPT !.script = ScriptOf(d)]
        BY <2>2, <3>1
      <4>2. DOMAIN x = DOMAIN d /\ x.script = ScriptOf(d) /\ x.sequence = d.sequence
        BY <3>0, <4>1
      <4>3. x.outPoint = d.outPoint /\ x.witness = d.witness
        BY <3>0, <4>1
      <4>4. x = [n \in DOMAIN d |-> x[n]]
        BY <4>1, <4>2
      <4> QED
        BY <2>3, <2>5, <3>0, <3>1, <4>2, <4>3, <4>4
    <3>2. CASE k # i
      <4>1. x = [d EXCEPT !.script = Null, !.sequence = OtherSequence(d, type)]
        BY <2>2, <3>2
      <4>2. DOMAIN x = DOMAIN d /\ x.script = Null /\ x.sequence = OtherSequence(d, type)
        BY <3>0, <4>1
      <4>3. x.outPoint = d.outPoint /\ x.witness = d.witness
        BY <3>0, <4>1
      <4>4. x = [n \in DOMAIN d |-> x[n]]
        BY <4>1, <4>2
      <4> QED
        BY <2>4, <3>0, <3>2, <4>2, <4>3, <4>4
    <3> QED
      BY <3>1, <3>2
  <2>7. InputField(x) = SignedInputField(t, i, type, k) /\ x.witness = t.inputs[k].witness
    BY <2>6 DEF InputField, SignedInputField
  <2> QED
    BY <1>d, <2>7 DEF x
<1>5. /\ [k \in DOMAIN ins |-> InputField(ins[k])] = xs
      /\ Len(ins) = Len(xs)
      /\ \A k \in DOMAIN ins : ins[k].witness = <<>>
  <2>1. CASE type.anyoneCanPay
    <3> DEFINE x == inputs[i]
    <3>1. InputField(x) = SignedInputField(t, i, type, i) /\ x.witness = <<>>
      BY <1>4
    <3> HIDE DEF x
    <3>2. xs = <<SignedInputField(t, i, type, i)>>
      BY <2>1 DEF SignedInputFields
    <3>3. ins = <<x>>
      BY <2>1 DEF x
    <3> HIDE DEF ins, xs
    <3>4. [k \in DOMAIN ins |-> InputField(ins[k])] = <<InputField(x)>>
      BY <3>3, OneElement
    <3>5. Len(ins) = 1 /\ \A k \in DOMAIN ins : ins[k] = x
      BY <3>3, OneElement
    <3>6. [k \in DOMAIN ins |-> InputField(ins[k])] = xs
      BY <3>1, <3>2, <3>4
    <3> QED
      BY <3>1, <3>5, <3>6, <1>1, <2>1
  <2>2. CASE ~type.anyoneCanPay
    <3>1. ins = inputs
      BY <2>2
    <3>2. xs = [k \in 1..Len(t.inputs) |-> SignedInputField(t, i, type, k)]
      BY <2>2 DEF SignedInputFields
    <3>3. Len(inputs) = Len(t.inputs)
      BY <1>d, <1>3
    <3> HIDE DEF ins, inputs
    <3> QED
      BY <3>1, <3>2, <3>3, <1>1, <1>3, <1>4, <2>2
  <2> QED
    BY <2>1, <2>2
<1>6. [k \in DOMAIN outs |-> OutputField(outs[k])] = ys /\ Len(outs) = Len(ys)
  <2>1. CASE type.base = "ALL"
    BY <1>d, <1>1, <2>1 DEF SignedOutputFields, OutputFields
  <2>2. CASE type.base # "ALL"
    BY <2>2 DEF SignedOutputFields
  <2> QED
    BY <2>1, <2>2
<1>7. OfLegacy(t, i, type) = serialize(r) \o <<SigHashField(type)>>
  <2> DEFINE all == CASE type.base = "ALL"    -> c.outputs
                      [] type.base = "NONE"   -> <<>>
                      [] type.base = "SINGLE" -> SingleOutputs(c.outputs, i)
  <2>1. OfLegacy(t, i, type)
            = IF type.base = "SINGLE" /\ i > Len(c.outputs) THEN One
              ELSE serialize([c EXCEPT !.inputs = ins, !.outputs = all]) \o <<SigHashField(type)>>
    BY DEF OfLegacy, hashForSignature
  <2> HIDE DEF c, ins, inputs
  <2>2. all = outs
    <3>1. CASE type.base = "ALL"
      BY <1>2, <3>1
    <3>2. CASE type.base = "NONE"
      BY <3>2
    <3> QED
      BY <1>0, <3>1, <3>2
  <2> HIDE DEF all, outs
  <2>3. [c EXCEPT !.inputs = ins, !.outputs = outs] = r
    <3> DEFINE xi == c.inputs
               xo == c.outputs
    <3>1. c = [version |-> t.version, inputs |-> xi, outputs |-> xo, lockTime |-> t.lockTime]
      BY <1>2
    <3> HIDE DEF xi, xo
    <3> DEFINE q == [c EXCEPT !.inputs = ins, !.outputs = outs]
    <3>2. DOMAIN c = {"version", "inputs", "outputs", "lockTime"}
      BY <3>1
    <3>3. DOMAIN q = DOMAIN c /\ q.inputs = ins /\ q.outputs = outs
      BY <3>2
    <3>4. q.version = t.version /\ q.lockTime = t.lockTime
      BY <3>1
    <3>5. q = [n \in DOMAIN c |-> q[n]]
      OBVIOUS
    <3> HIDE DEF q
    <3>6. q = r
      BY <3>2, <3>3, <3>4, <3>5
    <3> QED
      BY <3>6 DEF q
  <2>4. type.base # "SINGLE"
    BY <1>0
  <2> HIDE DEF r
  <2> QED
    BY <2>1, <2>2, <2>3, <2>4
<1> HIDE DEF xs, ys, ins, outs, inputs, c
<1>8. serialize(r) = Encoding(<<Number(t.version)>>, xs, ys, <<>>) \o <<Number(t.lockTime)>>
  <2>1. ~hasSegwit(r)
    BY <1>5 DEF hasSegwit
  <2>2. r.version = t.version /\ r.inputs = ins /\ r.outputs = outs /\ r.lockTime = t.lockTime
    OBVIOUS
  <2> HIDE DEF r
  <2>3. /\ Fields(r.inputs, InputField) = xs
        /\ Fields(r.outputs, OutputField) = ys
        /\ Len(r.inputs) = Len(xs) /\ Len(r.outputs) = Len(ys)
    BY <1>5, <1>6, <2>2 DEF Fields
  <2>4. <<Number(r.version)>> \o <<>> = <<Number(t.version)>>
    BY <1>1, <2>2, ConcatEmptySeq
  <2> QED
    BY <2>1, <2>2, <2>3, <2>4 DEF serialize, Encoding
<1>9. Encoding(<<Number(t.version)>>, xs, ys, <<>>) \o <<Number(t.lockTime)>>
          \o <<SigHashField(type)>>
          = Encoding(<<Number(t.version)>>, xs, ys, <<Number(t.lockTime), SigHashField(type)>>)
  <2>1. EndApart(<<Number(t.version)>>, xs, ys, Number(t.lockTime), SigHashField(type))
    BY <1>1, RegroupedEnd
  <2> QED
    BY <2>1 DEF EndApart
<1> QED
  BY <1>7, <1>8, <1>9 DEF Legacy, Ending, xs, ys

\* Encodings agree exactly when what the type signs does.
LEMMA LegacyCommits ==
    ASSUME NEW s, Typed(s), NEW t, Typed(t), NEW type \in Type, type.base \in {"ALL", "NONE"},
           NEW i \in 1..Len(s.inputs), i \in 1..Len(t.inputs)
    PROVE  Legacy(s, i, type) = Legacy(t, i, type)
               <=> Signs(s, i, type) = Signs(t, i, type)
<1> DEFINE ss == SignedInputFields(s, i, type)
           tt == SignedInputFields(t, i, type)
           so == SignedOutputFields(s, type)
           to == SignedOutputFields(t, type)
<1>0. /\ Len(s.inputs) \in Nat /\ Len(t.inputs) \in Nat /\ type.anyoneCanPay \in BOOLEAN
  BY PartsOfTransaction DEF Type
<1>1. /\ ss \in Seq(Field) /\ so \in Seq(Field) /\ <<Number(s.version)>> \in Seq(Field)
      /\ Ending(s, type) \in Seq(Field)
      /\ Len(ss) = IF type.anyoneCanPay THEN 1 ELSE Len(s.inputs)
  BY SignedFieldsAreTyped
<1>2. /\ tt \in Seq(Field) /\ to \in Seq(Field) /\ <<Number(t.version)>> \in Seq(Field)
      /\ Ending(t, type) \in Seq(Field)
      /\ Len(tt) = IF type.anyoneCanPay THEN 1 ELSE Len(t.inputs)
  BY SignedFieldsAreTyped
<1>3. /\ Len(<<Number(s.version)>>) = Len(<<Number(t.version)>>)
      /\ Len(Ending(s, type)) = Len(Ending(t, type))
  BY DEF Ending
\* The outputs
<1>4. so = to <=> Outputs(s, i, type) = Outputs(t, i, type)
  <2>1. CASE type.base = "ALL"
    BY <2>1, SameOutputs DEF SignedOutputFields, Outputs
  <2>2. CASE type.base = "NONE"
    BY <2>2 DEF SignedOutputFields, Outputs
  <2> QED
    BY <2>1, <2>2
\* The inputs
<1>5. ASSUME NEW k, SignedInputField(s, i, type, k) = SignedInputField(t, i, type, k)
      PROVE  /\ s.inputs[k].outPoint = t.inputs[k].outPoint
             /\ SignedSequence(s, i, type, k) = SignedSequence(t, i, type, k)
  <2>1. SignedInputField(s, i, type, k)[2] = SignedInputField(t, i, type, k)[2]
    BY <1>5
  <2>2. <<s.inputs[k].outPoint, IF k = i THEN ScriptOf(s.inputs[k]) ELSE Null,
          SignedSequence(s, i, type, k)>>
            = <<t.inputs[k].outPoint, IF k = i THEN ScriptOf(t.inputs[k]) ELSE Null,
                SignedSequence(t, i, type, k)>>
    BY <2>1 DEF SignedInputField
  <2> QED
    BY <2>2
<1>6. /\ SignedSequence(s, i, type, i) = s.inputs[i].sequence
      /\ SignedSequence(t, i, type, i) = t.inputs[i].sequence
  BY DEF SignedSequence
<1>7. ASSUME ss = tt
      PROVE  /\ s.inputs[i].outPoint = t.inputs[i].outPoint
             /\ s.inputs[i].sequence = t.inputs[i].sequence
             /\ SameInputs(s, t, i, type)
  <2>1. CASE type.anyoneCanPay
    <3>1. <<SignedInputField(s, i, type, i)>> = <<SignedInputField(t, i, type, i)>>
      BY <1>7, <2>1 DEF SignedInputFields
    <3>2. SignedInputField(s, i, type, i) = SignedInputField(t, i, type, i)
      BY <3>1
    <3> QED
      BY <1>5, <1>6, <2>1, <3>2 DEF SameInputs
  <2>2. CASE ~type.anyoneCanPay
    <3>1. Len(s.inputs) = Len(t.inputs)
      BY <1>1, <1>2, <1>7, <2>2
    <3>2. ASSUME NEW k \in 1..Len(s.inputs)
          PROVE  /\ s.inputs[k].outPoint = t.inputs[k].outPoint
                 /\ SignedSequence(s, i, type, k) = SignedSequence(t, i, type, k)
      <4>1. ss[k] = SignedInputField(s, i, type, k) /\ tt[k] = SignedInputField(t, i, type, k)
        BY <2>2, <3>1 DEF SignedInputFields
      <4>2. SignedInputField(s, i, type, k) = SignedInputField(t, i, type, k)
        BY <1>7, <4>1
      <4> QED
        BY <4>2, <1>5
    <3> QED
      BY <1>6, <3>1, <3>2 DEF SameInputs
  <2> QED
    BY <1>0, <2>1, <2>2
<1>8. ASSUME NEW k, s.inputs[k].outPoint = t.inputs[k].outPoint,
             SignedSequence(s, i, type, k) = SignedSequence(t, i, type, k)
      PROVE  SignedInputField(s, i, type, k) = SignedInputField(t, i, type, k)
  BY <1>8 DEF SignedInputField, ScriptOf
<1>9. ASSUME SameFrame(s, t, i), SameInputs(s, t, i, type)
      PROVE  ss = tt
  <2>1. CASE type.anyoneCanPay
    <3>1. SignedInputField(s, i, type, i) = SignedInputField(t, i, type, i)
      BY <1>6, <1>8, <1>9 DEF SameFrame
    <3> QED
      BY <2>1, <3>1 DEF SignedInputFields
  <2>2. CASE ~type.anyoneCanPay
    <3>1. /\ Len(s.inputs) = Len(t.inputs)
          /\ \A k \in 1..Len(s.inputs) :
                 SignedInputField(s, i, type, k) = SignedInputField(t, i, type, k)
      BY <1>8, <1>9, <2>2 DEF SameInputs
    <3> QED
      BY <2>2, <3>1 DEF SignedInputFields
  <2> QED
    BY <1>0, <2>1, <2>2
<1> HIDE DEF ss, tt, so, to
<1>10. ASSUME Legacy(s, i, type) = Legacy(t, i, type)
       PROVE  Signs(s, i, type) = Signs(t, i, type)
  <2> DEFINE p == <<Number(s.version)>>
             q == <<Number(t.version)>>
             z == Ending(s, type)
             y == Ending(t, type)
  <2>0. Encoding(p, ss, so, z) = Encoding(q, tt, to, y)
    BY <1>10 DEF Legacy, ss, tt, so, to
  <2>1. /\ p \in Seq(Field) /\ q \in Seq(Field) /\ z \in Seq(Field) /\ y \in Seq(Field)
        /\ Len(p) = Len(q) /\ Len(z) = Len(y)
    BY <1>1, <1>2, <1>3
  <2> HIDE DEF p, q, z, y
  <2>2. p = q /\ ss = tt /\ so = to /\ z = y
    <3>1. SameBytes(p, ss, so, z, q, tt, to, y)
      BY <2>0, <2>1, <1>1, <1>2 DEF SameBytes
    <3> QED
      BY <3>1, EncodingsDiffer
  <2>3. s.version = t.version
    <3>1. <<Number(s.version)>>[1] = <<Number(t.version)>>[1]
      BY <2>2 DEF p, q
    <3> QED
      BY <3>1, NumbersDiffer
  <2>4. s.lockTime = t.lockTime
    <3>1. Ending(s, type)[1] = Ending(t, type)[1]
      BY <2>2 DEF z, y
    <3>2. Number(s.lockTime) = Number(t.lockTime)
      BY <3>1 DEF Ending
    <3> QED
      BY <3>2, NumbersDiffer
  <2> QED
    BY <2>2, <2>3, <2>4, <1>4, <1>7, SignedIsSame DEF SameFrame
<1>11. ASSUME Signs(s, i, type) = Signs(t, i, type)
       PROVE  Legacy(s, i, type) = Legacy(t, i, type)
  <2>1. /\ SameFrame(s, t, i) /\ SameInputs(s, t, i, type)
        /\ Outputs(s, i, type) = Outputs(t, i, type)
    BY <1>11, SignedIsSame
  <2>2. ss = tt /\ so = to
    BY <1>4, <1>9, <2>1
  <2>3. Ending(s, type) = Ending(t, type) /\ Number(s.version) = Number(t.version)
    BY <2>1 DEF SameFrame, Ending
  <2> QED
    BY <2>2, <2>3 DEF Legacy, ss, tt, so, to
<1> QED
  BY <1>10, <1>11

LEMMA LegacyInv == TypeOK => LegacySignsItsType
<1> SUFFICES ASSUME TypeOK, ~hasSegwit(signed), ~hasSegwit(tx)
             PROVE  Commits(OfLegacy, Places, Of({"ALL", "NONE"}))
  BY DEF LegacySignsItsType
<1>1. ASSUME NEW i \in Places, NEW type \in Of({"ALL", "NONE"})
      PROVE  OfLegacy(signed, i, type) = OfLegacy(tx, i, type)
                 <=> Signs(signed, i, type) = Signs(tx, i, type)
  <2>1. i \in 1..Len(signed.inputs) /\ i \in 1..Len(tx.inputs)
    BY PlacesInBoth
  <2>2. Typed(signed) /\ Typed(tx)
    BY DEF TypeOK
  <2>3. type \in Type /\ type.base \in {"ALL", "NONE"}
    BY DEF Of, Type
  <2>4. OfLegacy(signed, i, type) = Legacy(signed, i, type)
    BY <2>1, <2>2, TransactionWrites
  <2>5. OfLegacy(tx, i, type) = Legacy(tx, i, type)
    BY <2>1, <2>2, TransactionWrites
  <2> QED
    BY <2>1, <2>2, <2>3, <2>4, <2>5, LegacyCommits
<1> QED
  BY <1>1 DEF Commits

LEMMA BuilderInv == TypeOK => BuilderSignsItsType
<1> SUFFICES ASSUME TypeOK PROVE BuilderSignsItsType
  OBVIOUS
<1>1. ASSUME NEW i \in Places, NEW type \in BuilderTypes
      PROVE  ByBuilder(signed, i, type) = ByBuilder(tx, i, type)
                 <=> Signs(signed, i, type) = Signs(tx, i, type)
  <2>1. i \in 1..Len(signed.inputs) /\ i \in 1..Len(tx.inputs)
    BY PlacesInBoth
  <2>2. Typed(signed) /\ Typed(tx)
    BY DEF TypeOK
  <2>3. type \in Type /\ type.base \in {"ALL", "NONE"}
    BY DEF BuilderTypes, Of, Type
  <2>4. ByBuilder(signed, i, type) = Legacy(signed, i, type)
    BY <2>1, <2>2, BuilderWrites
  <2>5. ByBuilder(tx, i, type) = Legacy(tx, i, type)
    BY <2>1, <2>2, BuilderWrites
  <2> QED
    BY <2>1, <2>2, <2>3, <2>4, <2>5, LegacyCommits
<1> QED
  BY <1>1 DEF BuilderSignsItsType, Commits

LEMMA AgreeInv == TypeOK => SerializersAgree
<1> SUFFICES ASSUME TypeOK, NEW i \in DOMAIN tx.inputs
             PROVE  /\ \A type \in Type :
                           serializeForSignature(tx, i, type, TRUE) = OfWitness(tx, i, type)
                    /\ \A type \in BuilderTypes :
                           ~hasSegwit(tx) => ByBuilder(tx, i, type) = OfLegacy(tx, i, type)
  BY DEF SerializersAgree
<1>0. Typed(tx)
  BY DEF TypeOK
<1>1. i \in 1..Len(tx.inputs)
  BY <1>0, PartsOfTransaction
<1>2. ASSUME NEW type \in Type
      PROVE  serializeForSignature(tx, i, type, TRUE) = OfWitness(tx, i, type)
  <2>1. serializeForSignature(tx, i, type, TRUE) = WitnessFields(tx, i, type, tx.inputs[i].value)
    BY DEF serializeForSignature
  <2>2. hashForWitnessSignature(tx, i, type, tx.inputs[i].value)
            = WitnessFields(tx, i, type, tx.inputs[i].value)
    BY <1>0, <1>1, SameWitnessFields
  <2> QED
    BY <2>1, <2>2 DEF OfWitness
<1>3. ASSUME NEW type \in BuilderTypes, ~hasSegwit(tx)
      PROVE  ByBuilder(tx, i, type) = OfLegacy(tx, i, type)
  <2>1. type \in Of({"ALL", "NONE"})
    BY DEF BuilderTypes, Of
  <2>2. ByBuilder(tx, i, type) = Legacy(tx, i, type)
    BY <1>0, <1>1, BuilderWrites
  <2>3. OfLegacy(tx, i, type) = Legacy(tx, i, type)
    BY <1>0, <1>1, <1>3, <2>1, TransactionWrites
  <2> QED
    BY <2>2, <2>3
<1> QED
  BY <1>2, <1>3

\* A legacy signature of type ALL or NONE, next to inputs without witnesses,
\* survives exactly the edits that leave what its type signs: hashForSignature
\* (TransactionSerializer.kt), which hashes an edited copy.
THEOREM LegacySigned == Spec => []LegacySignsItsType
  BY TypeCorrect, LegacyInv, PTL

\* So does one over what the builder writes, of type ALL, or NONE over all
\* inputs, also next to witnesses: serializeForSignature
\* (MutableTransactionSerializer.kt).
THEOREM BuilderSigned == Spec => []BuilderSignsItsType
  BY TypeCorrect, BuilderInv, PTL

\* The builder and Transaction hash the same bytes for every input: of a
\* witness input for all types, of a legacy input for those types.
THEOREM BothSignAlike == Spec => []SerializersAgree
  BY TypeCorrect, AgreeInv, PTL

=============================================================================
