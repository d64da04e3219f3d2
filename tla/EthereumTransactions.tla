------------------------ MODULE EthereumTransactions ------------------------
(***************************************************************************)
(* An Ethereum transaction is hashed, signed, serialized, sent and read    *)
(* back, by object TransactionSerializer over the recursive length prefix  *)
(* of package rlp. Beside it stands what the network makes of the bytes:   *)
(* by EIP-155 and EIP-1559 it rebuilds what was hashed from what was sent, *)
(* and takes it for what the sender signed.                                *)
(*                                                                         *)
(* Bytes are 0 to 255. Numbers are integers of at most 23 bits where the   *)
(* code has Longs and BigIntegers.                                         *)
(***************************************************************************)
EXTENDS Integers, SequencesExt, FiniteSetsExt

CONSTANTS
    Transactions,   \* bound: what is sent, unsigned
    Networks,       \* bound: chain ids; MainNet is 1, Ropsten 3
    Signatures,     \* bound: what PrivateKey.sign returns, v is 27 or 28
    CUT             \* bound: bytes that may be lost

VARIABLES
    tx,         \* the transaction of the sender
    network,
    hashed,     \* what the sender hashed to sign it, <<>> before
    wire,       \* what was sent, <<>> before
    lost,       \* bytes it lost
    got,        \* what deserialize returned
    phase       \* "new", "hashed", "signed", "sent", "read", "thrown"

vars == <<tx, network, hashed, wire, lost, got, phase>>

None == -1                                          \* no number
NoSignature == [r |-> <<>>, s |-> <<>>, v |-> None]

-----------------------------------------------------------------------------
(* RLPModel and RLPEncoder                                                 *)

ELEMENT_OFFSET == 128
LIST_OFFSET == 192

RLPItem(bytes) == [kind |-> "item", bytes |-> bytes]
RLPList(element) == [kind |-> "list", element |-> element]

BigEndian(n, size) == [i \in 1..size |-> (n \div 256 ^ (size - i)) % 256]
\* BigInteger.toByteArray, in the fewest bytes that keep the sign
toByteArray(n) ==
    BigEndian(n, Min({s \in 1..3 : -(128 * 256 ^ (s - 1)) <= n /\ n < 128 * 256 ^ (s - 1)}))
removeLeadingZero(bytes) == IF Head(bytes) = 0 THEN Tail(bytes) ELSE bytes
NumberRLP(n) == RLPItem(removeLeadingZero(toByteArray(n)))
toMinimalByteArray(n) ==
    IF n = 0 THEN <<>> ELSE BigEndian(n, Min({s \in 1..3 : n < 256 ^ s}))

encodeRLP(bytes, offset) ==
    IF Len(bytes) = 1 /\ bytes[1] < ELEMENT_OFFSET /\ offset = ELEMENT_OFFSET THEN bytes
    ELSE IF Len(bytes) <= 55 THEN <<Len(bytes) + offset>> \o bytes
    ELSE LET size == toMinimalByteArray(Len(bytes))
         IN <<offset + 55 + Len(size)>> \o size \o bytes

RECURSIVE encode(_)
encode(e) ==
    IF e.kind = "item" THEN encodeRLP(e.bytes, ELEMENT_OFFSET)
    ELSE encodeRLP(FlattenSeq([i \in DOMAIN e.element |-> encode(e.element[i])]), LIST_OFFSET)

-----------------------------------------------------------------------------
(* RLPDecoder, with places counted from one. Illegal is an exception.      *)

Illegal == [element |-> RLPItem(<<>>), size |-> 0]
Unsigned(bytes) == FoldLeft(LAMBDA v, b : 256 * v + b, 0, bytes)

getLengthAndOffset(bytes, firstByte, offset) ==
    IF firstByte <= 55 THEN [length |-> firstByte, offset |-> offset + 1]
    ELSE LET size == firstByte - 54
         IN IF offset + size > Len(bytes) + 1 THEN [length |-> Len(bytes), offset |-> offset + size]
            ELSE [length |-> Unsigned(SubSeq(bytes, offset + 1, offset + size - 1)),
                  offset |-> offset + size]

\* The elements from a place to an end, which the last of them may overrun.
RECURSIVE decodeRLPWithSize(_, _), Elements(_, _, _, _)
Elements(bytes, currentOffset, end, list) ==
    IF currentOffset >= end THEN <<list>>
    ELSE LET e == decodeRLPWithSize(bytes, currentOffset)
         IN IF e = Illegal THEN <<>>
            ELSE Elements(bytes, currentOffset + e.size, end, Append(list, e.element))
decodeRLPWithSize(bytes, offset) ==
    IF offset > Len(bytes) THEN Illegal
    ELSE LET value == bytes[offset]
             at == getLengthAndOffset(bytes,
                       value - (IF value < LIST_OFFSET THEN ELEMENT_OFFSET ELSE LIST_OFFSET), offset)
             end == at.offset + at.length
         IN CASE value < ELEMENT_OFFSET -> [element |-> RLPItem(<<value>>), size |-> 1]
              [] value \in ELEMENT_OFFSET..(LIST_OFFSET - 1) ->
                    IF end > Len(bytes) + 1 THEN Illegal
                    ELSE [element |-> RLPItem(SubSeq(bytes, at.offset, end - 1)),
                          size |-> end - offset]
              [] value >= LIST_OFFSET ->
                    LET list == Elements(bytes, at.offset, end, <<>>)
                    IN IF list = <<>> THEN Illegal
                       ELSE [element |-> RLPList(list[1]), size |-> end - offset]



-----------------------------------------------------------------------------
(* TransactionSerializer. A legacy transaction has a gas price, one of      *)
(* EIP-1559 has two fees and a type.                                       *)

isEIP1559(t) == t.gasPrice = None /\ t.maxPriorityFeePerGas # None /\ t.maxFeePerGas # None

\* Long.toByte: the lowest eight bits, the highest of them a sign
toByte(n) == IF n % 256 < 128 THEN n % 256 ELSE (n % 256) - 256

\* A mutant: EIP-155 without the parity.
VWithoutParity(t, id) ==
    CASE t.signature = NoSignature -> toByte(id)
      [] t.signature # NoSignature /\ isEIP1559(t) -> toByte(t.signature.v - 27)
      [] t.signature # NoSignature /\ ~isEIP1559(t) -> toByte(2 * id + 35)
\* The chain ids of the repository are far below the MAX_CHAIN_ID above which
\* a legacy v is left as it is.
V(t, id) ==
    CASE t.signature = NoSignature -> toByte(id)
      [] t.signature # NoSignature /\ isEIP1559(t) -> toByte(t.signature.v - 27)
      [] t.signature # NoSignature /\ ~isEIP1559(t) -> toByte(t.signature.v + 2 * id + 8)

Body(t) == <<NumberRLP(t.gasLimit), RLPItem(t.to), NumberRLP(t.value), RLPItem(t.data)>>
Signed(t, id) ==
    <<NumberRLP(V(t, id)),
      RLPItem(IF t.signature = NoSignature THEN <<>> ELSE t.signature.r),
      RLPItem(IF t.signature = NoSignature THEN <<>> ELSE t.signature.s)>>

serialize(t, id) ==
    IF isEIP1559(t)
    THEN encode(RLPItem(<<t.transactionType % 256>>))
         \o encode(RLPList(
                <<NumberRLP(id), NumberRLP(t.nonce),
                  NumberRLP(t.maxPriorityFeePerGas), NumberRLP(t.maxFeePerGas)>>
                \o Body(t) \o <<RLPList(<<>>)>>
                \o (IF t.signature = NoSignature THEN <<>> ELSE Signed(t, id))))
    ELSE encode(RLPList(
            <<NumberRLP(t.nonce), NumberRLP(t.gasPrice)>> \o Body(t) \o Signed(t, id)))

\* The element at a place counted from zero; reading one that is missing
\* throws, as does a list for a number: the transactions here have them.
At(list, i) == list.element[i + 1].bytes
Number(list, i) == Unsigned(At(list, i))
Returned(t) == [kind |-> "transaction", tx |-> t]
Thrown == [kind |-> "thrown"]

OfEIP1559(type, list) ==
    [transactionType |-> Unsigned(type.bytes), nonce |-> Number(list, 1), gasPrice |-> None,
     maxPriorityFeePerGas |-> Number(list, 2), maxFeePerGas |-> Number(list, 3),
     gasLimit |-> Number(list, 4), to |-> At(list, 5), value |-> Number(list, 6),
     data |-> At(list, 7),
     signature |-> IF Len(list.element) < 12 THEN NoSignature
                   ELSE [r |-> At(list, 10), s |-> At(list, 11), v |-> Number(list, 9) + 27]]
\* The last three are there in an unsigned one, too: it reads as signed.
OfLegacy(list) ==
    [transactionType |-> None, nonce |-> Number(list, 0), gasPrice |-> Number(list, 1),
     maxPriorityFeePerGas |-> None, maxFeePerGas |-> None,
     gasLimit |-> Number(list, 2), to |-> At(list, 3), value |-> Number(list, 4),
     data |-> At(list, 5),
     signature |-> [r |-> At(list, 7), s |-> At(list, 8), v |-> Number(list, 6)]]

deserialize(bytes) ==
    LET first == decodeRLPWithSize(bytes, 1)
        second == decodeRLPWithSize(bytes, 2)
    IN IF first = Illegal THEN Thrown
       ELSE IF first.element.kind = "list" THEN Returned(OfLegacy(first.element))
       ELSE IF second = Illegal THEN Thrown
       ELSE Returned(OfEIP1559(first.element, second.element))

-----------------------------------------------------------------------------
Init ==
    /\ tx \in Transactions
    /\ network \in Networks
    /\ hashed = <<>>
    /\ wire = <<>>
    /\ lost = 0
    /\ got = Thrown
    /\ phase = "new"

\* hashForSignature
HashForSignature ==
    /\ phase = "new"
    /\ hashed' = serialize(tx, network)
    /\ phase' = "hashed"
    /\ UNCHANGED <<tx, network, wire, lost, got>>

\* PrivateKey.sign, and the assignment of the signature.
Sign ==
    /\ phase = "hashed"
    /\ \E s \in Signatures : tx' = [tx EXCEPT !.signature = s]
    /\ phase' = "signed"
    /\ UNCHANGED <<network, hashed, wire, lost, got>>

Send ==
    /\ phase \in {"new", "signed"}
    /\ wire' = serialize(tx, network)
    /\ phase' = "sent"
    /\ UNCHANGED <<tx, network, hashed, lost, got>>

Lose ==
    /\ phase = "sent"
    /\ lost = 0
    /\ \E n \in 1..CUT : lost' = n /\ wire' = SubSeq(wire, 1, Len(wire) - n)
    /\ UNCHANGED <<tx, network, hashed, got, phase>>

Deserialize ==
    /\ phase = "sent"
    /\ got' = deserialize(wire)
    /\ phase' = "read"
    /\ UNCHANGED <<tx, network, hashed, wire, lost>>

Next == HashForSignature \/ Sign \/ Send \/ Lose \/ Deserialize

-----------------------------------------------------------------------------
(* What the network makes of the bytes of a signed transaction: the list   *)
(* that was hashed, for its chain. It has no part in the code.             *)

Rehashed(id) ==
    LET list == decodeRLPWithSize(wire, IF isEIP1559(tx) THEN 2 ELSE 1).element.element
    IN IF isEIP1559(tx)
       THEN <<2>> \o encode(RLPList(SubSeq(list, 1, 9)))
       ELSE encode(RLPList(SubSeq(list, 1, 6) \o <<NumberRLP(id), RLPItem(<<>>), RLPItem(<<>>)>>))
\* The chain and the parity in the v of EIP-155.
ChainOf(v) == (v - 35) \div 2
ParityOf(v) == (v - 35) % 2

\* What deserialize makes of a signature: the v of EIP-155 stays as it is
\* sent, and an unsigned legacy transaction has one of no bytes.
ReadSignature ==
    IF isEIP1559(tx) THEN tx.signature
    ELSE IF tx.signature = NoSignature THEN [r |-> <<>>, s |-> <<>>, v |-> network]
    ELSE [tx.signature EXCEPT !.v = @ + 2 * network + 8]

\* A transaction is read with the fields it was sent with; cut short, it is
\* never read as another. What the network rebuilds and checks the signature
\* against is what the sender hashed, with the parity he signed with, for the
\* chain he signed for.
TransactionsRead ==
    phase = "read" =>
        /\ IF lost = 0 THEN got = Returned([tx EXCEPT !.signature = ReadSignature])
           ELSE got = Thrown
        /\ hashed # <<>> /\ lost = 0 =>
              /\ Rehashed(network) = hashed
              /\ ~isEIP1559(tx) =>
                    /\ ChainOf(got.tx.signature.v) = network
                    /\ ParityOf(got.tx.signature.v) = tx.signature.v - 27
=============================================================================
