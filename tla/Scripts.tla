------------------------------ MODULE Scripts ------------------------------
(***************************************************************************)
(* Scripts as lists of chunks and as bytes. A script is put together from  *)
(* chunks, written, and read back one chunk a round: from its own bytes,   *)
(* or from an output of a transaction, behind its length. It may lose its  *)
(* end on the way.                                                         *)
(*                                                                         *)
(* Bytes are 0 to BYTE - 1, and the opcodes keep their order: lengths,     *)
(* three OP_PUSHDATA in a row, opcodes, and from PREFIX those of two bytes. *)
(***************************************************************************)
EXTENDS Integers, SequencesExt

CONSTANTS
    BYTE,           \* 256
    OP_PUSHDATA1,   \* 0x4c
    PREFIX,         \* 0xf0
    Numbers,        \* bound: arguments of ofInt
    Opcodes,        \* bound: opcodes above OP_PUSHDATA4
    Datas,          \* bound: data of a chunk
    LONGEST,        \* bound: chunks of a script
    CUT             \* bound: bytes that may be lost

VARIABLES
    chunks,     \* the script as it is put together
    way,        \* "" while it is, then how it travels: "script" or "output"
    lost,       \* bytes lost
    rest,       \* what has not been read yet
    read,       \* the chunks read
    phase       \* "new", "written", "sized", "read", "thrown"

vars == <<chunks, way, lost, rest, read, phase>>

OP_0 == 0
OP_PUSHDATA2 == OP_PUSHDATA1 + 1
OP_PUSHDATA4 == OP_PUSHDATA1 + 2
OP_RESERVED == OP_PUSHDATA4 + 2
NoData == <<BYTE>>

-----------------------------------------------------------------------------
(* ScriptChunk                                                             *)

ScriptChunk(opcode, data) == [opcode |-> opcode, data |-> data]
ofOpcode(opcode) == ScriptChunk(opcode, NoData)
intToOpCode(value) == IF value \in 1..16 THEN OP_RESERVED + value ELSE OP_0
ofInt(value) == ofOpcode(intToOpCode(value))
\* Data of one byte become an opcode.
ofData(data) ==
    IF Len(data) = 1 THEN ofOpcode(data[1])
    ELSE ScriptChunk(
            CASE Len(data) \in OP_PUSHDATA1..(BYTE - 1) -> OP_PUSHDATA1
              [] Len(data) \in BYTE..(BYTE ^ 2 - 1) -> OP_PUSHDATA2
              [] Len(data) >= BYTE ^ 2 -> OP_PUSHDATA4
              [] OTHER -> OP_0,
            data)
isOpCode(c) == c.opcode > OP_PUSHDATA4

-----------------------------------------------------------------------------
(* BitcoinOutputStream and BitcoinInputStream. An Int of four bytes        *)
(* carries its sign in the highest bit.                                    *)

LittleEndian(value, n) == [i \in 1..n |-> (value \div BYTE ^ (i - 1)) % BYTE]
Unsigned(bytes) == FoldRight(LAMBDA b, v : b + BYTE * v, bytes, 0)
WithSign(v, width) == IF v >= width \div 2 THEN v - width ELSE v
\* readByte, readInt16 and readInt32; only the last is not masked
Value(bytes) ==
    IF Len(bytes) < 4 THEN Unsigned(bytes) ELSE WithSign(Unsigned(bytes), BYTE ^ Len(bytes))
writeInt8(value) == LittleEndian(value, 1)
writeInt16(value) == LittleEndian(value, 2)
writeInt32(value) == LittleEndian(value, 4)

writeVarInt(value) ==
    CASE value < BYTE - 3 -> writeInt8(value)
      [] value >= BYTE - 3 /\ value < BYTE ^ 2 - 1 -> <<BYTE - 3>> \o writeInt16(value)
      [] value >= BYTE ^ 2 - 1 -> <<BYTE - 2>> \o writeInt32(value)

\* A mutant: a length that equals the first opcode is written as it is.
LengthAsOpcode(bytes) ==
    (CASE Len(bytes) <= OP_PUSHDATA1 -> writeInt8(Len(bytes))
       [] Len(bytes) \in (OP_PUSHDATA1 + 1)..(BYTE - 2) -> <<OP_PUSHDATA1>> \o writeInt8(Len(bytes))
       [] Len(bytes) \in (BYTE - 1)..(BYTE ^ 2 - 2) -> <<OP_PUSHDATA2>> \o writeInt16(Len(bytes))
       [] OTHER -> <<OP_PUSHDATA4>> \o writeInt32(Len(bytes)))
    \o bytes
writeScriptBytes(bytes) ==
    (CASE Len(bytes) < OP_PUSHDATA1 -> writeInt8(Len(bytes))
       [] Len(bytes) \in OP_PUSHDATA1..(BYTE - 2) -> <<OP_PUSHDATA1>> \o writeInt8(Len(bytes))
       [] Len(bytes) \in (BYTE - 1)..(BYTE ^ 2 - 2) -> <<OP_PUSHDATA2>> \o writeInt16(Len(bytes))
       [] OTHER -> <<OP_PUSHDATA4>> \o writeInt32(Len(bytes)))
    \o bytes

ChunkBytes(c) ==
    IF isOpCode(c) \/ c.data = NoData THEN <<c.opcode>> ELSE writeScriptBytes(c.data)
toScriptBytes(cs) == FlattenSeq([i \in DOMAIN cs |-> ChunkBytes(cs[i])])

\* What a read takes from the bytes and what is left; EndOfStream throws.
EndOfStream == [taken |-> NoData, left |-> NoData]
Ended(r) == r.left = NoData
readBytes(bytes, count) ==
    IF count \in 0..Len(bytes)
    THEN [taken |-> SubSeq(bytes, 1, count), left |-> SubSeq(bytes, count + 1, Len(bytes))]
    ELSE EndOfStream
\* The same behind a number of n bytes that says how many.
readSized(bytes, n) ==
    IF n > Len(bytes) THEN EndOfStream
    ELSE readBytes(SubSeq(bytes, n + 1, Len(bytes)), Value(SubSeq(bytes, 1, n)))
readVarBytes(bytes) ==
    CASE bytes = <<>> -> EndOfStream
      [] bytes # <<>> /\ Head(bytes) < BYTE - 3 -> readSized(bytes, 1)
      [] bytes # <<>> /\ Head(bytes) = BYTE - 3 -> readSized(Tail(bytes), 2)
      [] bytes # <<>> /\ Head(bytes) = BYTE - 2 -> readSized(Tail(bytes), 4)
      [] bytes # <<>> /\ Head(bytes) = BYTE - 1 -> readSized(Tail(bytes), 8)

-----------------------------------------------------------------------------
Built ==
    {ofInt(n) : n \in Numbers} \cup {ofOpcode(op) : op \in Opcodes}
    \cup {ofData(d) : d \in Datas}

Init ==
    /\ chunks = <<>>
    /\ way = ""
    /\ lost = 0
    /\ rest = <<>>
    /\ read = <<>>
    /\ phase = "new"

Add ==
    /\ phase = "new"
    /\ Len(chunks) < LONGEST
    /\ \E c \in Built : chunks' = Append(chunks, c)
    /\ UNCHANGED <<way, lost, rest, read, phase>>

\* Script(chunks), and OutputSerializer.serialize behind the amount.
Write ==
    /\ phase = "new"
    /\ way' \in {"script", "output"}
    /\ \E bytes \in {toScriptBytes(chunks)} :
          rest' = IF way' = "script" THEN bytes ELSE writeVarInt(Len(bytes)) \o bytes
    /\ phase' = "written"
    /\ UNCHANGED <<chunks, lost, read>>

Lose ==
    /\ phase = "written"
    /\ lost = 0
    /\ \E n \in 1..CUT :
          /\ n <= Len(rest)
          /\ lost' = n
          /\ rest' = SubSeq(rest, 1, Len(rest) - n)
    /\ UNCHANGED <<chunks, way, read, phase>>

\* OutputSerializer.deserialize finds the bytes of its script.
ReadSize ==
    /\ phase = "written"
    /\ IF way = "script" THEN phase' = "sized" /\ UNCHANGED rest
       ELSE LET script == readVarBytes(rest)
            IN IF Ended(script) THEN phase' = "thrown" /\ UNCHANGED rest
               ELSE phase' = "sized" /\ rest' = script.taken
    /\ UNCHANGED <<chunks, way, lost, read>>

\* One round of parseChunks: the data of a push, or the opcode alone, of which
\* one of two bytes keeps only the second.
ReadBehind(op, bytes) ==
    CASE op < OP_PUSHDATA1 -> readBytes(bytes, op)
      [] op = OP_PUSHDATA1 -> readSized(bytes, 1)
      [] op = OP_PUSHDATA2 -> readSized(bytes, 2)
      [] op = OP_PUSHDATA4 -> readSized(bytes, 4)
      [] op \in (OP_PUSHDATA4 + 1)..(PREFIX - 1) -> [taken |-> <<op>>, left |-> bytes]
      [] op >= PREFIX -> readBytes(bytes, 1)
Behind == ReadBehind(Head(rest), Tail(rest))

ReadChunk ==
    /\ phase = "sized"
    /\ rest # <<>>
    /\ ~Ended(Behind)
    /\ \E next \in {Behind} :
          /\ read' = Append(read,
                IF Head(rest) > OP_PUSHDATA4 THEN ofOpcode(next.taken[1]) ELSE ofData(next.taken))
          /\ rest' = next.left
    /\ UNCHANGED <<chunks, way, lost, phase>>

\* The constructor of Script catches every exception, and has no chunks then.
CatchAll ==
    /\ phase = "sized"
    /\ rest # <<>>
    /\ Ended(Behind)
    /\ read' = <<>>
    /\ phase' = "read"
    /\ UNCHANGED <<chunks, way, lost, rest>>

Parsed ==
    /\ phase = "sized"
    /\ rest = <<>>
    /\ phase' = "read"
    /\ UNCHANGED <<chunks, way, lost, rest, read>>

Next == Add \/ Write \/ Lose \/ ReadSize \/ ReadChunk \/ CatchAll \/ Parsed

-----------------------------------------------------------------------------
\* Chunks that keep their meaning as bytes: not a byte of data below the
\* opcodes, which reads as a length, and no opcode of two bytes.
HasOwnForm(c) == c.data # NoData \/ c.opcode = OP_0 \/ c.opcode \in (OP_PUSHDATA4 + 1)..(PREFIX - 1)
\* OP_0 and empty data are one byte.
Pushes(cs) ==
    [i \in DOMAIN cs |-> IF cs[i].data = NoData THEN [cs[i] EXCEPT !.data = <<>>] ELSE cs[i]]

\* A script is read as it was put together, whatever the lengths of its data
\* and however it travels. Of one that lost its end, chunks it began with are
\* read or none at all; an output that lost its end is not read.
ScriptsRead ==
    phase \in {"read", "thrown"} /\ (\A i \in DOMAIN chunks : HasOwnForm(chunks[i])) =>
        /\ phase = "thrown" <=> way = "output" /\ lost > 0
        /\ phase = "read" => IsPrefix(Pushes(read), Pushes(chunks))
        /\ phase = "read" /\ lost = 0 => Len(read) = Len(chunks)
=============================================================================
