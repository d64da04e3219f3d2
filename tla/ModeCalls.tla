----------------------------- MODULE ModeCalls -----------------------------
(***************************************************************************)
(* A message is encrypted in pieces of any length by one context and       *)
(* decrypted in other pieces by another.                                   *)
(***************************************************************************)
EXTENDS BlockModes

CONSTANT Message    \* bound: what is sent

VARIABLES
    mode,   \* the mode both use
    sent,   \* how much of the message has been encrypted
    enc,    \* the sender's iv, and b_pos of its context
    dec,    \* the receiver's
    wire,   \* what was sent and not yet decrypted
    got,    \* what the receiver has decrypted
    cut     \* how the last contexts ended: "no" reset yet, "alike", "apart"

vars == <<mode, sent, enc, dec, wire, got, cut>>

Left(result) == [iv |-> result.iv, b_pos |-> result.b_pos]

Init ==
    /\ mode \in Mode
    /\ sent = 0
    /\ enc = StartOfMessage /\ dec = StartOfMessage
    /\ wire = <<>> /\ got = <<>>
    /\ cut = "no"

Encrypt ==
    /\ \E n \in 1..(Len(Message) - sent) :
          LET r == Encrypted(mode, SubSeq(Message, sent + 1, sent + n), enc)
          IN /\ r.ok
             /\ enc' = Left(r)
             /\ wire' = wire \o r.out
             /\ sent' = sent + n
    /\ UNCHANGED <<mode, dec, got, cut>>

\* The receiver reads what has arrived as it likes.
Decrypt ==
    /\ \E n \in 1..Len(wire) :
          LET r == Decrypted(mode, SubSeq(wire, 1, n), dec)
          IN /\ r.ok
             /\ dec' = Left(r)
             /\ got' = got \o r.out
             /\ wire' = SubSeq(wire, n + 1, Len(wire))
    /\ UNCHANGED <<mode, sent, enc, cut>>

\* Both go on with a new context and the iv the old one left, as two calls
\* of Aes do whose iv is the array of the call before.
Reset ==
    /\ wire = <<>>
    /\ enc.b_pos # 0 \/ dec.b_pos # 0
    /\ enc' = aes_mode_reset(enc)
    /\ dec' = aes_mode_reset(dec)
    /\ cut' = IF cut = "apart" \/ enc # dec THEN "apart" ELSE "alike"
    /\ UNCHANGED <<mode, sent, wire, got>>

Next == Encrypt \/ Decrypt \/ Reset

Spec == Init /\ [][Next]_vars

-----------------------------------------------------------------------------
(* The modes as they are defined, on a whole message.                      *)

RECURSIVE Chained(_, _), Keystream(_, _)
Chained(m, i) ==
    IF i = 0 THEN InitialIV
    ELSE LET plain == Blocks(Message)[i]
         IN CASE m = "ECB" -> E[plain]
              [] m = "CBC" -> E[xor(plain, Chained(m, i - 1))]
              [] m = "CFB" -> xor(plain, E[Chained(m, i - 1)])
Number(block) == FoldLeft(LAMBDA v, x : v * BYTE + x, 0, block)
Block(v) == [i \in 1..BLOCK |-> (v \div BYTE ^ (BLOCK - i)) % BYTE]
Keystream(m, i) ==
    IF m = "CTR" THEN E[Block((Number(InitialIV) + i - 1) % BYTE ^ BLOCK)]
    ELSE E[IF i = 1 THEN InitialIV ELSE Keystream(m, i - 1)]

Textbook(m, n) ==
    LET blocks == Blocks(SubSeq(Message, 1, n))
    IN FlattenSeq([i \in DOMAIN blocks |->
           IF m \in {"OFB", "CTR"} THEN xor(blocks[i], Keystream(m, i))
           ELSE SubSeq(Chained(m, i), 1, Len(blocks[i]))])

\* However the message is cut into pieces on either side, the receiver reads
\* the message, and what travels is what the mode is defined to give for the
\* message in one piece. When a new context was begun inside a block, the
\* rest is another stream and both sides still agree, but for one case: at
\* the end of a block the iv of CTR depends on how the block was cut, so
\* two contexts that have come equally far can leave two counters.
ModesAgree ==
    /\ cut # "apart" => IsPrefix(got, Message)
    /\ cut = "apart" => mode = "CTR"
    /\ Len(got) + Len(wire) = sent
    /\ cut = "no" /\ got = <<>> => wire = Textbook(mode, sent)
=============================================================================
