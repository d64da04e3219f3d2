----------------------------- MODULE BlockModes -----------------------------
(***************************************************************************)
(* The five modes of aes_modes.c around a block cipher, as operators on a  *)
(* context: the iv, and for the three stream modes how far into a block    *)
(* the last piece reached. The cipher is any permutation of blocks. The    *)
(* variants for VIA processors and for aligned buffers compute the same    *)
(* and are left out.                                                       *)
(***************************************************************************)
EXTENDS Bitwise, SequencesExt, FiniteSetsExt

CONSTANTS
    BLOCK,      \* AES_BLOCK_SIZE, 16
    BYTE,       \* 256, the values of a byte
    E,          \* aes_encrypt under the key: a function on blocks
    D,          \* aes_decrypt under the same key
    InitialIV   \* bound: the initial value both parties know

xor(x, y) == [i \in 1..Len(x) |-> x[i] ^^ y[i]]

\* Whole blocks, and what is left.
Blocks(in) ==
    [i \in 1..((Len(in) + BLOCK - 1) \div BLOCK) |->
        SubSeq(in, (i - 1) * BLOCK + 1, Min({i * BLOCK, Len(in)}))]

\* What a call is refused with, and what it leaves and returns.
Refused == [ok |-> FALSE, iv |-> <<>>, b_pos |-> 0, out |-> <<>>]
Done(iv, b_pos, out) == [ok |-> TRUE, iv |-> iv, b_pos |-> b_pos, out |-> out]

aes_mode_reset(ctx) == [ctx EXCEPT !.b_pos = 0]

-----------------------------------------------------------------------------
(* The modes of whole blocks.                                              *)

aes_ecb_encrypt(in, ctx) ==
    IF Len(in) % BLOCK # 0 THEN Refused
    ELSE LET blocks == Blocks(in)
         IN Done(ctx.iv, ctx.b_pos, FlattenSeq([i \in DOMAIN blocks |-> E[blocks[i]]]))

aes_ecb_decrypt(in, ctx) ==
    IF Len(in) % BLOCK # 0 THEN Refused
    ELSE LET blocks == Blocks(in)
         IN Done(ctx.iv, ctx.b_pos, FlattenSeq([i \in DOMAIN blocks |-> D[blocks[i]]]))

aes_cbc_encrypt(in, ctx) ==
    IF Len(in) % BLOCK # 0 THEN Refused
    ELSE FoldLeft(LAMBDA acc, block :
                     LET iv == E[xor(acc.iv, block)] IN Done(iv, acc.b_pos, acc.out \o iv),
                  Done(ctx.iv, ctx.b_pos, <<>>), Blocks(in))

aes_cbc_decrypt(in, ctx) ==
    IF Len(in) % BLOCK # 0 THEN Refused
    ELSE FoldLeft(LAMBDA acc, block :
                     Done(block, acc.b_pos, acc.out \o xor(D[block], acc.iv)),
                  Done(ctx.iv, ctx.b_pos, <<>>), Blocks(in))

-----------------------------------------------------------------------------
(* CFB and OFB. Each call first completes the block the last one left,     *)
(* then encrypts the iv before every further block, full or not; they      *)
(* differ in what takes the place of the bytes of the iv that were used.   *)

\* Bytes that lie in one block.
Within(acc, in, Kept(_, _, _)) ==
    LET used == SubSeq(acc.iv, acc.b_pos + 1, acc.b_pos + Len(in))
        out == xor(used, in)
        kept == Kept(used, in, out)
        iv == [i \in 1..BLOCK |->
                 IF i \in (acc.b_pos + 1)..(acc.b_pos + Len(in)) THEN kept[i - acc.b_pos]
                 ELSE acc.iv[i]]
    IN Done(iv, (acc.b_pos + Len(in)) % BLOCK, acc.out \o out)

Feedback(in, ctx, Kept(_, _, _)) ==
    LET cnt == IF ctx.b_pos = 0 THEN 0 ELSE Min({BLOCK - ctx.b_pos, Len(in)})
        started == Within(Done(ctx.iv, ctx.b_pos, <<>>), SubSeq(in, 1, cnt), Kept)
    IN FoldLeft(LAMBDA acc, block : Within([acc EXCEPT !.iv = E[@]], block, Kept),
                started, Blocks(SubSeq(in, cnt + 1, Len(in))))

aes_cfb_encrypt(in, ctx) == Feedback(in, ctx, LAMBDA used, i, out : out)
aes_cfb_decrypt(in, ctx) == Feedback(in, ctx, LAMBDA used, i, out : i)
aes_ofb_crypt(in, ctx) == Feedback(in, ctx, LAMBDA used, i, out : used)

-----------------------------------------------------------------------------
(* CTR. The counter of a partial block is kept and encrypted again, and    *)
(* incremented by the next call that goes beyond it.                       *)

RECURSIVE IncFrom(_, _)
IncFrom(cbuf, i) ==
    IF i = 0 THEN cbuf
    ELSE LET next == [cbuf EXCEPT ![i] = (@ + 1) % BYTE]
         IN IF next[i] # 0 THEN next ELSE IncFrom(next, i - 1)
\* A mutant: without the carry.
IncLastByte(cbuf) == [cbuf EXCEPT ![BLOCK] = (@ + 1) % BYTE]
aes_ctr_cbuf_inc(cbuf) == IncFrom(cbuf, BLOCK)

CtrBlock(acc, block) ==
    LET out == acc.out \o xor(block, E[acc.iv])
    IN IF Len(block) = BLOCK THEN Done(aes_ctr_cbuf_inc(acc.iv), acc.b_pos, out)
       ELSE Done(acc.iv, acc.b_pos + Len(block), out)

aes_ctr_crypt(in, ctx) ==
    LET cnt == IF ctx.b_pos = 0 THEN 0 ELSE Min({BLOCK - ctx.b_pos, Len(in)})
        buf == SubSeq(E[ctx.iv], ctx.b_pos + 1, BLOCK)
        out == xor(SubSeq(in, 1, cnt), buf)
        more == ctx.b_pos # 0 /\ cnt < Len(in)
    IN FoldLeft(CtrBlock,
                IF more THEN Done(aes_ctr_cbuf_inc(ctx.iv), 0, out)
                ELSE Done(ctx.iv, ctx.b_pos + cnt, out),
                Blocks(SubSeq(in, cnt + 1, Len(in))))

-----------------------------------------------------------------------------
(* The switches of aes-wrapper.c.                                          *)

Encrypted(m, in, ctx) ==
    CASE m = "ECB" -> aes_ecb_encrypt(in, ctx)
      [] m = "CBC" -> aes_cbc_encrypt(in, ctx)
      [] m = "CFB" -> aes_cfb_encrypt(in, ctx)
      [] m = "OFB" -> aes_ofb_crypt(in, ctx)
      [] m = "CTR" -> aes_ctr_crypt(in, ctx)

Decrypted(m, in, ctx) ==
    CASE m = "ECB" -> aes_ecb_decrypt(in, ctx)
      [] m = "CBC" -> aes_cbc_decrypt(in, ctx)
      [] m = "CFB" -> aes_cfb_decrypt(in, ctx)
      [] m = "OFB" -> aes_ofb_crypt(in, ctx)
      [] m = "CTR" -> aes_ctr_crypt(in, ctx)

Mode == {"ECB", "CBC", "CFB", "OFB", "CTR"}
StartOfMessage == [iv |-> InitialIV, b_pos |-> 0]
=============================================================================
