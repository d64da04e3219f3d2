------------------------------ MODULE Digests ------------------------------
(***************************************************************************)
(* The streaming digests of native-crypto: SHA-1, SHA-2, SHA-3 and Keccak, *)
(* RIPEMD-160, BLAKE2b, BLAKE2s, BLAKE-256 and Groestl-512, as operators   *)
(* on a context. The control is all here: the buffer and what is stale in  *)
(* it, when a block is compressed, the counters and their carries, the     *)
(* padding, what is zeroed, what is refused. The compression functions are *)
(* one operator Mix of the state and of all that goes in with a block.     *)
(*                                                                         *)
(* A cell stands for a byte and the sizes are scaled down: blocks of BLOCK *)
(* cells where the code has 64 bytes (2 * BLOCK for 128), digests of       *)
(* DIGEST cells for 32 bytes, a length field of two words of one cell.     *)
(***************************************************************************)
EXTENDS Integers, SequencesExt

CONSTANTS
    BLOCK,      \* 64
    DIGEST,     \* 32
    WORD,       \* 2^32, where the words of a counter wrap; twice that for 2^64
    Mix(_, _)   \* the state after a block: of the state, and the block with what
                \* the algorithm mixes in beside it

Zeros(n) == [i \in 1..n |-> 0]
Put(buf, at, s) ==
    [i \in 1..Len(buf) |-> IF i > at /\ i <= at + Len(s) THEN s[i - at] ELSE buf[i]]

\* A context: the chaining state, the buffer, two counter words, the bytes in
\* the buffer where they are counted apart, and the flags of the BLAKEs.
Fresh(h, buf) ==
    [h |-> h, buf |-> buf, lo |-> 0, hi |-> 0, rest |-> 0,
     nullt |-> FALSE, last |-> FALSE, outlen |-> 0]
Zeroed(c) == Fresh(Zeros(Len(c.h)), Zeros(Len(c.buf)))
Word(c) == IF Len(c.buf) = 2 * BLOCK THEN 2 * WORD ELSE WORD
IV(seed, n) == [i \in 1..n |-> seed + i]

\* The part all but the BLAKE2s share: fill the block that was begun, take the
\* whole ones, keep the rest at the start of the buffer. Take is told how many
\* of the bytes of its block are new.
Absorb(c, left, data, Take(_, _, _)) ==
    LET size == Len(c.buf)
        fill == size - left
        filling == left > 0 /\ Len(data) >= fill
        block == SubSeq(c.buf, 1, left) \o SubSeq(data, 1, fill)
        first == IF filling THEN Take([c EXCEPT !.buf = block], block, fill) ELSE c
        more == IF filling THEN SubSeq(data, fill + 1, Len(data)) ELSE data
        whole == IF left > 0 /\ ~filling THEN 0 ELSE Len(more) \div size
        taken == FoldLeft(LAMBDA x, i : Take(x, SubSeq(more, (i - 1) * size + 1, i * size), size),
                          first, [i \in 1..whole |-> i])
    IN [taken EXCEPT !.buf = Put(@, IF filling THEN 0 ELSE left,
                                 SubSeq(more, whole * size + 1, Len(more)))]
\* How much of the data that leaves in the buffer.
Kept(size, left, n) == IF left + n < size THEN n ELSE (left + n) % size

-----------------------------------------------------------------------------
(* SHA-1, SHA-256, SHA-512. The count is in bits, in one word of twice the *)
(* width or, for SHA-512, in two.                                          *)

ADDINC128(c, n) ==
    LET lo == (c.lo + n) % Word(c)
    IN [c EXCEPT !.lo = lo, !.hi = IF lo < n THEN (@ + 1) % Word(c) ELSE @]
AddBits(c, n) ==
    LET Split(bitcount) == [c EXCEPT !.hi = bitcount \div Word(c), !.lo = bitcount % Word(c)]
    IN IF Len(c.buf) = 2 * BLOCK THEN ADDINC128(c, n)
       ELSE Split((c.hi * Word(c) + c.lo + n) % (Word(c) * Word(c)))
Usedspace(c) == (c.lo \div 8) % Len(c.buf)

sha1_Init == Fresh(IV(1, DIGEST - 1), Zeros(BLOCK))
sha256_Init == Fresh(IV(2, DIGEST), Zeros(BLOCK))
sha512_Init == Fresh(IV(3, 2 * DIGEST), Zeros(2 * BLOCK))

sha256_Transform(c) == [c EXCEPT !.h = Mix(@, c.buf)]

\* A whole block is copied to the buffer before it is transformed.
ShaTake(c, block, new) == AddBits(sha256_Transform([c EXCEPT !.buf = block]), 8 * new)
sha256_Update(c, data) ==
    IF data = <<>> THEN c
    ELSE AddBits(Absorb(c, Usedspace(c), data, ShaTake),
                 8 * Kept(Len(c.buf), Usedspace(c), Len(data)))
\* The same text on their own types.
sha1_Update(c, data) == sha256_Update(c, data)
sha512_Update(c, data) == sha256_Update(c, data)

sha512_Last(c) ==
    LET short == Len(c.buf) - 2
        used == Usedspace(c) + 1
        marked == [c EXCEPT !.buf[used] = 128]
        Full == [marked EXCEPT !.buf = Put(@, used, Zeros(Len(@) - used))]
        Filled(x, at) == [x EXCEPT !.buf =
            Put(Put(@, at, Zeros(short - at)), short, <<x.hi, x.lo>>)]
    IN sha256_Transform(IF used > short THEN Filled(sha256_Transform(Full), 0)
                        ELSE Filled(marked, used))

Finished(c, n) == [ok |-> TRUE, digest |-> SubSeq(c.h, 1, n), ctx |-> Zeroed(c)]
sha512_Final(c) == Finished(sha512_Last(c), 2 * DIGEST)
\* These have the text of sha512_Last in their own.
sha256_Final(c) == Finished(sha512_Last(c), DIGEST)
sha1_Final(c) == Finished(sha512_Last(c), DIGEST - 1)

sha1_Raw(data) == sha1_Final(sha1_Update(sha1_Init, data)).digest
sha256_Raw(data) == sha256_Final(sha256_Update(sha256_Init, data)).digest
sha512_Raw(data) == sha512_Final(sha512_Update(sha512_Init, data)).digest

-----------------------------------------------------------------------------
(* SHA-3 and Keccak. A lane of the state is one cell: 25 of them, of which *)
(* a block covers the rate.                                                *)

keccak_Init(bits) == Fresh(Zeros(25), Zeros((1600 - bits * 2) \div 64))
sha3_224_Init == keccak_Init(224)
sha3_256_Init == keccak_Init(256)
sha3_384_Init == keccak_Init(384)
sha3_512_Init == keccak_Init(512)

\* A block is processed where it lies or copied first, as it is aligned: the
\* copy only leaves stale bytes that sha3_Final clears.
Sha3Take(c, block, new) == [c EXCEPT !.h = Mix(@, block)]
sha3_Update(c, msg) ==
    IF msg = <<>> THEN c
    ELSE [Absorb(c, c.rest, msg, Sha3Take) EXCEPT !.rest = (c.rest + Len(msg)) % Len(c.buf)]

\* The context is gone after it, the rate and the mark of the end included.
FinalWith(c, mark) ==
    LET size == Len(c.buf)
        cleared == Put(c.buf, c.rest, Zeros(size - c.rest))
        marked == [cleared EXCEPT ![c.rest + 1] = mark]
        done == Sha3Take(c, [marked EXCEPT ![size] = @ + 128], 0)
    IN [ok |-> TRUE, digest |-> SubSeq(done.h, 1, (25 - size) \div 2), ctx |-> Zeroed(c)]
sha3_Final(c) == FinalWith(c, 6)
keccak_Final(c) == FinalWith(c, 1)

sha3_224(data) == sha3_Final(sha3_Update(sha3_224_Init, data)).digest
sha3_256(data) == sha3_Final(sha3_Update(sha3_256_Init, data)).digest
sha3_384(data) == sha3_Final(sha3_Update(sha3_384_Init, data)).digest
sha3_512(data) == sha3_Final(sha3_Update(sha3_512_Init, data)).digest
keccak_224(data) == keccak_Final(sha3_Update(sha3_224_Init, data)).digest
keccak_256(data) == keccak_Final(sha3_Update(sha3_256_Init, data)).digest
keccak_384(data) == keccak_Final(sha3_Update(sha3_384_Init, data)).digest
keccak_512(data) == keccak_Final(sha3_Update(sha3_512_Init, data)).digest

-----------------------------------------------------------------------------
(* RIPEMD-160. The count is in bytes; its own Update takes the padding.    *)

ripemd160_Init == Fresh(IV(5, DIGEST - 1), Zeros(BLOCK))

ripemd160_Update(c, input) ==
    LET total == (c.lo + Len(input)) % WORD
        counted == [c EXCEPT !.lo = total,
                             !.hi = IF total < Len(input) THEN (@ + 1) % WORD ELSE @]
    IN IF input = <<>> THEN c
       ELSE Absorb(counted, c.lo % BLOCK, input,
                   LAMBDA x, block, new : [x EXCEPT !.h = Mix(@, block)])

ripemd160_padding(n) == <<128>> \o Zeros(n - 1)
ripemd160_Final(c) ==
    LET high == (c.lo \div (WORD \div 8) + c.hi * 8) % WORD
        low == (c.lo * 8) % WORD
        last == c.lo % BLOCK
        padn == IF last < BLOCK - 2 THEN BLOCK - 2 - last ELSE 2 * BLOCK - 2 - last
        padded == ripemd160_Update(c, ripemd160_padding(padn))
    IN Finished(ripemd160_Update(padded, <<low, high>>), DIGEST - 1)

ripemd160(msg) == ripemd160_Final(ripemd160_Update(ripemd160_Init, msg)).digest

-----------------------------------------------------------------------------
(* BLAKE2b and BLAKE2s: the last block stays in the buffer until the end,  *)
(* since the one that ends the message is compressed with a flag.          *)

\* A mutant: without the carry.
LowWordOnly(c, n) == [c EXCEPT !.lo = (@ + n) % Word(c)]
increment_counter(c, n) ==
    LET lo == (c.lo + n) % Word(c)
    IN [c EXCEPT !.lo = lo, !.hi = IF lo < n THEN (@ + 1) % Word(c) ELSE @]
compress(c, block) ==
    [c EXCEPT !.h = Mix(@, block \o <<c.lo, c.hi, IF c.last THEN 1 ELSE 0>>)]

\* What a call that refuses its arguments returns.
Failed == [ok |-> FALSE, digest |-> <<>>, ctx |-> Fresh(<<>>, <<>>)]
OutBytes(size) == IF size = 2 * BLOCK THEN 2 * DIGEST ELSE DIGEST

\* The parameter block, with the lengths, is added to the initial state.
init_param(size, outlen, keylen, personal) ==
    [Fresh([i \in 1..OutBytes(size) |-> 16 + i + 32 * outlen + 64 * keylen + personal],
           Zeros(size)) EXCEPT !.outlen = outlen]

Blake2Update(c, in) ==
    LET size == Len(c.buf)
        fill == size - c.rest
        \* whole blocks beyond the buffer that some byte still follows
        whole == (Len(in) - fill - 1) \div size
        first == compress(increment_counter(
                     [c EXCEPT !.buf = Put(@, c.rest, SubSeq(in, 1, fill))], size),
                     Put(c.buf, c.rest, SubSeq(in, 1, fill)))
        Next(x, i) == compress(increment_counter(x, size),
                               SubSeq(in, fill + (i - 1) * size + 1, fill + i * size))
        taken == FoldLeft(Next, first, [i \in 1..whole |-> i])
        tail == SubSeq(in, fill + whole * size + 1, Len(in))
    IN IF Len(in) > fill THEN [taken EXCEPT !.buf = Put(@, 0, tail), !.rest = Len(tail)]
       ELSE [c EXCEPT !.buf = Put(@, c.rest, in), !.rest = @ + Len(in)]
blake2b_Update(c, in) == Blake2Update(c, in)
blake2s_Update(c, in) == Blake2Update(c, in)

Blake2Init(size, outlen) ==
    IF outlen = 0 \/ outlen > OutBytes(size) THEN Failed
    ELSE [Failed EXCEPT !.ok = TRUE, !.ctx = init_param(size, outlen, 0, 0)]
blake2b_Init(outlen) == Blake2Init(2 * BLOCK, outlen)
blake2s_Init(outlen) == Blake2Init(BLOCK, outlen)

\* Personalisation has a fixed length, two cells here.
InitPersonal(size, outlen, personal) ==
    IF outlen = 0 \/ outlen > OutBytes(size) \/ Len(personal) # 2 THEN Failed
    ELSE [Failed EXCEPT !.ok = TRUE,
                        !.ctx = init_param(size, outlen, 0, personal[1] + 3 * personal[2])]
blake2b_InitPersonal(outlen, personal) == InitPersonal(2 * BLOCK, outlen, personal)
blake2s_InitPersonal(outlen, personal) == InitPersonal(BLOCK, outlen, personal)

\* The key, at most as long as the longest digest, is a first block.
InitKey(size, outlen, key) ==
    IF outlen = 0 \/ outlen > OutBytes(size) \/ key = <<>> \/ Len(key) > OutBytes(size)
    THEN Failed
    ELSE [Failed EXCEPT !.ok = TRUE,
             !.ctx = Blake2Update(init_param(size, outlen, Len(key), 0),
                                  key \o Zeros(size - Len(key)))]
blake2b_InitKey(outlen, key) == InitKey(2 * BLOCK, outlen, key)
blake2s_InitKey(outlen, key) == InitKey(BLOCK, outlen, key)

\* A second call, or one for fewer bytes than were promised, is refused.
Blake2Final(c, outlen, copied) ==
    LET counted == [increment_counter(c, c.rest) EXCEPT !.last = TRUE]
        block == Put(c.buf, c.rest, Zeros(Len(c.buf) - c.rest))
        Ended(done) == [ok |-> TRUE, digest |-> SubSeq(done.h, 1, copied), ctx |-> done]
    IN IF outlen < c.outlen \/ c.last THEN [Failed EXCEPT !.ctx = c]
       ELSE Ended(compress([counted EXCEPT !.buf = block], block))
blake2b_Final(c, outlen) == Blake2Final(c, outlen, c.outlen)
blake2s_Final(c, outlen) == Blake2Final(c, outlen, outlen)

\* One call for all of it, with a key or without.
blake2b(msg, outlen) ==
    IF ~blake2b_Init(outlen).ok THEN Failed
    ELSE blake2b_Final(blake2b_Update(blake2b_Init(outlen).ctx, msg), outlen)
blake2s(msg, outlen) ==
    IF ~blake2s_Init(outlen).ok THEN Failed
    ELSE blake2s_Final(blake2s_Update(blake2s_Init(outlen).ctx, msg), outlen)
blake2b_Key(msg, key, outlen) ==
    LET Hash(init) == IF ~init.ok THEN Failed
                      ELSE blake2b_Final(blake2b_Update(init.ctx, msg), outlen)
    IN Hash(blake2b_InitKey(outlen, key))
blake2s_Key(msg, key, outlen) ==
    LET Hash(init) == IF ~init.ok THEN Failed
                      ELSE blake2s_Final(blake2s_Update(init.ctx, msg), outlen)
    IN Hash(blake2s_InitKey(outlen, key))

-----------------------------------------------------------------------------
(* BLAKE-256. A block is counted before it is compressed, so the padding   *)
(* first takes back what it will add; nullt keeps the counter out of a     *)
(* block without a bit of the message.                                     *)

\* Init leaves what is in the buffer.
blake256_Init(c) == Fresh(IV(7, DIGEST), c.buf)

blake256_compress(c, block) ==
    [c EXCEPT !.h = Mix(@, block \o (IF c.nullt THEN <<0, 0>> ELSE <<c.lo, c.hi>>))]
Blake256Take(c, block, new) ==
    LET lo == (c.lo + 8 * BLOCK) % WORD
    IN blake256_compress([c EXCEPT !.lo = lo, !.hi = IF lo = 0 THEN @ + 1 ELSE @], block)
blake256_Update(c, in) ==
    [Absorb(c, c.rest, in, Blake256Take) EXCEPT
        !.rest = IF c.rest + Len(in) < BLOCK THEN c.rest + Len(in) ELSE (c.rest + Len(in)) % BLOCK]

TakeBack(c, bits) == [c EXCEPT !.lo = (@ - bits) % WORD]
\* One byte short of the length field; "55" and "440" of the code.
Blake256Short == BLOCK - 3
LeftAsIs(c) == [ok |-> TRUE, digest |-> c.h, ctx |-> c]
blake256_Final(c) ==
    LET lo == (c.lo + 8 * c.rest) % WORD
        hi == IF lo < 8 * c.rest THEN c.hi + 1 ELSE c.hi
        Pad(n) == <<128>> \o Zeros(n - 1)
        one == blake256_Update(TakeBack(c, 8), <<129>>)
        near == blake256_Update(TakeBack([c EXCEPT !.nullt = (c.rest = 0) \/ @],
                                         8 * Blake256Short - 8 * c.rest),
                                Pad(Blake256Short - c.rest))
        over == blake256_Update(TakeBack(c, 8 * BLOCK - 8 * c.rest), Pad(BLOCK - c.rest))
        far == [blake256_Update(TakeBack(over, 8 * Blake256Short), Zeros(Blake256Short))
                   EXCEPT !.nullt = TRUE]
        padded == IF c.rest = Blake256Short THEN one
                  ELSE TakeBack(blake256_Update(IF c.rest < Blake256Short THEN near ELSE far, <<1>>), 8)
    IN LeftAsIs(blake256_Update(TakeBack(padded, 16), <<hi, lo>>))

blake256(in) ==
    blake256_Final(blake256_Update(blake256_Init(Fresh(<<>>, Zeros(BLOCK))), in)).digest

-----------------------------------------------------------------------------
(* Groestl-512 counts blocks and, at the end, begins anew.                 *)

groestl_big_init(c, out_size) == Fresh(IV(out_size, 2 * DIGEST), c.buf)
groestl512_Init(c) == groestl_big_init(c, 2 * DIGEST)

\* The bytes of every block go through the buffer.
GroestlTake(c, block, new) ==
    [c EXCEPT !.buf = block, !.h = Mix(@, block), !.lo = (@ + 1) % WORD]
groestl_big_core(c, data) ==
    IF data = <<>> THEN c
    ELSE [Absorb(c, c.rest, data, GroestlTake) EXCEPT
             !.rest = IF c.rest + Len(data) < Len(c.buf) THEN c.rest + Len(data)
                      ELSE (c.rest + Len(data)) % Len(c.buf)]
groestl512_Update(c, data) == groestl_big_core(c, data)

groestl_big_close(c) ==
    LET size == Len(c.buf)
        near == c.rest < size - 1
        pad_len == IF near THEN size - c.rest ELSE 2 * size - c.rest
        count == (c.lo + (IF near THEN 1 ELSE 2)) % WORD
        Closed(done) == [ok |-> TRUE, digest |-> Mix(done.h, <<>>),
                         ctx |-> groestl_big_init(done, 2 * DIGEST)]
    IN Closed(groestl_big_core(c, <<128>> \o Zeros(pad_len - 2) \o <<count>>))
groestl512_Final(c) == groestl_big_close(c)

groestl512_DoubleTrunc(c) ==
    LET Twice(once) == groestl512_Final(groestl512_Update(once.ctx, once.digest))
    IN [Twice(groestl512_Final(c)) EXCEPT !.digest = SubSeq(@, 1, DIGEST)]
=============================================================================
