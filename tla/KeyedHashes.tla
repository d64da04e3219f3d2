----------------------------- MODULE KeyedHashes -----------------------------
(***************************************************************************)
(* What native-crypto builds from its digests: HMAC with SHA-256 and       *)
(* SHA-512, PBKDF2, the HMAC generator of rfc6979 and the hasher that puts *)
(* one face on the digests. The code precomputes the digest states of the  *)
(* padded keys and then transforms blocks it lays out by hand; here it     *)
(* does, too, and the definitions of the standards stand beside it.        *)
(***************************************************************************)
EXTENDS Digests, Bitwise

XorCells(s, t) == [i \in 1..Len(s) |-> s[i] ^^ t[i]]
Repeat(x, n) == [i \in 1..n |-> x]
Opad == 92
Ipad == 54

\* The functions are written out twice, for SHA-256 and for SHA-512; Sha is the
\* context either begins with, and tells them apart from then on.
Sha(of) == IF of = 256 THEN sha256_Init ELSE sha512_Init
Size(of) == IF of = 256 THEN BLOCK ELSE 2 * BLOCK
Digest(of) == IF of = 256 THEN DIGEST ELSE 2 * DIGEST
\* sha512_Update and sha512_Final when the context is one of SHA-512.
ShaUpdate(c, data) == sha256_Update(c, data)
ShaDigest(of, c) == Finished(sha512_Last(c), Digest(of)).digest
Raw(of, data) == ShaDigest(of, ShaUpdate(Sha(of), data))

-----------------------------------------------------------------------------
(* hmac.c                                                                  *)

KeyPad(of, key) ==
    Put(Zeros(Size(of)), 0, IF Len(key) > Size(of) THEN Raw(of, key) ELSE key)

HmacInit(of, key) ==
    LET Padded(pad) ==
            [of |-> of, o_key_pad |-> XorCells(pad, Repeat(Opad, Size(of))),
             ctx |-> ShaUpdate(Sha(of), XorCells(pad, Repeat(Ipad, Size(of))))]
    IN Padded(KeyPad(of, key))
hmac_sha256_Init(key) == HmacInit(256, key)
hmac_sha512_Init(key) == HmacInit(512, key)

HmacUpdate(hctx, msg) == [hctx EXCEPT !.ctx = ShaUpdate(@, msg)]
hmac_sha256_Update(hctx, msg) == HmacUpdate(hctx, msg)
hmac_sha512_Update(hctx, msg) == HmacUpdate(hctx, msg)

HmacFinal(hctx) ==
    LET outer == ShaUpdate(Sha(hctx.of), hctx.o_key_pad)
    IN ShaDigest(hctx.of, ShaUpdate(outer, ShaDigest(hctx.of, hctx.ctx)))
hmac_sha256_Final(hctx) == HmacFinal(hctx)
hmac_sha512_Final(hctx) == HmacFinal(hctx)

hmac_sha256(key, msg) == hmac_sha256_Final(hmac_sha256_Update(hmac_sha256_Init(key), msg))
hmac_sha512(key, msg) == hmac_sha512_Final(hmac_sha512_Update(hmac_sha512_Init(key), msg))

\* The states after the block of either pad.
Prepare(of, key) ==
    LET States(opad) ==
            LET ipad == XorCells(XorCells(opad, Repeat(Opad, Size(of))), Repeat(Ipad, Size(of)))
            IN [odig |-> Mix(Sha(of).h, opad), idig |-> Mix(Sha(of).h, ipad)]
    IN States(XorCells(KeyPad(of, key), Repeat(Opad, Size(of))))
hmac_sha256_prepare(key) == Prepare(256, key)
hmac_sha512_prepare(key) == Prepare(512, key)

-----------------------------------------------------------------------------
(* pbkdf2.c. g is a block: a digest, then the padding and the length of a  *)
(* message of one block and one digest, which no step touches again.       *)

Padding(of) ==
    <<128>> \o Zeros(Size(of) - Digest(of) - 3) \o <<0, (Size(of) + Digest(of)) * 8>>

Pbkdf2Init(of, p, salt, blocknr) ==
    LET ctx == [Fresh(p.idig, Zeros(Size(of))) EXCEPT !.lo = Size(of) * 8]
        inner == ShaDigest(of, ShaUpdate(ShaUpdate(ctx, salt), <<blocknr>>))
        First(u) == [of |-> of, odig |-> p.odig, idig |-> p.idig,
                     g |-> u \o Padding(of), f |-> u, first |-> 1]
    IN First(Mix(p.odig, inner \o Padding(of)))
pbkdf2_hmac_sha256_Init(pass, salt, blocknr) == 
    Pbkdf2Init(256, hmac_sha256_prepare(pass), salt, blocknr)
pbkdf2_hmac_sha512_Init(pass, salt, blocknr) == 
    Pbkdf2Init(512, hmac_sha512_prepare(pass), salt, blocknr)

Iteration(pctx) ==
    LET Next(u) == [pctx EXCEPT !.g = u \o Padding(pctx.of), !.f = XorCells(@, u)]
    IN Next(Mix(pctx.odig, Mix(pctx.idig, pctx.g) \o Padding(pctx.of)))
Pbkdf2Update(pctx, iterations) ==
    [FoldLeft(LAMBDA c, i : Iteration(c), pctx, Repeat(0, iterations - pctx.first))
        EXCEPT !.first = 0]
pbkdf2_hmac_sha256_Update(pctx, iterations) == Pbkdf2Update(pctx, iterations)
pbkdf2_hmac_sha512_Update(pctx, iterations) == Pbkdf2Update(pctx, iterations)
pbkdf2_hmac_sha256_Final(pctx) == pctx.f
pbkdf2_hmac_sha512_Final(pctx) == pctx.f

blocks_count(of, keylen) ==
    keylen \div Digest(of) + (IF keylen % Digest(of) = 0 THEN 0 ELSE 1)
\* Blocks in turn, each from the context begun for it, the last cut to what is
\* left of the key.
Pbkdf2(begun, iterations, keylen) ==
    LET digest == Digest(begun[1].of)
        last_block_size == IF keylen % digest = 0 THEN digest ELSE keylen % digest
        Block(nr) == SubSeq(Pbkdf2Update(begun[nr], iterations).f, 1,
                            IF nr < Len(begun) THEN digest ELSE last_block_size)
    IN FlattenSeq([nr \in 1..Len(begun) |-> Block(nr)])
pbkdf2_hmac_sha256(pass, salt, iterations, keylen) ==
    Pbkdf2([nr \in 1..blocks_count(256, keylen) |-> pbkdf2_hmac_sha256_Init(pass, salt, nr)],
           iterations, keylen)
pbkdf2_hmac_sha512(pass, salt, iterations, keylen) ==
    Pbkdf2([nr \in 1..blocks_count(512, keylen) |-> pbkdf2_hmac_sha512_Init(pass, salt, nr)],
           iterations, keylen)

-----------------------------------------------------------------------------
(* hmac_drbg.c. v is a block like g: V, the padding, the length.           *)

update_k(ctx, domain, data1, data2) ==
    LET V == SubSeq(ctx.v, 1, DIGEST)
        \* the message V and a zero byte, padded in place
        short == V \o <<0, 128>> \o Zeros(BLOCK - DIGEST - 4) \o <<0, (BLOCK + DIGEST + 1) * 8>>
        begun == [Fresh(ctx.idig, Put(Zeros(BLOCK), 0, V \o <<domain>>))
                     EXCEPT !.lo = (BLOCK + DIGEST + 1) * 8]
        inner == IF data1 = <<>> /\ data2 = <<>> THEN Mix(ctx.idig, short)
                 ELSE ShaDigest(256, sha256_Update(sha256_Update(begun, data1), data2))
        Keyed(ipad) ==
            LET opad == XorCells(XorCells(ipad, Repeat(Ipad, BLOCK)), Repeat(Opad, BLOCK))
            IN [ctx EXCEPT !.idig = Mix(sha256_Init.h, ipad), !.odig = Mix(sha256_Init.h, opad)]
    IN Keyed(XorCells(Put(Zeros(BLOCK), 0, Mix(ctx.odig, inner \o Padding(256))),
                      Repeat(Ipad, BLOCK)))

update_v(ctx) ==
    LET inner == Mix(ctx.idig, ctx.v)
    IN [ctx EXCEPT !.v = Mix(ctx.odig, inner \o Padding(256)) \o Padding(256)]

\* A mutant: one round even when there is entropy.
SeedsOnce(ctx, entropy, addin) == update_v(update_k(ctx, 0, entropy, addin))
hmac_drbg_reseed(ctx, entropy, addin) ==
    LET Round(x, domain) == update_v(update_k(x, domain, entropy, addin))
    IN FoldLeft(Round, ctx, IF entropy = <<>> THEN <<0>> ELSE <<0, 1>>)

hmac_drbg_init(entropy, nonce) ==
    hmac_drbg_reseed([idig |-> Mix(sha256_Init.h, Repeat(Ipad, BLOCK)),
                      odig |-> Mix(sha256_Init.h, Repeat(Opad, BLOCK)),
                      v |-> Repeat(1, DIGEST) \o Padding(256)], entropy, nonce)

\* The bytes and the context after them; a last block may be cut.
hmac_drbg_generate(ctx, len) ==
    LET turns == (len + DIGEST - 1) \div DIGEST
        Given(acc, next) == [ctx |-> next, buf |-> acc.buf \o SubSeq(next.v, 1, DIGEST)]
        Turn(acc, i) == Given(acc, update_v(acc.ctx))
        End(all) == [buf |-> SubSeq(all.buf, 1, len),
                     ctx |-> update_v(update_k(all.ctx, 0, <<>>, <<>>))]
    IN End(FoldLeft(Turn, [ctx |-> ctx, buf |-> <<>>], Repeat(0, turns)))

-----------------------------------------------------------------------------
(* rfc6979.c. Hashes and keys are DIGEST cells, numbers most significant   *)
(* first; an order of as many bits leaves one subtraction to the reduction.*)

Number(s) == FoldLeft(LAMBDA v, x : v * 256 + x, 0, s)
Cells(n) == [i \in 1..DIGEST |-> (n \div 256 ^ (DIGEST - i)) % 256]

init_rfc6979(priv_key, hash, order) ==
    hmac_drbg_init(priv_key, Cells(IF Number(hash) >= order THEN Number(hash) - order
                                   ELSE Number(hash)))
generate_rfc6979(state) == hmac_drbg_generate(state, DIGEST)
generate_k_rfc6979(state) ==
    LET Read(r) == [k |-> Number(r.buf), ctx |-> r.ctx] IN Read(generate_rfc6979(state))

-----------------------------------------------------------------------------
(* hasher.c                                                                *)

HasherTypes == {"SHA2", "SHA2D", "SHA2_RIPEMD", "SHA3", "SHA3K", "BLAKE", "BLAKED",
                "BLAKE_RIPEMD", "GROESTLD_TRUNC", "BLAKE2B", "BLAKE2B_PERSONAL"}

\* The contexts are a union: one that leaves its buffer alone finds there what
\* the last use left, of the same type since a hasher keeps its own.
hasher_InitParam(memory, type, param) ==
    [type |-> type, param |-> param,
     ctx |-> CASE type \in {"SHA2", "SHA2D", "SHA2_RIPEMD"} -> sha256_Init
               [] type \in {"SHA3", "SHA3K"} -> sha3_256_Init
               [] type \in {"BLAKE", "BLAKED", "BLAKE_RIPEMD"} -> blake256_Init(memory)
               [] type = "GROESTLD_TRUNC" -> groestl512_Init(memory)
               [] type = "BLAKE2B" -> blake2b_Init(DIGEST).ctx
               [] type = "BLAKE2B_PERSONAL" -> blake2b_InitPersonal(DIGEST, param).ctx]
\* The zeros of a new one.
NoMemory(type) ==
    Fresh(<<>>, Zeros(IF type = "GROESTLD_TRUNC" THEN 2 * BLOCK ELSE BLOCK))
hasher_Init(type) == hasher_InitParam(NoMemory(type), type, <<>>)
hasher_Reset(hasher) == hasher_InitParam(hasher.ctx, hasher.type, hasher.param)

hasher_Update(hasher, data) ==
    LET type == hasher.type
        c == hasher.ctx
    IN [hasher EXCEPT !.ctx =
           CASE type \in {"SHA2", "SHA2D", "SHA2_RIPEMD"} -> sha256_Update(c, data)
             [] type \in {"SHA3", "SHA3K"} -> sha3_Update(c, data)
             [] type \in {"BLAKE", "BLAKED", "BLAKE_RIPEMD"} -> blake256_Update(c, data)
             [] type = "GROESTLD_TRUNC" -> groestl512_Update(c, data)
             [] type \in {"BLAKE2B", "BLAKE2B_PERSONAL"} -> blake2b_Update(c, data)]

\* A digest of a digest is taken by a second hasher; the shorter RIPEMD-160
\* goes over the start of the first.
hasher_Final(hasher) ==
    LET type == hasher.type
        c == hasher.ctx
        Hash(r) ==
            [ctx |-> r.ctx,
             hash |-> CASE type = "SHA2D" -> sha256_Raw(r.digest)
                        [] type = "BLAKED" -> blake256(r.digest)
                        [] type \in {"SHA2_RIPEMD", "BLAKE_RIPEMD"} ->
                               Put(r.digest, 0, ripemd160(r.digest))
                        [] OTHER -> r.digest]
    IN Hash(CASE type \in {"SHA2", "SHA2D", "SHA2_RIPEMD"} -> sha256_Final(c)
              [] type = "SHA3" -> sha3_Final(c)
              [] type = "SHA3K" -> keccak_Final(c)
              [] type \in {"BLAKE", "BLAKED", "BLAKE_RIPEMD"} -> blake256_Final(c)
              [] type = "GROESTLD_TRUNC" -> groestl512_DoubleTrunc(c)
              [] type \in {"BLAKE2B", "BLAKE2B_PERSONAL"} -> blake2b_Final(c, DIGEST))

hasher_Raw(type, data) == hasher_Final(hasher_Update(hasher_Init(type), data)).hash
=============================================================================
