------------------------------ MODULE KeyCalls ------------------------------
(***************************************************************************)
(* HMAC, PBKDF2, the generator of rfc6979 and the hasher as they are       *)
(* called: a context is made, fed or asked any number of times in any      *)
(* amounts, and finished; and each is compared with its standard.          *)
(***************************************************************************)
EXTENDS KeyedHashes

CONSTANTS
    Keys,       \* bound: keys, passwords, entropy: empty to longer than a block
    Pieces,     \* bound: pieces of a message, nonces, salts
    Amounts,    \* bound: iterations of an Update, bytes of a Generate
    STEPS,      \* bound: what a context is given or asked
    order       \* of the curve of an rfc6979 generator

VARIABLES
    call,       \* what is computed, and from what
    c,          \* its context
    given,      \* what the context has been given since it was made
    out,        \* what it returned, <<>> before
    steps       \* how often it was given something or asked

vars == <<call, c, given, out, steps>>

Hashes == {s \in Keys : Len(s) = DIGEST}

Calls ==
    [of : {"hmac"}, sha : {256, 512}, key : Keys]
    \cup [of : {"pbkdf2"}, sha : {256, 512}, key : Keys, salt : Pieces, nr : {1, 2}]
    \cup [of : {"drbg"}, key : {k \in Keys : Len(k) > 0}, nonce : Pieces]
    \cup [of : {"rfc6979"}, key : Hashes, hash : Hashes]
    \cup [of : {"hasher"}, type : HasherTypes, param : {<<3, 4>>}]

Made(k) ==
    CASE k.of = "hmac" -> IF k.sha = 256 THEN hmac_sha256_Init(k.key) ELSE hmac_sha512_Init(k.key)
      [] k.of = "pbkdf2" -> IF k.sha = 256 THEN pbkdf2_hmac_sha256_Init(k.key, k.salt, k.nr)
                            ELSE pbkdf2_hmac_sha512_Init(k.key, k.salt, k.nr)
      [] k.of = "drbg" -> hmac_drbg_init(k.key, k.nonce)
      [] k.of = "rfc6979" -> init_rfc6979(k.key, k.hash, order)
      [] k.of = "hasher" -> hasher_InitParam(NoMemory(k.type), k.type, k.param)

Init ==
    /\ call \in Calls
    /\ c = Made(call)
    /\ given = <<>>
    /\ out = <<>>
    /\ steps = 0

Step == steps < STEPS /\ steps' = steps + 1 /\ UNCHANGED call

\* A piece of the message of an HMAC or of a hasher.
Feed ==
    /\ Step
    /\ call.of \in {"hmac", "hasher"}
    /\ out = <<>>
    /\ \E piece \in Pieces :
          /\ given' = given \o piece
          /\ c' = IF call.of = "hasher" THEN hasher_Update(c, piece)
                  ELSE IF call.sha = 256 THEN hmac_sha256_Update(c, piece)
                  ELSE hmac_sha512_Update(c, piece)
    /\ UNCHANGED out

\* Iterations may be asked for in several calls; the first counts the one that
\* Init made.
Iterate ==
    /\ Step
    /\ call.of = "pbkdf2"
    /\ \E n \in Amounts :
          /\ given = <<>> => n > 0
          /\ given' = Append(given, n)
          /\ c' = IF call.sha = 256 THEN pbkdf2_hmac_sha256_Update(c, n)
                  ELSE pbkdf2_hmac_sha512_Update(c, n)
    /\ UNCHANGED out

Finish ==
    /\ out = <<>>
    /\ \/ /\ call.of = "hmac"
          /\ out' = IF call.sha = 256 THEN hmac_sha256_Final(c) ELSE hmac_sha512_Final(c)
          /\ UNCHANGED c
       \/ /\ call.of = "hasher"
          /\ \E r \in {hasher_Final(c)} : out' = r.hash /\ c' = [c EXCEPT !.ctx = r.ctx]
    /\ UNCHANGED <<call, given, steps>>

\* A hasher is used again.
Reset ==
    /\ call.of = "hasher"
    /\ out # <<>>
    /\ c' = hasher_Reset(c)
    /\ given' = <<>>
    /\ out' = <<>>
    /\ UNCHANGED <<call, steps>>

\* Bytes of the generator, or a nonce from it; given remembers how many bytes
\* were asked for each time, and the reseedings between.
Generate ==
    /\ Step
    /\ \/ /\ call.of = "drbg"
          /\ \E n \in Amounts : \E r \in {hmac_drbg_generate(c, n)} :
                /\ out' = out \o r.buf /\ c' = r.ctx
                /\ given' = Append(given, [n |-> n, entropy |-> <<>>, addin |-> <<>>])
       \/ /\ call.of = "rfc6979"
          /\ \E r \in {generate_k_rfc6979(c)} : out' = out \o Cells(r.k) /\ c' = r.ctx
          /\ given' = Append(given, [n |-> DIGEST, entropy |-> <<>>, addin |-> <<>>])

Reseed ==
    /\ Step
    /\ call.of = "drbg"
    /\ \E e \in Hashes, a \in Pieces :
          /\ c' = hmac_drbg_reseed(c, e, a)
          /\ given' = Append(given, [n |-> 0, entropy |-> e, addin |-> a])
    /\ UNCHANGED out

Next == Feed \/ Iterate \/ Finish \/ Reset \/ Generate \/ Reseed

Spec == Init /\ [][Next]_vars

-----------------------------------------------------------------------------
(* The standards: RFC 2104, RFC 8018, SP 800-90A.                          *)

HMAC(sha, key, msg) ==
    LET size == Size(sha)
        With(k) == LET k0 == k \o Zeros(size - Len(k))
                   IN Raw(sha, XorCells(k0, Repeat(Opad, size))
                                   \o Raw(sha, XorCells(k0, Repeat(Ipad, size)) \o msg))
    IN With(IF Len(key) > size THEN Raw(sha, key) ELSE key)

RECURSIVE U(_, _, _, _)
U(sha, pass, first, i) ==
    HMAC(sha, pass, IF i = 1 THEN first ELSE U(sha, pass, first, i - 1))
T(sha, pass, salt, nr, iterations) ==
    FoldLeft(LAMBDA x, i : XorCells(x, U(sha, pass, salt \o <<nr>>, i)),
             Zeros(Digest(sha)), [i \in 1..iterations |-> i])

\* K and V of the generator; the keyed state of the code is made of K.
Revised(s, domain, data) ==
    LET With(K) == [K |-> K, V |-> HMAC(256, K, s.V)]
    IN With(HMAC(256, s.K, s.V \o <<domain>> \o data))
Seeded(s, data) ==
    FoldLeft(LAMBDA x, domain : Revised(x, domain, data), s,
             IF data = <<>> THEN <<0>> ELSE <<0, 1>>)
Drawn(s, n) ==
    LET More(d, V) == [s |-> [d.s EXCEPT !.V = V], buf |-> d.buf \o V]
        turns == Repeat(0, (n + DIGEST - 1) \div DIGEST)
        End(d) == [s |-> Seeded(d.s, <<>>), buf |-> SubSeq(d.buf, 1, n)]
    IN End(FoldLeft(LAMBDA d, i : More(d, HMAC(256, d.s.K, d.s.V)), [s |-> s, buf |-> <<>>], turns))
Answer(s, request) ==
    LET With(d) == [s |-> d.s, buf |-> s.buf \o d.buf]
    IN IF request.entropy = <<>> THEN With(Drawn(s.s, request.n))
       ELSE [s EXCEPT !.s = Seeded(@, request.entropy \o request.addin)]

Generator(seed) == FoldLeft(Answer, [s |-> seed, buf |-> <<>>], given)
MatchesGenerator(g) ==
    /\ out = g.buf
    /\ SubSeq(c.v, 1, DIGEST) = g.s.V
    /\ c.idig = Mix(sha256_Init.h, XorCells(g.s.K \o Zeros(BLOCK - DIGEST), Repeat(Ipad, BLOCK)))
    /\ c.odig = Mix(sha256_Init.h, XorCells(g.s.K \o Zeros(BLOCK - DIGEST), Repeat(Opad, BLOCK)))

Total(amounts) == FoldLeft(LAMBDA n, a : n + a, 0, amounts)

Composed(type, m) ==
    CASE type = "SHA2" -> sha256_Raw(m)
      [] type = "SHA2D" -> sha256_Raw(sha256_Raw(m))
      [] type = "SHA2_RIPEMD" -> ripemd160(sha256_Raw(m))
      [] type = "SHA3" -> sha3_256(m)
      [] type = "SHA3K" -> keccak_256(m)
      [] type = "BLAKE" -> blake256(m)
      [] type = "BLAKED" -> blake256(blake256(m))
      [] type = "BLAKE_RIPEMD" -> ripemd160(blake256(m))
      [] type = "BLAKE2B" -> blake2b(m, DIGEST).digest
      [] OTHER -> <<>>

IsHmac(m) == m = HMAC(call.sha, call.key, given) /\ out \in {<<>>, m}
IsBlock(f, n) == n > 0 => f = T(call.sha, call.key, call.salt, call.nr, n)
\* A key of two blocks, the second cut by a cell.
IsKey(dk, n) ==
    n > 0 => dk = SubSeq(FlattenSeq([nr \in 1..2 |-> T(call.sha, call.key, call.salt, nr, n)]),
                         1, 2 * Digest(call.sha) - 1)
Start(k) ==
    IF k.of = "drbg" THEN k.key \o k.nonce ELSE k.key \o Cells(Number(k.hash) % order)

\* What the keyed constructions give is what their standards define, however
\* the message, the iterations or the random bytes are split over calls: HMAC
\* of short and long keys, a PBKDF2 block whose iterations are summed, a key of
\* several blocks, the generator and the keyed states it keeps, the hasher as
\* the composition its type names, again after every Reset.
KeysDerived ==
    CASE call.of = "hmac" ->
           IsHmac(IF call.sha = 256 THEN hmac_sha256(call.key, given)
                  ELSE hmac_sha512(call.key, given))
      [] call.of = "pbkdf2" ->
           LET n == Total(given)
               keylen == 2 * Digest(call.sha) - 1
           IN /\ IsBlock(IF call.sha = 256 THEN pbkdf2_hmac_sha256_Final(c)
                         ELSE pbkdf2_hmac_sha512_Final(c), n)
              /\ Len(given) = 1 =>
                    IsKey(IF call.sha = 256
                          THEN pbkdf2_hmac_sha256(call.key, call.salt, n, keylen)
                          ELSE pbkdf2_hmac_sha512(call.key, call.salt, n, keylen), n)
      [] call.of \in {"drbg", "rfc6979"} ->
           MatchesGenerator(Generator(
               Seeded([K |-> Zeros(DIGEST), V |-> Repeat(1, DIGEST)], Start(call))))
      [] call.of = "hasher" ->
           out # <<>> =>
              /\ IsPrefix(Composed(call.type, given), out)
              /\ call.type # "BLAKE2B_PERSONAL" => out = hasher_Raw(call.type, given)
=============================================================================
