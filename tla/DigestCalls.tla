---------------------------- MODULE DigestCalls ----------------------------
(***************************************************************************)
(* The digests as they are called: one context, begun, given the message   *)
(* in pieces of any length, finished, and begun again in the same memory.  *)
(***************************************************************************)
EXTENDS Digests

CONSTANTS
    Byte(_),    \* bound: the n-th byte of the message
    Pieces,     \* bound: how long a piece is
    LONGEST,    \* bound: of the message
    Skipped,    \* bound: lengths from which a message may not be cut further
    Keys        \* bound: keys of the keyed BLAKE2s

VARIABLES
    call,       \* what is computed: the digest, the bytes asked of it, the key
    ctx,
    taken,      \* how many bytes of the message have been given
    result,     \* what Final returned
    rounds      \* messages digested in this memory

vars == <<call, ctx, taken, result, rounds>>

Message(n) == [i \in 1..n |-> Byte(i)]
Sha3s == {"sha3_224", "sha3_256", "sha3_384", "sha3_512"}
Keccaks == {"keccak_224", "keccak_256", "keccak_384", "keccak_512"}
Plain == Sha3s \cup Keccaks \cup
         {"sha1", "sha256", "sha512", "ripemd160", "blake256", "groestl512", "groestl_double"}
Sized == {"blake2b", "blake2s", "blake2b_personal", "blake2s_personal",
          "blake2b_key", "blake2s_key"}
Wide == {"sha512", "groestl512", "groestl_double", "blake2b", "blake2b_personal", "blake2b_key"}

Calls == [of : Plain, outlen : {0}, key : {<<>>}]
         \cup [of : Sized, outlen : {0, 1, DIGEST, 2 * DIGEST, 2 * DIGEST + 1}, key : Keys]

\* The memory a context is made in: what an earlier use left, or zeros.
Begun(c, memory) ==
    CASE c.of = "sha1" -> sha1_Init
      [] c.of = "sha256" -> sha256_Init
      [] c.of = "sha512" -> sha512_Init
      [] c.of \in {"sha3_224", "keccak_224"} -> sha3_224_Init
      [] c.of \in {"sha3_256", "keccak_256"} -> sha3_256_Init
      [] c.of \in {"sha3_384", "keccak_384"} -> sha3_384_Init
      [] c.of \in {"sha3_512", "keccak_512"} -> sha3_512_Init
      [] c.of = "ripemd160" -> ripemd160_Init
      [] c.of = "blake256" -> blake256_Init(memory)
      [] c.of \in {"groestl512", "groestl_double"} -> groestl512_Init(memory)
      [] c.of = "blake2b" -> blake2b_Init(c.outlen).ctx
      [] c.of = "blake2s" -> blake2s_Init(c.outlen).ctx
      [] c.of = "blake2b_personal" -> blake2b_InitPersonal(c.outlen, c.key).ctx
      [] c.of = "blake2s_personal" -> blake2s_InitPersonal(c.outlen, c.key).ctx
      [] c.of = "blake2b_key" -> blake2b_InitKey(c.outlen, c.key).ctx
      [] c.of = "blake2s_key" -> blake2s_InitKey(c.outlen, c.key).ctx

Given(c, x, data) ==
    CASE c.of = "sha1" -> sha1_Update(x, data)
      [] c.of = "sha256" -> sha256_Update(x, data)
      [] c.of = "sha512" -> sha512_Update(x, data)
      [] c.of \in Sha3s \cup Keccaks -> sha3_Update(x, data)
      [] c.of = "ripemd160" -> ripemd160_Update(x, data)
      [] c.of = "blake256" -> blake256_Update(x, data)
      [] c.of \in {"groestl512", "groestl_double"} -> groestl512_Update(x, data)
      [] c.of \in {"blake2b", "blake2b_personal", "blake2b_key"} -> blake2b_Update(x, data)
      [] OTHER -> blake2s_Update(x, data)

Ended(c, x) ==
    CASE c.of = "sha1" -> sha1_Final(x)
      [] c.of = "sha256" -> sha256_Final(x)
      [] c.of = "sha512" -> sha512_Final(x)
      [] c.of \in Sha3s -> sha3_Final(x)
      [] c.of \in Keccaks -> keccak_Final(x)
      [] c.of = "ripemd160" -> ripemd160_Final(x)
      [] c.of = "blake256" -> blake256_Final(x)
      [] c.of = "groestl512" -> groestl512_Final(x)
      [] c.of = "groestl_double" -> groestl512_DoubleTrunc(x)
      [] c.of \in {"blake2b", "blake2b_personal", "blake2b_key"} -> blake2b_Final(x, c.outlen)
      [] OTHER -> blake2s_Final(x, c.outlen)

Memory(c) == Fresh(<<>>, Zeros(IF c.of \in Wide THEN 2 * BLOCK ELSE BLOCK))
Refused == Fresh(<<>>, <<>>)

-----------------------------------------------------------------------------
Init ==
    /\ call \in Calls
    /\ ctx = Begun(call, Memory(call))
    /\ taken = 0
    /\ result = Failed
    /\ rounds = 1

Update ==
    /\ ctx # Refused
    /\ ~result.ok
    /\ \E n \in Pieces :
          /\ taken + n <= LONGEST
          /\ taken' = taken + n
          /\ taken' \notin Skipped
          /\ ctx' = Given(call, ctx, SubSeq(Message(taken + n), taken + 1, taken + n))
    /\ UNCHANGED <<call, result, rounds>>

Final ==
    /\ ctx # Refused
    /\ ~result.ok
    /\ result' = Ended(call, ctx)
    /\ ctx' = result'.ctx
    /\ UNCHANGED <<call, taken, rounds>>

\* The same again in the same memory.
Restart ==
    /\ result.ok
    /\ rounds < 2
    /\ rounds' = rounds + 1
    /\ ctx' = Begun(call, ctx)
    /\ taken' = 0
    /\ result' = Failed
    /\ UNCHANGED call

\* A finished Groestl context is one just begun, and is used as that.
GoOn ==
    /\ result.ok
    /\ rounds < 2
    /\ call.of \in {"groestl512", "groestl_double"}
    /\ rounds' = rounds + 1
    /\ taken' = 0
    /\ result' = Failed
    /\ UNCHANGED <<call, ctx>>

Next == Update \/ Final \/ Restart \/ GoOn

Spec == Init /\ [][Next]_vars

-----------------------------------------------------------------------------
(* The digests as they are defined, on a whole message of n bytes.         *)

Cut(size, s) ==
    [i \in 1..(Len(s) \div size) |-> SubSeq(s, (i - 1) * size + 1, i * size)]
Folded(h, blocks) == FoldLeft(LAMBDA x, b : Mix(x, b), h, blocks)
Size(c) == IF c.of \in Wide THEN 2 * BLOCK ELSE BLOCK
\* The bits of n bytes in two words.
Bits(c, n) ==
    LET word == IF c.of \in Wide THEN 2 * WORD ELSE WORD
    IN <<(8 * n) \div word, (8 * n) % word>>
Filled(size, n, field) == Zeros((size - ((n + 1 + field) % size)) % size)

Merkle(c, n, h, field) ==
    Folded(h, Cut(Size(c), Message(n) \o <<128>> \o Filled(Size(c), n, Len(field)) \o field))
Rate(c) == Len(Begun(c, Memory(c)).buf)
Sponge(rate, n, mark) ==
    LET zeros == (rate - ((n + 1) % rate)) % rate
        Closed(all) == [all EXCEPT ![Len(all)] = @ + 128]
        h == Folded(Zeros(25), Cut(rate, Closed(Message(n) \o <<mark>> \o Zeros(zeros))))
    IN SubSeq(h, 1, (25 - rate) \div 2)

\* BLAKE2: the key is a block in front, the last block is zeros beyond the
\* message and flagged, each block comes with the bytes up to its end.
Blake2Standard(c, n, key, h) ==
    LET size == Size(c)
        front == IF key = <<>> THEN <<>> ELSE key \o Zeros(size - Len(key))
        data == front \o Message(n)
        count == IF data = <<>> THEN 1 ELSE (Len(data) + size - 1) \div size
        all == data \o Zeros(count * size - Len(data))
        word == IF c.of \in Wide THEN 2 * WORD ELSE WORD
        At(i) == IF i = count THEN Len(data) ELSE i * size
    IN Folded(h, [i \in 1..count |->
           SubSeq(all, (i - 1) * size + 1, i * size)
               \o <<At(i) % word, At(i) \div word, IF i = count THEN 1 ELSE 0>>])

\* BLAKE-256: the bits of the message up to the end of each block, none for a
\* block that holds nothing of it.
BlakeStandard(n) ==
    LET field == <<(8 * n) \div WORD, (8 * n) % WORD>>
        ends == IF (n + 3) % BLOCK = 0 THEN <<129>> ELSE <<128>> \o Filled(BLOCK, n, 3) \o <<1>>
        all == Message(n) \o ends \o field
        At(i) == IF i * BLOCK <= n THEN 8 * i * BLOCK
                 ELSE IF (i - 1) * BLOCK < n THEN 8 * n ELSE 0
    IN Folded(IV(7, DIGEST), [i \in 1..(Len(all) \div BLOCK) |->
           SubSeq(all, (i - 1) * BLOCK + 1, i * BLOCK) \o <<At(i) % WORD, At(i) \div WORD>>])

Groestl(m) ==
    LET size == 2 * BLOCK
        zeros == (size - ((Len(m) + 2) % size)) % size
        count == (Len(m) + 2 + zeros) \div size
    IN Mix(Folded(IV(2 * DIGEST, 2 * DIGEST),
                  Cut(size, m \o <<128>> \o Zeros(zeros) \o <<count>>)), <<>>)

Standard(c, n) ==
    LET bits == Bits(c, n)
        First(s, k) == SubSeq(s, 1, k)
    IN CASE c.of = "sha1" -> Merkle(c, n, IV(1, DIGEST - 1), bits)
         [] c.of = "sha256" -> Merkle(c, n, IV(2, DIGEST), bits)
         [] c.of = "sha512" -> Merkle(c, n, IV(3, 2 * DIGEST), bits)
         [] c.of = "ripemd160" -> Merkle(c, n, IV(5, DIGEST - 1), <<bits[2], bits[1]>>)
         [] c.of \in Sha3s -> Sponge(Rate(c), n, 6)
         [] c.of \in Keccaks -> Sponge(Rate(c), n, 1)
         [] c.of = "blake256" -> BlakeStandard(n)
         [] c.of = "groestl512" -> Groestl(Message(n))
         [] c.of = "groestl_double" -> First(Groestl(Groestl(Message(n))), DIGEST)
         [] c.of \in {"blake2b_key", "blake2s_key"} ->
                First(Blake2Standard(c, n, c.key, init_param(Size(c), c.outlen, Len(c.key), 0).h),
                      c.outlen)
         [] c.of \in {"blake2b_personal", "blake2s_personal"} ->
                First(Blake2Standard(c, n, <<>>, init_param(Size(c), c.outlen, 0,
                                         c.key[1] + 3 * c.key[2]).h), c.outlen)
         [] OTHER -> First(Blake2Standard(c, n, <<>>, init_param(Size(c), c.outlen, 0, 0).h),
                           c.outlen)

\* Whether a BLAKE2 with these arguments is defined at all.
Defined(c) ==
    LET most == IF c.of \in Wide THEN 2 * DIGEST ELSE DIGEST
    IN c.of \in Sized =>
          /\ c.outlen \in 1..most
          /\ c.of \in {"blake2b_key", "blake2s_key"} => Len(c.key) \in 1..most
          /\ c.of \in {"blake2b_personal", "blake2s_personal"} => Len(c.key) = 2

OneCall(c, m) ==
    CASE c.of = "sha1" -> sha1_Raw(m)
      [] c.of = "sha256" -> sha256_Raw(m)
      [] c.of = "sha512" -> sha512_Raw(m)
      [] c.of = "sha3_224" -> sha3_224(m)
      [] c.of = "sha3_256" -> sha3_256(m)
      [] c.of = "sha3_384" -> sha3_384(m)
      [] c.of = "sha3_512" -> sha3_512(m)
      [] c.of = "keccak_224" -> keccak_224(m)
      [] c.of = "keccak_256" -> keccak_256(m)
      [] c.of = "keccak_384" -> keccak_384(m)
      [] c.of = "keccak_512" -> keccak_512(m)
      [] c.of = "ripemd160" -> ripemd160(m)
      [] c.of = "blake256" -> blake256(m)
      [] c.of = "blake2b" -> blake2b(m, c.outlen).digest
      [] c.of = "blake2s" -> blake2s(m, c.outlen).digest
      [] c.of = "blake2b_key" -> blake2b_Key(m, c.key, c.outlen).digest
      [] c.of = "blake2s_key" -> blake2s_Key(m, c.key, c.outlen).digest
      [] OTHER -> result.digest

\* Whatever the pieces were, and whatever an earlier use left in the memory,
\* the digest is that of the whole message; the functions that take it at once
\* give the same; arguments outside the definition are refused, as is a
\* second Final; and the contexts that are wiped hold nothing any more.
DigestIsOfWholeMessage ==
    /\ (ctx = Refused) <=> ~Defined(call)
    /\ result.ok =>
          /\ result.digest = Standard(call, taken)
          /\ result.digest = OneCall(call, Message(taken))
          /\ call.of \in Plain \ {"blake256", "groestl512", "groestl_double"} => ctx = Zeroed(ctx)
          /\ call.of \in Sized => ~Ended(call, ctx).ok
=============================================================================
