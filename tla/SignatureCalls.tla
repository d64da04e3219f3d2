--------------------------- MODULE SignatureCalls ---------------------------
(***************************************************************************)
(* A key pair at work: its public key is derived and read back, it signs,  *)
(* somebody checks the signature he was given - the one signed, or one he  *)
(* or a fault changed - recovers the key from it, and shares a secret.     *)
(* Beside the calls stands the group they are said to compute in, over the *)
(* integers.                                                               *)
(***************************************************************************)
EXTENDS Ecdsa

CONSTANTS
    Key,        \* bound: private keys, from 1 to the order less one
    Job,        \* bound: what is signed: the number, the nonces of rfc6979, the rule
    Noise       \* bound: what random32 draws for z and randk

VARIABLES
    phase,      \* what has been done
    priv,       \* the private key, a number
    pub,        \* the public key
    signing,    \* what was signed: digest, nonces, the rule
    sig,        \* the signature, or none
    claim,      \* what the verifier was given: digest and signature
    verdict,    \* what ecdsa_verify_digest returned
    found       \* what ecdsa_recover_pub_from_sig returned

vars == <<phase, priv, pub, signing, sig, claim, verdict, found>>

Word(v) == bn_write_be(Digit(v))
Number(words) == Value(bn_read_be(words))

NoSigning == [digest |-> 0, ks |-> <<>>, rule |-> "any"]

Init ==
    /\ phase = "new"
    /\ priv \in Key
    /\ pub = NoKey
    /\ signing = NoSigning
    /\ sig = NoSignature /\ verdict = -1 /\ found = NoKey
    /\ claim = [digest |-> 0, sig |-> NoSignature]

\* Draws that are out of range are repeated
Drawn(m) == {z \in Noise : generate_k_random(Digit(z), m)}

Derive ==
    /\ phase = "new"
    /\ \E z \in Drawn(prime) :
          \/ pub' = ecdsa_get_public_key65(Word(priv), Digit(z))
          \/ pub' = ecdsa_get_public_key33(Word(priv), Digit(z))
    /\ phase' = "derived"
    /\ UNCHANGED <<priv, signing, sig, claim, verdict, found>>

Uncompress ==
    /\ phase = "derived"
    /\ pub.form # 4
    /\ pub' = ecdsa_uncompress_pubkey(pub)
    /\ phase' = "uncompressed"
    /\ UNCHANGED <<priv, signing, sig, claim, verdict, found>>

Sign ==
    /\ phase \in {"derived", "uncompressed"}
    /\ \E job \in Job, z \in Drawn(order) :
          /\ signing' = job
          /\ sig' = ecdsa_sign_digest(Word(priv), Word(job.digest),
                        [i \in 1..Len(job.ks) |-> Digit(job.ks[i])],
                        Digit(z), Digit(z), job.rule)
    /\ phase' = "signed"
    /\ UNCHANGED <<priv, pub, claim, verdict, found>>

n == Value(order)

\* The signatures and digests a verifier may be handed for this one.
Claims ==
    {[digest |-> signing.digest, sig |-> sig],
     [digest |-> signing.digest, sig |-> [sig EXCEPT !.s = Word(n - Number(@))]],
     [digest |-> signing.digest, sig |-> [sig EXCEPT !.s = Word(0)]],
     [digest |-> signing.digest, sig |-> [sig EXCEPT !.r = Word(Number(@) + n)]],
     [digest |-> signing.digest, sig |-> [sig EXCEPT !.s = Word(Number(@) + n)]],
     [digest |-> signing.digest + 1, sig |-> sig]}

Deliver ==
    /\ phase = "signed"
    /\ sig # NoSignature
    /\ claim' \in {c \in Claims : c.digest < 2 ^ NUMBER_BITS}
    /\ phase' = "delivered"
    /\ UNCHANGED <<priv, pub, signing, sig, verdict, found>>

Verify ==
    /\ phase = "delivered"
    /\ \E z \in Drawn(prime) :
          verdict' = ecdsa_verify_digest(pub, claim.sig, Word(claim.digest), Digit(z), Digit(z))
    /\ phase' = "verified"
    /\ UNCHANGED <<priv, pub, signing, sig, claim, found>>

Recover ==
    /\ phase = "verified"
    /\ \E z \in Drawn(prime) :
          found' = ecdsa_recover_pub_from_sig(claim.sig, Word(claim.digest), claim.sig.by,
                                              Digit(z), Digit(z))
    /\ phase' = "recovered"
    /\ UNCHANGED <<priv, pub, signing, sig, claim, verdict>>

\* What ecdh_multiply gives this key for another party's public key.
Share ==
    /\ phase \in {"derived", "uncompressed"}
    /\ \E peer \in Key, z \in Drawn(prime) :
          /\ signing' = [NoSigning EXCEPT !.digest = peer]
          /\ found' = ecdh_multiply(Word(priv),
                                    ecdsa_get_public_key33(Word(peer), Digit(z)), Digit(z))
    /\ phase' = "shared"
    /\ UNCHANGED <<priv, pub, sig, claim, verdict>>

Next == Derive \/ Uncompress \/ Sign \/ Deliver \/ Verify \/ Recover \/ Share

Spec == Init /\ [][Next]_vars

-----------------------------------------------------------------------------
(* The group, over the integers; <<>> is its zero.                         *)

p == Value(prime)
g == <<Value(G.x), Value(G.y)>>

\* x * y % m without leaving 31 bits: y six bits at a time.
RECURSIVE Times(_, _, _)
Times(x, y, m) ==
    IF y = 0 THEN 0 ELSE (((Times(x, y \div 64, m) * 64) % m) + x * (y % 64)) % m

RECURSIVE Euclid(_, _, _, _)
Euclid(r0, t0, r1, t1) ==
    IF r1 = 0 THEN t0 ELSE Euclid(r1, t1, r0 % r1, t0 - (r0 \div r1) * t1)
Inverse(x, m) == Euclid(m, 0, x % m, 1) % m

Plus(P, Q) ==
    LET slope == IF P = Q
                 THEN Times((Times(3, Times(P[1], P[1], p), p) + a) % p, Inverse(2 * P[2], p), p)
                 ELSE Times((Q[2] - P[2]) % p, Inverse(Q[1] - P[1], p), p)
        x == (Times(slope, slope, p) - P[1] - Q[1]) % p
    IN IF P = <<>> THEN Q ELSE IF Q = <<>> THEN P
       ELSE IF P[1] = Q[1] /\ (P[2] + Q[2]) % p = 0 THEN <<>>
       ELSE <<x, (Times(slope, (P[1] - x) % p, p) - P[2]) % p>>

RECURSIVE Multiple(_, _)
Multiple(k, P) ==
    IF k = 0 THEN <<>>
    ELSE LET half == Multiple(k \div 2, P)
             even == Plus(half, half)
         IN IF k % 2 = 1 THEN Plus(even, P) ELSE even

\* What a key is of a point.
KeyOf(P, form) ==
    IF form = 4 THEN [form |-> 4, x |-> Word(P[1]), y |-> Word(P[2])]
    ELSE [form |-> 2 + (P[2] % 2), x |-> Word(P[1])]

\* The textbook signature: its nonce is the first that gives one.
Textbook(d, digest, k, rule) ==
    LET R == Multiple(k, g)
        r == R[1] % n
        s == Times(Inverse(k, n), (Times(r, d, n) + (digest % n)) % n, n)
        low == IF s > n \div 2 THEN n - s ELSE s
        parity == (R[2] % 2) + (IF s > n \div 2 THEN 1 ELSE 0)
        by == (parity % 2) + (IF R[1] >= n THEN 2 ELSE 0)
        eos(v) == v < 2 ^ (NUMBER_BITS - 1) /\ v >= 2 ^ (NUMBER_BITS - 9)
    IN IF \/ k \notin 1..(n - 1) \/ r = 0 \/ s = 0
          \/ rule = "ethereum" /\ by >= 2
          \/ rule = "eos" /\ ~(eos(r) /\ eos(low))
       THEN NoSignature ELSE [r |-> Word(r), s |-> Word(low), by |-> by]

FirstOf(results) ==
    IF \A i \in 1..Len(results) : results[i] = NoSignature THEN NoSignature
    ELSE results[CHOOSE i \in 1..Len(results) :
                    results[i] # NoSignature /\ \A j \in 1..(i - 1) : results[j] = NoSignature]

Verifies(c) ==
    LET r == Number(c.sig.r)
        s == Number(c.sig.s)
        w == Inverse(s, n)
        R == Plus(Multiple(Times(w, c.digest % n, n), g),
                  Multiple(Times(w, r, n), Multiple(priv, g)))
    IN /\ r \in 1..(n - 1) /\ s \in 1..(n - 1) /\ c.digest # 0
       /\ R # <<>> /\ R[1] % n = r

\* Whatever is drawn for the blinding, the calls compute in the group: the
\* public key is the multiple of the generator in either form, the signature
\* is the textbook one for the first nonce the rule accepts, with the low s,
\* exactly the signatures that satisfy the equation are accepted, the
\* recovery byte leads back to the signer, and both sides of an exchange
\* reach the same secret.
CurveOpsExact ==
    /\ phase # "new" => pub = KeyOf(Multiple(priv, g), pub.form)
    /\ phase = "uncompressed" => pub.form = 4
    /\ phase = "signed" =>
          sig = FirstOf([i \in 1..Len(signing.ks) |->
                           Textbook(priv, signing.digest, signing.ks[i], signing.rule)])
    /\ phase = "verified" => (verdict = 0 <=> Verifies(claim))
    /\ phase = "recovered" /\ claim = [digest |-> signing.digest, sig |-> sig] =>
          found = KeyOf(Multiple(priv, g), 4)
    /\ phase = "shared" =>
          found = KeyOf(Multiple(signing.digest, Multiple(priv, g)), 4)
=============================================================================
