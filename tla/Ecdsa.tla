------------------------------- MODULE Ecdsa -------------------------------
(***************************************************************************)
(* Points, signatures and public keys over a curve y^2 = x^3 + a*x + b of  *)
(* prime order, on the lazily reduced numbers of Bignum. A 32-byte string  *)
(* is the sequence of its words; a public key is its first byte with the   *)
(* coordinates that follow it. What random32 draws is an argument. The     *)
(* scratch variables point_multiply and scalar_multiply keep in static     *)
(* memory are local here: concurrent callers that share them are left out. *)
(***************************************************************************)
EXTENDS Bignum

CONSTANTS prime, order, order_half, G, a, b,
          cp    \* cp[i][j] = (2 * j + 1) * 16^i * G, from 0

-----------------------------------------------------------------------------
(* Affine points; the point at infinity is (0, 0).                         *)

Infinity == [x |-> bn_zero, y |-> bn_zero]
point_is_infinity(p) == bn_is_zero(p.x) /\ bn_is_zero(p.y)
point_is_equal(p, q) == bn_is_equal(p.x, q.x) /\ bn_is_equal(p.y, q.y)
point_is_negative_of(p, q) ==
    bn_is_equal(p.x, q.x) /\ ~bn_is_zero(p.y) /\ ~bn_is_equal(p.y, q.y)

Reduced(x) == bn_mod(bn_fast_mod(x, prime), prime)

\* The third point on the line of slope lambda through p, mirrored; sum is
\* the sum of the two x coordinates.
Third(lambda, p, sum) ==
    LET xr == Reduced(bn_subtractmod(bn_multiply(lambda, lambda, prime), sum, prime))
        yr == bn_multiply(lambda, bn_subtractmod(p.x, xr, prime), prime)
    IN [x |-> xr, y |-> Reduced(bn_subtractmod(yr, p.y, prime))]

point_double(p) ==
    LET two_y == Reduced(bn_mult_k(p.y, 2, prime))
        three_xx == bn_mult_k(bn_multiply(p.x, p.x, prime), 3, prime)
        lambda == bn_multiply(bn_subi(three_xx, -a, prime), bn_inverse(two_y, prime), prime)
    IN IF point_is_infinity(p) THEN p
       ELSE IF bn_is_zero(p.y) THEN Infinity
       ELSE Third(lambda, p, bn_lshift(p.x))

point_add(p, q) ==
    LET inv == bn_inverse(bn_subtractmod(q.x, p.x, prime), prime)
        lambda == bn_multiply(inv, bn_subtractmod(q.y, p.y, prime), prime)
    IN IF point_is_infinity(p) THEN q
       ELSE IF point_is_infinity(q) THEN p
       ELSE IF point_is_equal(p, q) THEN point_double(q)
       ELSE IF point_is_negative_of(p, q) THEN Infinity
       ELSE Third(lambda, p, bn_addmod(p.x, q.x, prime))

-----------------------------------------------------------------------------
(* Jacobian points: (x / z^2, y / z^3).                                    *)

generate_k_random(k, m) == ~bn_is_zero(k) /\ bn_is_less(k, m)

curve_to_jacobian(p, z) ==
    LET zz == bn_multiply(z, z, prime)
    IN [x |-> bn_multiply(p.x, zz, prime),
        y |-> bn_multiply(p.y, bn_multiply(z, zz, prime), prime),
        z |-> z]

AffineOf(jp, inv) ==
    LET inv2 == bn_multiply(inv, inv, prime)
    IN [x |-> bn_mod(bn_multiply(jp.x, inv2, prime), prime),
        y |-> bn_mod(bn_multiply(jp.y, bn_multiply(inv2, inv, prime), prime), prime)]
jacobian_to_curve(jp) == AffineOf(jp, bn_inverse(jp.z, prime))

\* The third point, mirrored, of the line of slope r / (h * z) through two
\* points: hsqx is h^2 * (x1 + x2), hcby is h^3 * (y1 + y2), z3 is h * z.
ThirdOf(r, hsqx, hcby, z3) ==
    LET x3 == bn_fast_mod(bn_subtractmod(bn_multiply(r, r, prime), hsqx, prime), prime)
        y3 == bn_multiply(r, bn_subtractmod(bn_subtractmod(hsqx, x3, prime), x3, prime), prime)
    IN [x |-> x3,
        y |-> bn_fast_mod(bn_mult_half(bn_subtractmod(y3, hcby, prime), prime), prime),
        z |-> z3]
ThirdOnLine(r, h, xz, yz, z) ==
    LET hh == bn_multiply(h, h, prime)
    IN ThirdOf(r, bn_multiply(xz, hh, prime),
               bn_multiply(yz, bn_multiply(hh, h, prime), prime), bn_multiply(h, z, prime))

\* p2 + p1 for an affine p1; the doubling of p2 when they are equal.
point_jacobian_add(p1, p2) ==
    LET mul(x, y) == bn_multiply(x, y, prime)
        sub(x, y) == bn_subtractmod(x, y, prime)
        zz == mul(p2.z, p2.z)
        x1 == mul(p1.x, zz)
        y1 == mul(p1.y, mul(zz, p2.z))
        difference == bn_fast_mod(sub(x1, p2.x), prime)
        is_doubling == bn_is_equal(difference, prime)
        yz == bn_add(y1, p2.y)
        three_xx == bn_mult_k(mul(p2.x, p2.x), 3, prime)
        r2 == IF a # 0 THEN sub(three_xx, bn_mult_k(mul(zz, zz), -a, prime)) ELSE three_xx
    IN ThirdOnLine(bn_cmov(is_doubling, r2, sub(y1, p2.y)),
                   bn_cmov(is_doubling, yz, difference), bn_add(x1, p2.x), yz, p2.z)

\* Where the tangent of slope m / z3 at p comes back: x3 is m^2 - 2 * xysq.
ThirdOnTangent(m, ysq, xysq, z3) ==
    LET mul(x, y) == bn_multiply(x, y, prime)
        sub(x, y) == bn_subtractmod(x, y, prime)
        x3 == bn_fast_mod(sub(mul(m, m), bn_fast_mod(bn_lshift(xysq), prime)), prime)
        y3 == sub(mul(m, sub(xysq, x3)), mul(ysq, ysq))
    IN [x |-> x3, y |-> bn_fast_mod(y3, prime), z |-> z3]
point_jacobian_double(p) ==
    LET mul(x, y) == bn_multiply(x, y, prime)
        zz == mul(p.z, p.z)
        az4 == bn_mult_k(mul(zz, zz), -a, prime)
        three_xx == bn_mult_k(mul(p.x, p.x), 3, prime)
        ysq == mul(p.y, p.y)
    IN ThirdOnTangent(bn_mult_half(bn_subtractmod(three_xx, az4, prime), prime),
                      ysq, mul(ysq, p.x), mul(p.y, p.z))

-----------------------------------------------------------------------------
(* Multiples. k + 2^256, less the order when k is even, is odd and is      *)
(* written with the odd digits -15..15 in base 16: five bits of it give a   *)
(* digit, the highest its sign.                                            *)

Windows == NUMBER_BITS \div 4

OddScalar(k) ==
    LET o(j) == IF bn_is_odd(k) THEN 0 ELSE order[j]
        low == Ripple(1, [j \in 1..(LIMBS - 1) |-> BASE - 1 + k[j] - o(j)], Single)
    IN [low EXCEPT ![LIMBS] =
           (@ + 2 ^ BITS_LAST_LIMB - 1 + k[LIMBS] - o(LIMBS)) % Single]

Negative(bits) == bits < 16
Magnitude(bits) == IF Negative(bits) THEN 15 - bits ELSE bits - 16
Factor(bits) == Magnitude(bits) \div 2

NegateZ(cond, jres) == [jres EXCEPT !.z = bn_cnegate(cond, @, prime)]
NegateY(cond, jres) == [jres EXCEPT !.y = bn_cnegate(cond, @, prime)]

\* pmult[j] = (2 * j + 1) * p
RECURSIVE OddMultiples(_, _, _)
OddMultiples(pmult, twice, i) ==
    IF i = 8 THEN pmult
    ELSE OddMultiples(Append(pmult, point_add(pmult[i], twice)), twice, i + 1)

RECURSIVE DoubleTimes(_, _)
DoubleTimes(jres, n) ==
    IF n = 0 THEN jres ELSE DoubleTimes(point_jacobian_double(jres), n - 1)

\* The rounds of point_multiply from digit s.i down: s.limb is where the
\* next bits of k come from and s.ashift how far they stand in it.
RECURSIVE MultiplyFrom(_, _, _)
MultiplyFrom(s, k, pmult) ==
    IF s.i < 0 THEN NegateZ(s.negative, s.jres)
    ELSE LET crosses == s.ashift < 4
             ashift == IF crosses THEN s.ashift - 4 + BITS_PER_LIMB ELSE s.ashift - 4
             bits == IF crosses
                     THEN (k[s.limb] * 2 ^ (4 - s.ashift)
                              + k[s.limb - 1] \div 2 ^ ashift) % 32
                     ELSE (k[s.limb] \div 2 ^ ashift) % 32
             doubled == NegateZ(s.negative # Negative(bits), DoubleTimes(s.jres, 4))
         IN MultiplyFrom([i |-> s.i - 1,
                          limb |-> IF crosses THEN s.limb - 1 ELSE s.limb,
                          ashift |-> ashift,
                          negative |-> Negative(bits),
                          jres |-> point_jacobian_add(pmult[Factor(bits) + 1], doubled)],
                         k, pmult)

MultiplyWith(odd, pmult, z) ==
    LET ashift == BITS_LAST_LIMB - 4
        bits == odd[LIMBS] \div 2 ^ ashift
    IN jacobian_to_curve(
           MultiplyFrom([i |-> Windows - 2, limb |-> LIMBS, ashift |-> ashift,
                         negative |-> Negative(bits),
                         jres |-> curve_to_jacobian(pmult[Factor(bits) + 1], z)],
                        odd, pmult))
point_multiply(k, p, z) ==
    IF bn_is_zero(k) THEN Infinity
    ELSE MultiplyWith(OddScalar(k), OddMultiples(<<p>>, point_double(p), 1), z)

Shift4(k) == bn_rshift(bn_rshift(bn_rshift(bn_rshift(k))))

\* The rounds of scalar_multiply from digit s.i up; s.k is shifted to it.
RECURSIVE ScalarFrom(_)
ScalarFrom(s) ==
    IF s.i = Windows THEN NegateY((s.k[1] \div 16) % 2 = 0, s.jres)
    ELSE LET shifted == Shift4(s.k)
             bits == shifted[1] % 32
             jres == NegateY(Magnitude(bits) % 2 = 0, s.jres)
         IN ScalarFrom([i |-> s.i + 1, k |-> shifted,
                        jres |-> point_jacobian_add(cp[s.i][Factor(bits)], jres)])

scalar_multiply(k, z) ==
    LET odd == OddScalar(k)
        first == cp[0][Factor(odd[1] % 32)]
    IN IF bn_is_zero(k) THEN Infinity
       ELSE jacobian_to_curve(
                ScalarFrom([i |-> 1, k |-> odd, jres |-> curve_to_jacobian(first, z)]))

-----------------------------------------------------------------------------
(* Public keys.                                                            *)

uncompress_coords(odd, x) ==
    LET xx_a == bn_subi(bn_multiply(x, x, prime), -a, prime)
        y == bn_sqrt(bn_add(bn_multiply(x, xx_a, prime), b), prime)
    IN IF odd # y[1] % 2 THEN bn_subtract(prime, y) ELSE y

ecdsa_validate_pubkey(pub) ==
    LET y_2 == bn_mod(bn_multiply(pub.y, pub.y, prime), prime)
        xx_a == bn_subi(bn_multiply(pub.x, pub.x, prime), -a, prime)
        x3_ax_b == bn_mod(bn_addmod(bn_multiply(pub.x, xx_a, prime), b, prime), prime)
    IN /\ ~point_is_infinity(pub)
       /\ bn_is_less(pub.x, prime)
       /\ bn_is_less(pub.y, prime)
       /\ bn_is_equal(x3_ax_b, y_2)

\* The point of a public key; Infinity when it is refused.
ecdsa_read_pubkey(key) ==
    LET x == bn_read_be(key.x)
        y == IF key.form = 4 THEN bn_read_be(key.y) ELSE uncompress_coords(key.form % 2, x)
        Validated(pub) == IF ecdsa_validate_pubkey(pub) THEN pub ELSE Infinity
    IN IF key.form \in {2, 3, 4} THEN Validated([x |-> x, y |-> y]) ELSE Infinity

Key65(p) == [form |-> 4, x |-> bn_write_be(p.x), y |-> bn_write_be(p.y)]
NoKey == [form |-> 0, x |-> <<>>]
KeyOfPoint(p) == IF point_is_infinity(p) THEN NoKey ELSE Key65(p)
compress_coords(p) ==
    [form |-> IF bn_is_odd(p.y) THEN 3 ELSE 2, x |-> bn_write_be(p.x)]

ecdsa_get_public_key65(priv_key, z) == Key65(scalar_multiply(bn_read_be(priv_key), z))
ecdsa_get_public_key33(priv_key, z) ==
    compress_coords(scalar_multiply(bn_read_be(priv_key), z))
ecdsa_uncompress_pubkey(key) == KeyOfPoint(ecdsa_read_pubkey(key))

\* A key that is not valid is the point at infinity, whose multiples are
\* never computed.
ecdh_multiply(priv_key, key, z) ==
    LET Shared(point) == IF point_is_infinity(point) THEN NoKey
                         ELSE Key65(point_multiply(bn_read_be(priv_key), point, z))
    IN Shared(ecdsa_read_pubkey(key))

-----------------------------------------------------------------------------
(* Signatures. ks are the nonces rfc6979 would give, one after the other.  *)

\* A mutant: a number beyond the order is let through.
OnlyZeroIsBad(x) == bn_is_zero(x)
BadScalar(x) == bn_is_zero(x) \/ ~bn_is_less(x, order)

\* The attempt with nonce k: the signature and the recovery byte.
\* It has to be retried when there is none.
NoSignature == [r |-> <<>>, s |-> <<>>, by |-> 4]

LowS(sig) ==
    IF bn_is_less(order_half, sig.s)
    THEN [sig EXCEPT !.s = bn_write_be(bn_subtract(order, @)),
                     !.by = IF @ % 2 = 0 THEN @ + 1 ELSE @ - 1]
    ELSE [sig EXCEPT !.s = bn_write_be(@)]

\* R is k times the generator.
SignWith(priv_key, digest, R, k, randk) ==
    LET large == ~bn_is_less(R.x, order)
        r == IF large THEN bn_subtract(R.x, order) ELSE R.x
        inv == bn_inverse(bn_multiply(randk, k, order), order)
        sum == bn_add(bn_multiply(r, bn_read_be(priv_key), order), bn_read_be(digest))
        s == bn_mod(bn_multiply(randk, bn_multiply(inv, sum, order), order), order)
        by == (R.y[1] % 2) + (IF large THEN 2 ELSE 0)
    IN IF BadScalar(k) \/ bn_is_zero(r) \/ bn_is_zero(s) THEN NoSignature
       ELSE LowS([r |-> bn_write_be(r), s |-> s, by |-> by])

\* The rules a signature is retried for: none, Ethereum's and EOS's.
ethereum_is_canonic(sig) == sig.by < 2
eos_is_canonical(sig) ==
    \A word \in {sig.r[1], sig.s[1]} :
        word \div 2 ^ (WORD - 1) = 0 /\ word \div 2 ^ (WORD - 9) # 0
is_canonical(rule, sig) ==
    /\ rule = "ethereum" => ethereum_is_canonic(sig)
    /\ rule = "eos" => eos_is_canonical(sig)

Accepted(rule, sig) ==
    IF sig # NoSignature /\ is_canonical(rule, sig) THEN sig ELSE NoSignature
RECURSIVE ecdsa_sign_digest(_, _, _, _, _, _)
ecdsa_sign_digest(priv_key, digest, ks, randk, z, rule) ==
    LET Else(sig) == IF sig # NoSignature THEN sig
                     ELSE ecdsa_sign_digest(priv_key, digest, Tail(ks), randk, z, rule)
        k == Head(ks)
    IN IF ks = <<>> THEN NoSignature
       ELSE Else(Accepted(rule, SignWith(priv_key, digest, scalar_multiply(k, z), k, randk)))

HasX(res, r) ==
    IF point_is_infinity(res) THEN 4
    ELSE IF ~bn_is_equal(bn_mod(res.x, order), r) THEN 5
    ELSE 0
VerifyWith(pub, r, s, z, z1, z2) ==
    LET inv == bn_inverse(s, order)
        u1 == bn_mod(bn_multiply(inv, z, order), order)
        u2 == bn_mod(bn_multiply(r, inv, order), order)
    IN IF point_is_infinity(pub) THEN 1
       ELSE IF bn_is_zero(z) THEN 3
       ELSE IF BadScalar(r) \/ BadScalar(s) THEN 2
       ELSE HasX(point_add(point_multiply(u2, pub, z2), scalar_multiply(u1, z1)), r)
ecdsa_verify_digest(key, sig, digest, z1, z2) ==
    VerifyWith(ecdsa_read_pubkey(key), bn_read_be(sig.r), bn_read_be(sig.s),
               bn_read_be(digest), z1, z2)

RecoverFrom(R, r, s, e, z1, z2) ==
    LET inv == bn_inverse(r, order)
        u1 == bn_mod(bn_multiply(inv, e, order), order)
        u2 == bn_mod(bn_multiply(inv, s, order), order)
    IN IF ~ecdsa_validate_pubkey(R) THEN NoKey
       ELSE Key65(point_add(scalar_multiply(u1, z1), point_multiply(u2, R, z2)))
ecdsa_recover_pub_from_sig(sig, digest, recid, z1, z2) ==
    LET r == bn_read_be(sig.r)
        s == bn_read_be(sig.s)
        x == IF recid >= 2 THEN bn_add(r, order) ELSE r
        e == bn_subtract(order, bn_mod(bn_read_be(digest), order))
    IN IF \/ BadScalar(r) \/ BadScalar(s)
          \/ recid >= 2 /\ ~bn_is_less(x, prime)
       THEN NoKey
       ELSE RecoverFrom([x |-> x, y |-> uncompress_coords(recid % 2, x)], r, s, e, z1, z2)
=============================================================================
