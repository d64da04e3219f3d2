------------------------------- MODULE Bignum -------------------------------
(***************************************************************************)
(* The 256-bit numbers of the native library: nine limbs of 29 bits in     *)
(* 32-bit words, so that a limb can hold a little more than it should      *)
(* until somebody carries. The three sizes are constants, and every number *)
(* of the source that depends on them is derived. A number is the sequence *)
(* of its limbs, the lowest first; an accumulator wraps at its width, as   *)
(* in C. memzero, constant time and the order of independent loops are     *)
(* left out.                                                               *)
(***************************************************************************)
EXTENDS Integers, Sequences, Bitwise

CONSTANTS
    LIMBS,              \* 9
    BITS_PER_LIMB,      \* 29
    WORD,               \* 32, the width of the words the limbs are kept in
    MAX_DECIMAL_DIGITS  \* 79

BASE == 2 ^ BITS_PER_LIMB
EXTRA_BITS == WORD - BITS_PER_LIMB
NUMBER_BITS == (LIMBS - 1) * WORD
BITS_LAST_LIMB == NUMBER_BITS - (LIMBS - 1) * BITS_PER_LIMB

\* The widths of the two kinds of accumulator, uint32_t and uint64_t.
Single == 2 ^ WORD
Double == 2 ^ (2 * WORD)

-----------------------------------------------------------------------------
(* Reference: what limbs stand for.                                        *)

RECURSIVE ValueFrom(_, _)
ValueFrom(x, i) == IF i > Len(x) THEN 0 ELSE x[i] + BASE * ValueFrom(x, i + 1)
Value(x) == ValueFrom(x, 1)

Digit(v) == [i \in 1..LIMBS |-> (v \div BASE ^ (i - 1)) % BASE]
IsNormalized(x) == \A i \in 1..LIMBS : x[i] \in 0..(BASE - 1)

-----------------------------------------------------------------------------
(* The loop nearly every function is made of: add a term, keep the low     *)
(* bits as a limb, shift the rest to the next. The last element is what    *)
(* the accumulator still holds.                                            *)

RECURSIVE Ripple(_, _, _)
Ripple(acc, terms, width) ==
    IF terms = <<>> THEN <<acc>>
    ELSE LET sum == (acc + Head(terms)) % width
         IN <<sum % BASE>> \o Ripple(sum \div BASE, Tail(terms), width)

Limbs(acc, terms, width) == SubSeq(Ripple(acc, terms, width), 1, LIMBS)

\* The same with the top limb first, for the two functions that divide:
\* the quotient and the remainder.
RECURSIVE DivideFrom(_, _, _, _)
DivideFrom(x, i, r, d) ==
    IF i = 0 THEN [q |-> <<>>, r |-> r]
    ELSE LET acc == (r * (BASE % d) + x[i]) % Single
             lower == DivideFrom(x, i - 1, acc % d, d)
         IN [q |-> Append(lower.q, (r * (BASE \div d) + acc \div d) % Single),
             r |-> lower.r]

-----------------------------------------------------------------------------
(* Reading and writing. The words are those read_le and read_be take from  *)
(* the bytes.                                                              *)

Reversed(s) == [i \in 1..Len(s) |-> s[Len(s) + 1 - i]]

bn_read_le(words) ==
    [j \in 1..LIMBS |->
        LET i == j - 1
            temp == IF i = 0 THEN 0 ELSE words[i] \div 2 ^ (WORD - EXTRA_BITS * i)
        IN IF i = LIMBS - 1 THEN temp
           ELSE (temp + ((words[j] * 2 ^ (EXTRA_BITS * i)) % Single)) % BASE]
bn_read_be(words) == bn_read_le(Reversed(words))

bn_write_le(x) ==
    [j \in 1..(LIMBS - 1) |->
        LET i == j - 1
        IN ((x[j + 1] * 2 ^ (BITS_PER_LIMB - EXTRA_BITS * i)) % Single)
              + x[j] \div 2 ^ (EXTRA_BITS * i)]
bn_write_be(x) == Reversed(bn_write_le(x))

bn_zero == [i \in 1..LIMBS |-> 0]
bn_read_uint32(n) == [bn_zero EXCEPT ![1] = n % BASE, ![2] = n \div BASE]
bn_write_uint32(x) == (x[1] + x[2] * BASE) % Single
bn_one == bn_read_uint32(1)

-----------------------------------------------------------------------------
(* Tests and bits.                                                         *)

bn_bitcount(x) ==
    IF \A i \in 1..LIMBS : x[i] = 0 THEN 0
    ELSE LET top == CHOOSE i \in 1..LIMBS : x[i] # 0 /\ \A j \in (i + 1)..LIMBS : x[j] = 0
         IN (top - 1) * BITS_PER_LIMB
                + (CHOOSE b \in 1..WORD : 2 ^ (b - 1) <= x[top] /\ x[top] < 2 ^ b)

bn_is_zero(x) == \A i \in 1..LIMBS : x[i] = 0
bn_is_one(x) == x[1] = 1 /\ \A i \in 2..LIMBS : x[i] = 0
bn_is_even(x) == x[1] % 2 = 0
bn_is_odd(x) == x[1] % 2 = 1
bn_is_less(x, y) ==
    \E i \in 1..LIMBS : x[i] < y[i] /\ \A j \in (i + 1)..LIMBS : x[j] = y[j]
bn_is_equal(x, y) == x = y
bn_cmov(cond, true, false) == IF cond THEN true ELSE false

LimbOf(i) == i \div BITS_PER_LIMB + 1
bn_testbit(x, i) == (x[LimbOf(i)] \div 2 ^ (i % BITS_PER_LIMB)) % 2
bn_setbit(x, i) == [x EXCEPT ![LimbOf(i)] = @ | 2 ^ (i % BITS_PER_LIMB)]
bn_clearbit(x, i) ==
    [x EXCEPT ![LimbOf(i)] = @ - 2 ^ (i % BITS_PER_LIMB) * bn_testbit(x, i)]
bn_xor(x, y) == [i \in 1..LIMBS |-> x[i] ^^ y[i]]

bn_lshift(x) ==
    [i \in 1..LIMBS |-> ((2 * x[i]) % BASE)
                           + (IF i = 1 THEN 0 ELSE x[i - 1] \div (BASE \div 2))]
bn_rshift(x) ==
    [i \in 1..LIMBS |-> x[i] \div 2
                           + (IF i = LIMBS THEN 0 ELSE (x[i + 1] % 2) * (BASE \div 2))]

-----------------------------------------------------------------------------
(* Sums and differences.                                                   *)

bn_normalize(x) == Limbs(0, x, Single)
bn_add(x, y) == Limbs(0, [i \in 1..LIMBS |-> x[i] + y[i]], Single)
bn_addi(x, y) == Limbs(y, x, Single)
bn_subtract(x, y) == Limbs(1, [i \in 1..LIMBS |-> BASE - 1 + x[i] - y[i]], Single)
bn_subi(x, y, prime) ==
    Limbs(Single - y, [i \in 1..LIMBS |-> x[i] + prime[i]], Single)
\* A mutant: one modulus is added where two are needed.
AddsPrimeOnce(x, y, prime) ==
    Limbs(1, [i \in 1..LIMBS |-> BASE - 1 + x[i] + prime[i] - y[i]], Single)
bn_subtractmod(x, y, prime) ==
    Limbs(1, [i \in 1..LIMBS |-> BASE - 1 + x[i] + 2 * prime[i] - y[i]], Single)

bn_mod(x, prime) == bn_cmov(bn_is_less(x, prime), x, bn_subtract(x, prime))

bn_cnegate(cond, x, prime) ==
    LET m == bn_mod(x, prime)
    IN IF cond THEN Limbs(1, [i \in 1..LIMBS |-> BASE - 1 + 2 * prime[i] - m[i]], Single)
       ELSE Limbs(0, [i \in 1..LIMBS |-> prime[i] + m[i]], Single)

\* x - (x \div 2^256) * prime, with the quotient read off the top limb.
bn_fast_mod(x, prime) ==
    LET coef == x[LIMBS] \div 2 ^ BITS_LAST_LIMB
        shift == 2 ^ (WORD - BITS_LAST_LIMB)
    IN Limbs(shift, [i \in 1..LIMBS |-> (BASE - 1) * shift + x[i] - prime[i] * coef], Double)

bn_addmod(x, y, prime) ==
    bn_fast_mod([i \in 1..LIMBS |-> (x[i] + y[i]) % Single], prime)
bn_mult_k(x, k, prime) == bn_fast_mod([i \in 1..LIMBS |-> (k * x[i]) % Single], prime)

bn_mult_half(x, prime) ==
    LET temp == [i \in 1..LIMBS |-> x[i] + (IF bn_is_odd(x) THEN prime[i] ELSE 0)]
        low == Ripple(0, [i \in 1..(LIMBS - 1) |->
                             temp[i] \div 2 + (temp[i + 1] % 2) * (BASE \div 2)], Single)
    IN [low EXCEPT ![LIMBS] = @ + temp[LIMBS] \div 2]

-----------------------------------------------------------------------------
(* Products.                                                               *)

\* The sum of k[j] * x[i - j] over j in from..to, in the source's indices.
RECURSIVE Products(_, _, _, _, _)
Products(k, x, i, from, to) ==
    IF from > to THEN 0
    ELSE k[from + 1] * x[i - from + 1] + Products(k, x, i, from + 1, to)

bn_multiply_long(k, x) ==
    Ripple(0, [j \in 1..(2 * LIMBS - 1) |->
                  LET i == j - 1
                  IN IF i < LIMBS THEN Products(k, x, i, 0, i)
                     ELSE Products(k, x, i, i - LIMBS + 1, LIMBS - 1)], Double)

bn_multiply_reduce_step(res, prime, d) ==
    LET coef == (res[d + LIMBS] \div 2 ^ BITS_LAST_LIMB
                    + res[d + LIMBS + 1] * 2 ^ (LIMBS * BITS_PER_LIMB - NUMBER_BITS)) % Single
        shift == 2 ^ (WORD - 1)
        low == Ripple(shift, [i \in 1..LIMBS |->
                         (BASE - 1) * shift + res[d + i] - prime[i] * coef], Double)
    IN [i \in 1..Len(res) |->
           IF i \in (d + 1)..(d + LIMBS) THEN low[i - d]
           ELSE IF i = d + LIMBS + 1 THEN 0 ELSE res[i]]

RECURSIVE ReduceFrom(_, _, _)
ReduceFrom(res, prime, d) ==
    IF d < 0 THEN res
    ELSE ReduceFrom(bn_multiply_reduce_step(res, prime, d), prime, d - 1)

bn_multiply_reduce(res, prime) == SubSeq(ReduceFrom(res, prime, LIMBS - 1), 1, LIMBS)
bn_multiply(k, x, prime) == bn_multiply_reduce(bn_multiply_long(k, x), prime)

\* The rounds of bn_power_mod: s holds acc, res and the bit of e they are at.
RECURSIVE PowerFrom(_, _, _)
PowerFrom(s, e, prime) ==
    IF s.bit = LIMBS * BITS_PER_LIMB
           \/ /\ s.bit >= (LIMBS - 1) * BITS_PER_LIMB
              /\ e[LIMBS] \div 2 ^ (s.bit % BITS_PER_LIMB) = 0
    THEN s.res
    ELSE PowerFrom([acc |-> bn_multiply(s.acc, s.acc, prime),
                    res |-> IF bn_testbit(e, s.bit) = 1
                            THEN bn_multiply(s.acc, s.res, prime) ELSE s.res,
                    bit |-> s.bit + 1], e, prime)

bn_power_mod(x, e, prime) == PowerFrom([acc |-> x, res |-> bn_one, bit |-> 0], e, prime)

bn_sqrt(x, prime) ==
    bn_mod(bn_power_mod(x, bn_rshift(bn_rshift(bn_addi(prime, 1))), prime), prime)

-----------------------------------------------------------------------------
(* Inverses.                                                               *)

RECURSIVE NewtonFrom(_, _, _, _)
NewtonFrom(acc, f, i, n) ==
    IF i >= n THEN acc
    ELSE LET g == (f * f) % 2 ^ n
         IN NewtonFrom((acc * (1 + g)) % 2 ^ n, g, 2 * i, n)

inverse_mod_power_two(a, n) == NewtonFrom((2 - a) % 2 ^ n, (a - 1) % 2 ^ n, 1, n)

bn_divide_base(x, prime) ==
    LET m == (x[1] * (BASE - inverse_mod_power_two(prime[1], BITS_PER_LIMB))) % BASE
    IN Tail(Ripple(0, [i \in 1..LIMBS |-> x[i] + m * prime[i]], Double))

\* The rounds of the almost Montgomery inverse, until v is one. What the
\* remaining rounds do to v and r is never read.
RECURSIVE InverseFrom(_)
InverseFrom(t) ==
    LET b1 == bn_is_even(t.u)
        b2 == ~b1 /\ bn_is_even(t.v)
        b3 == ~b1 /\ ~b2 /\ bn_is_less(t.v, t.u)
        halved(x, y) == bn_rshift(bn_subtract(x, y))
    IN IF bn_is_one(t.v) \/ t.k = 2 * LIMBS * BITS_PER_LIMB THEN t
       ELSE InverseFrom(
                [u |-> IF b1 THEN bn_rshift(t.u) ELSE IF b3 THEN halved(t.u, t.v) ELSE t.u,
                 v |-> IF b1 \/ b3 THEN t.v
                       ELSE IF b2 THEN bn_rshift(t.v) ELSE halved(t.v, t.u),
                 r |-> IF b1 THEN t.r ELSE IF b3 THEN bn_add(t.r, t.s) ELSE bn_lshift(t.r),
                 s |-> IF b2 THEN t.s ELSE IF b1 \/ b3 THEN bn_lshift(t.s) ELSE bn_add(t.s, t.r),
                 k |-> t.k + 1])

RECURSIVE DivideBaseTimes(_, _, _)
DivideBaseTimes(s, n, prime) ==
    IF n = 0 THEN s ELSE DivideBaseTimes(bn_divide_base(s, prime), n - 1, prime)
RECURSIVE HalveTimes(_, _, _)
HalveTimes(s, n, prime) ==
    IF n = 0 THEN s ELSE HalveTimes(bn_mult_half(s, prime), n - 1, prime)

bn_inverse(x, prime) ==
    LET y == bn_mod(bn_fast_mod(x, prime), prime)
        a == InverseFrom([u |-> prime, v |-> y, r |-> bn_zero, s |-> bn_one, k |-> 0])
    IN IF bn_is_zero(y) THEN y
       ELSE HalveTimes(DivideBaseTimes(a.s, a.k \div BITS_PER_LIMB, prime),
                       a.k % BITS_PER_LIMB, prime)

-----------------------------------------------------------------------------
(* Decimal digits.                                                         *)

bn_long_division(x, d) ==
    LET top == x[LIMBS]
        lower == DivideFrom(x, LIMBS - 1, top % d, d)
    IN [q |-> Append(lower.q, top \div d), r |-> lower.r]

RECURSIVE DigitsFrom(_, _, _)
DigitsFrom(x, i, digits) ==
    IF i >= MAX_DECIMAL_DIGITS THEN digits
    ELSE LET step == bn_long_division(x, 1000)
         IN DigitsFrom(step.q, i + 3, IF step.r >= 100 THEN i + 3
                                      ELSE IF step.r >= 10 THEN i + 2
                                      ELSE IF step.r >= 1 THEN i + 1 ELSE digits)
bn_digitcount(x) == DigitsFrom(x, 0, 1)

\* A character of an amount: its digit, or the decimal point.
Point == 10
Zeros(n) == [i \in 1..n |-> 0]
None == <<-1>>

\* amount \div 10^n, as the loop of bn_format divides.
RECURSIVE DropDigits(_, _)
DropDigits(temp, n) ==
    IF n = 0 \/ bn_is_zero(temp) THEN temp
    ELSE DropDigits(bn_long_division(temp, 10).q, n - 1)

\* The digits of the fraction that are not the exponent's zeros, from the
\* right, in front of text.
RECURSIVE Fraction(_, _, _, _, _)
Fraction(temp, decimals, present, trailing, text) ==
    IF decimals = 0 THEN [temp |-> temp, present |-> present, text |-> text]
    ELSE LET step == bn_long_division(temp, 10)
         IN IF present \/ step.r # 0 \/ trailing
            THEN Fraction(step.q, decimals - 1, TRUE, trailing, <<step.r>> \o text)
            ELSE Fraction(step.q, IF bn_is_zero(step.q) THEN 0 ELSE decimals - 1,
                          present, trailing, text)

RECURSIVE Integer(_, _)
Integer(temp, text) ==
    LET step == bn_long_division(temp, 10)
        more == <<step.r>> \o text
    IN IF bn_is_zero(step.q) THEN more ELSE Integer(step.q, more)

\* The text, and None (an output of zeros and the length 0) when it does not
\* fit the output with its terminator.
bn_format(amount, prefix, suffix, decimals, exponent, trailing, output_length) ==
    LET temp == DropDigits(amount, IF exponent < 0 THEN -exponent ELSE 0)
        positive == IF exponent < 0 THEN 0 ELSE exponent
        trailing_zeros == IF decimals < positive THEN decimals ELSE positive
        zeros == IF trailing THEN Zeros(trailing_zeros) ELSE <<>>
        fraction == Fraction(temp, decimals - trailing_zeros, zeros # <<>>, trailing, zeros)
        point == IF fraction.present THEN <<Point>> ELSE <<>>
        shifted == IF bn_is_zero(fraction.temp) THEN <<>> ELSE Zeros(positive - trailing_zeros)
        text == prefix \o Integer(fraction.temp, shifted \o point \o fraction.text) \o suffix
    IN IF Len(text) + 1 > output_length THEN None ELSE text
=============================================================================
