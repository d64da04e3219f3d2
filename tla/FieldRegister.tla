---------------------------- MODULE FieldRegister ----------------------------
(***************************************************************************)
(* One number of the library and every sequence of calls that keeps their  *)
(* stated preconditions: the result of one is the argument of the next, as *)
(* in the curve arithmetic, where most numbers are only partly reduced.    *)
(***************************************************************************)
EXTENDS Bignum

CONSTANTS
    Prime,      \* the modulus, from 2^256 - 2^224 to 2^256 in the code
    Operand     \* bound: the second arguments

VARIABLES
    reg,    \* the number
    call    \* the call being made: its operation and second argument

vars == <<reg, call>>

p == Digit(Prime)
Top == BASE ^ LIMBS
Partly(v) == v < 2 * Prime
IsSquare(v) == \E r \in 1..(Prime - 1) : (r * r) % Prime = v % Prime

Op == {"bn_add", "bn_addi", "bn_addmod", "bn_subtract", "bn_subi", "bn_subtractmod",
       "bn_multiply", "bn_mult_k", "bn_power_mod", "bn_setbit", "bn_clearbit", "bn_xor",
       "bn_long_division", "bn_fast_mod", "bn_mod", "bn_cnegate", "bn_cnegate not",
       "bn_mult_half", "bn_divide_base", "bn_lshift", "bn_rshift", "bn_normalize",
       "bn_inverse", "bn_sqrt", "rewrite le", "rewrite be", "rewrite word"}

\* What the comment over a function assumes of its arguments.
Assumed(op, v, y) ==
    CASE op = "bn_add" -> v + y < Top
      [] op = "bn_addi" -> v + y < Top /\ y <= Single - BASE
      [] op = "bn_subtract" -> v >= y
      [] op = "bn_subi" -> y < p[1] /\ v + Prime - y < Top
      [] op = "bn_subtractmod" -> Partly(y) /\ v + 2 * Prime - y < Top
      [] op = "bn_multiply" -> Partly(v) /\ Partly(y)
      [] op = "bn_mult_k" -> y <= 2 ^ EXTRA_BITS
      [] op \in {"bn_power_mod", "bn_mod", "bn_cnegate", "bn_cnegate not"} -> Partly(v)
      [] op \in {"bn_setbit", "bn_clearbit"} -> y < LIMBS * BITS_PER_LIMB
      [] op = "bn_long_division" -> 1 <= y /\ y < BASE
      [] op = "bn_mult_half" -> v + Prime < Top
      [] op = "bn_lshift" -> v < Top \div 2
      [] op = "bn_inverse" -> v % Prime # 0
      [] op = "bn_sqrt" -> Partly(v) /\ IsSquare(v)
      [] op \in {"rewrite le", "rewrite be"} -> v < 2 ^ NUMBER_BITS
      [] op = "rewrite word" -> v < Single
      [] OTHER -> TRUE

\* The number the call leaves.
Result(op, x, y) ==
    LET o == Digit(y)
    IN CASE op = "bn_add" -> bn_add(x, o)
         [] op = "bn_addi" -> bn_addi(x, y)
         [] op = "bn_addmod" -> bn_addmod(x, o, p)
         [] op = "bn_subtract" -> bn_subtract(x, o)
         [] op = "bn_subi" -> bn_subi(x, y, p)
         [] op = "bn_subtractmod" -> bn_subtractmod(x, o, p)
         [] op = "bn_multiply" -> bn_multiply(o, x, p)
         [] op = "bn_mult_k" -> bn_mult_k(x, y, p)
         [] op = "bn_power_mod" -> bn_power_mod(x, o, p)
         [] op = "bn_setbit" -> bn_setbit(x, y)
         [] op = "bn_clearbit" -> bn_clearbit(x, y)
         [] op = "bn_xor" -> bn_xor(x, o)
         [] op = "bn_long_division" -> bn_long_division(x, y).q
         [] op = "bn_fast_mod" -> bn_fast_mod(x, p)
         [] op = "bn_mod" -> bn_mod(x, p)
         [] op = "bn_cnegate" -> bn_cnegate(TRUE, x, p)
         [] op = "bn_cnegate not" -> bn_cnegate(FALSE, x, p)
         [] op = "bn_mult_half" -> bn_mult_half(x, p)
         [] op = "bn_divide_base" -> bn_divide_base(x, p)
         [] op = "bn_lshift" -> bn_lshift(x)
         [] op = "bn_rshift" -> bn_rshift(x)
         [] op = "bn_normalize" -> bn_normalize(x)
         [] op = "bn_inverse" -> bn_inverse(x, p)
         [] op = "bn_sqrt" -> bn_sqrt(x, p)
         [] op = "rewrite le" -> bn_read_le(bn_write_le(x))
         [] op = "rewrite be" -> bn_read_be(bn_write_be(x))
         [] op = "rewrite word" -> bn_read_uint32(bn_write_uint32(x))

WithOperand == {"bn_add", "bn_addi", "bn_addmod", "bn_subtract", "bn_subi",
                "bn_subtractmod", "bn_multiply", "bn_mult_k", "bn_power_mod", "bn_setbit",
                "bn_clearbit", "bn_xor", "bn_long_division"}
NoCall == [op |-> "none", y |-> 0]

Init == reg = bn_zero /\ call = NoCall

Call(op, y) ==
    /\ call = NoCall
    /\ op \in WithOperand \/ y = 0
    /\ Assumed(op, Value(reg), y)
    /\ call' = [op |-> op, y |-> y]
    /\ UNCHANGED reg

Return ==
    /\ call # NoCall
    /\ reg' = Result(call.op, reg, call.y)
    /\ call' = NoCall

Next ==
    \/ \E op \in Op, y \in Operand \cup {0} : Call(op, y)
    \/ Return

Spec == Init /\ [][Next]_vars

-----------------------------------------------------------------------------
(* What the comments over the functions guarantee.                         *)

RECURSIVE Power(_, _)
Power(v, e) ==
    IF e = 0 THEN 1
    ELSE LET half == Power(v, e \div 2)
         IN (((half * half) % Prime) * (IF e % 2 = 1 THEN v ELSE 1)) % Prime

Bit(v, i) == (v \div 2 ^ i) % 2

BitsOf(v) == IF v = 0 THEN 0 ELSE CHOOSE n \in 1..(LIMBS * WORD) : v \in 2 ^ (n - 1)..(2 ^ n - 1)

\* For bn_cnegate of the modulus itself the comment's two values are exchanged:
\* it gives 2 * prime - x, which is prime, and x + prime, which is 2 * prime,
\* while the code, which takes x to 0 first, leaves 2 * prime and prime. Both
\* are the residue 0; no more than that is asserted.
Guaranteed(op, v, y, r) ==
    CASE op = "bn_add" -> r = v + y
      [] op = "bn_addi" -> r = v + y
      [] op = "bn_addmod" -> r % Prime = (v + y) % Prime /\ Partly(r)
      [] op = "bn_subtract" -> r = v - y
      [] op = "bn_subi" -> r = v + Prime - y
      [] op = "bn_subtractmod" -> r = v + 2 * Prime - y
      [] op = "bn_multiply" -> r % Prime = (v * y) % Prime /\ Partly(r)
      [] op = "bn_mult_k" -> r % Prime = (v * y) % Prime /\ Partly(r)
      [] op = "bn_power_mod" -> r % Prime = Power(v % Prime, y) /\ Partly(r)
      [] op = "bn_setbit" -> r = v + 2 ^ y * (1 - Bit(v, y))
      [] op = "bn_clearbit" -> r = v - 2 ^ y * Bit(v, y)
      [] op = "bn_xor" -> \A i \in 0..(LIMBS * BITS_PER_LIMB - 1) :
                             Bit(r, i) = (Bit(v, i) + Bit(y, i)) % 2
      [] op = "bn_long_division" -> r = v \div y
      [] op = "bn_fast_mod" -> r % Prime = v % Prime /\ Partly(r)
      [] op = "bn_mod" -> r = v % Prime
      [] op = "bn_cnegate" -> IF v = Prime THEN r \in {Prime, 2 * Prime}
                              ELSE r = IF v > Prime THEN 3 * Prime - v ELSE 2 * Prime - v
      [] op = "bn_cnegate not" -> IF v = Prime THEN r \in {Prime, 2 * Prime}
                                  ELSE r = IF v > Prime THEN v ELSE v + Prime
      [] op = "bn_mult_half" -> /\ (2 * r) % Prime = v % Prime
                                /\ Partly(v) => Partly(r)
                                /\ v < Prime => r < Prime
      [] op = "bn_divide_base" -> /\ (BASE * r) % Prime = v % Prime
                                  /\ Partly(v) => Partly(r)
                                  /\ v < Prime => r < Prime
      [] op = "bn_lshift" -> r = 2 * v
      [] op = "bn_rshift" -> r = v \div 2
      [] op = "bn_inverse" -> (r * v) % Prime = 1 /\ r < Prime
      [] op = "bn_sqrt" -> (r * r) % Prime = v % Prime /\ r < Prime
      [] OTHER -> r = v

\* Along every sequence of legal calls the number stays normalized, and each
\* call makes of it what the comment over its function guarantees: the exact
\* value, or the residue and how far it is reduced, on which the
\* precondition of the next call rests. Its bits are counted as they are.
FieldOpsExact ==
    call # NoCall =>
        /\ IsNormalized(reg')
        /\ Guaranteed(call.op, Value(reg), call.y, Value(reg'))
        /\ bn_bitcount(reg') = BitsOf(Value(reg'))
=============================================================================
