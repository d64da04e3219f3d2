------------------------------- MODULE Keccak -------------------------------
(***************************************************************************)
(* The permutation of sha3.c, one round a step, over 25 lanes of LANE bits *)
(* where the code has 64: a rotation by n is one by n modulo LANE, and a   *)
(* round constant its lowest LANE bits. Beside the lanes of the code runs  *)
(* the permutation as FIPS 202 defines it, by coordinates.                 *)
(***************************************************************************)
EXTENDS Integers, Sequences, Bitwise

CONSTANTS
    LANE,                   \* bits of a lane
    keccak_round_constants, \* one a round
    Absorbed                \* bound: the blocks, each of 9, 13, 17 or 18 lanes

VARIABLES
    lanes,      \* the state of the code, 0..24
    standard,   \* the state of the definition
    blocks,     \* how many blocks have been taken
    round       \* rounds done since the last block

vars == <<lanes, standard, blocks, round>>

ROTL(x, n) ==
    ((x * 2 ^ (n % LANE)) % 2 ^ LANE) + (x \div 2 ^ (LANE - (n % LANE)))
Complement(x) == (2 ^ LANE - 1) - x

-----------------------------------------------------------------------------
(* The code.                                                               *)

keccak_theta(A) ==
    LET C == [x \in 0..4 |-> (((A[x] ^^ A[x + 5]) ^^ A[x + 10]) ^^ A[x + 15]) ^^ A[x + 20]]
        Delta == [x \in 0..4 |-> ROTL(C[(x + 1) % 5], 1) ^^ C[(x + 4) % 5]]
    IN [i \in 0..24 |-> A[i] ^^ Delta[i % 5]]

Rotations == <<1, 62, 28, 27, 36, 44, 6, 55, 20, 3, 10, 43, 25, 39, 41, 45, 15,
               21, 8, 18, 2, 61, 56, 14>>
keccak_rho(A) ==
    [i \in 0..24 |-> IF i = 0 THEN A[0] ELSE ROTL(A[i], Rotations[i])]

\* Each lane of the walk takes the next one, and the last takes the first.
Walk == <<1, 6, 9, 22, 14, 20, 2, 12, 13, 19, 23, 15, 4, 24, 21, 8, 16, 5, 3,
          18, 17, 11, 7, 10>>
keccak_pi(A) ==
    [i \in 0..24 |-> IF i = 0 THEN A[0]
                     ELSE LET at == CHOOSE k \in 1..24 : Walk[k] = i
                          IN A[Walk[(at % 24) + 1]]]

keccak_chi(A) ==
    [i \in 0..24 |->
        LET Row(x) == A[(i - (i % 5)) + (x % 5)]
        IN A[i] ^^ (Complement(Row(i + 1)) & Row(i + 2))]

\* The block is added to the first lanes, as many as the rate has.
sha3_process_block(hash, block) ==
    [i \in 0..24 |-> IF i < Len(block) THEN hash[i] ^^ block[i + 1] ELSE hash[i]]

-----------------------------------------------------------------------------
(* The definition: lane (x, y) is number x + 5y, and rotation offsets are  *)
(* those of a walk over the coordinates.                                   *)

RECURSIVE OffsetFrom(_, _, _)
OffsetFrom(xy, at, t) ==
    IF at = xy THEN ((t + 1) * (t + 2)) \div 2
    ELSE OffsetFrom(xy, <<at[2], (2 * at[1] + 3 * at[2]) % 5>>, t + 1)
Offsets ==
    [i \in 0..24 |-> IF i = 0 THEN 0 ELSE OffsetFrom(<<i % 5, i \div 5>>, <<1, 0>>, 0)]

Standard(A, constant) ==
    LET L(x, y) == A[(x % 5) + 5 * (y % 5)]
        P(x) == (((L(x, 0) ^^ L(x, 1)) ^^ L(x, 2)) ^^ L(x, 3)) ^^ L(x, 4)
        T(i) == A[i] ^^ (P(i + 4) ^^ ROTL(P(i + 1), 1))
        B(x, y) == LET from == (((x % 5) + 3 * y) % 5) + 5 * (x % 5)
                   IN ROTL(T(from), Offsets[from])
        Chi(x, y) == B(x, y) ^^ (Complement(B(x + 1, y)) & B(x + 2, y))
    IN [i \in 0..24 |-> IF i = 0 THEN Chi(0, 0) ^^ constant ELSE Chi(i % 5, i \div 5)]

-----------------------------------------------------------------------------
Init ==
    /\ lanes = [i \in 0..24 |-> 0]
    /\ standard = lanes
    /\ blocks = 0
    /\ round = Len(keccak_round_constants)

Absorb ==
    /\ round = Len(keccak_round_constants)
    /\ \E block \in Absorbed :
          /\ lanes' = sha3_process_block(lanes, block)
          /\ standard' = lanes'
    /\ blocks < 2
    /\ blocks' = blocks + 1
    /\ round' = 0

\* One turn of the loop of sha3_permutation.
sha3_permutation ==
    /\ round < Len(keccak_round_constants)
    /\ round' = round + 1
    /\ lanes' = [keccak_chi(keccak_pi(keccak_rho(keccak_theta(lanes))))
                    EXCEPT ![0] = @ ^^ keccak_round_constants[round + 1]]
    /\ standard' = Standard(standard, keccak_round_constants[round + 1])
    /\ UNCHANGED blocks

Next == Absorb \/ sha3_permutation

Spec == Init /\ [][Next]_vars

\* The in-place transformations of the code, with their chain of twenty-four
\* moves and their table of rotations, are the standard's permutation.
PermutationIsStandard == lanes = standard
=============================================================================
