------------------------------ MODULE MCMnemonic ------------------------------
(***************************************************************************)
(* A list of siblings, words of three and of four letters, and accented    *)
(* ones. The packing only moves bits, so every single bit of 16 bytes is    *)
(* tried on its own; of the longer seeds the bits at the ends and all ones.  *)
(***************************************************************************)
EXTENDS Mnemonic

Zeros(n) == [j \in 0..(n - 1) |-> {}]
Ones(n) == [j \in 0..(n - 1) |-> 0..7]
OneBit(n, k) == [Zeros(n) EXCEPT ![k \div 8] = {7 - (k % 8)}]

MCEntropy ==
    {Zeros(n) : n \in {3, 6, 9}}
    \cup {Zeros(n) : n \in {16, 20, 24, 28, 32}} \cup {Ones(n) : n \in {16, 20, 24, 28, 32}}
    \cup {OneBit(16, k) : k \in 0..127}
    \cup {OneBit(n, 8 * n - 1) : n \in {20, 24, 28, 32}}

MCSiblings == {{{3}, {5}}, {{0, 1}, {4, 9}, {2}}}
MCShort == {{7}}
MCFour == {{1}, {6}}
MCAccented == {{7}, {6}, {8}}
MCByte == {{}, 0..7}
===============================================================================
