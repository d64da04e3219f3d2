--------------------------- MODULE MnemonicProofs ---------------------------
(***************************************************************************)
(* Proofs about Mnemonic, for every list of words with any siblings, every *)
(* entropy of the lengths the generator returns, and whatever the user     *)
(* types. Reading and writing eleven bits at a time is the work: both are  *)
(* compared bit by bit with the positions of BIP39, and the loop that      *)
(* writes them with a function built round by round.                       *)
(***************************************************************************)
EXTENDS Mnemonic, FiniteSetTheorems, SequenceTheorems, TLAPS

-----------------------------------------------------------------------------
(***************************************************************************)
(* Bits and bytes.                                                         *)
(***************************************************************************)
LEMMA SizeOfBytes ==
    ASSUME NEW n \in Nat, NEW bytes, DOMAIN bytes = 0..(n - 1)
    PROVE  Size(bytes) = n
<1>1. Cardinality(0..(n - 1)) = IF 0 > n - 1 THEN 0 ELSE (n - 1) - 0 + 1
  BY FS_Interval
<1> QED
  BY <1>1 DEF Size

\* The place of a bit in its byte
LEMMA PlaceOfBit ==
    ASSUME NEW k \in Nat
    PROVE  k \div 8 \in Nat /\ k % 8 \in 0..7 /\ k = 8 * (k \div 8) + (k % 8)
  OBVIOUS

LEMMA PlaceOfWordBit ==
    ASSUME NEW k \in Nat
    PROVE  k \div 11 \in Nat /\ k % 11 \in 0..10 /\ k = 11 * (k \div 11) + (k % 11)
  OBVIOUS

LEMMA BitOfByte ==
    ASSUME NEW bytes, NEW j \in Nat, NEW q \in 0..7
    PROVE  BitOfBytes(bytes, 8 * j + q) <=> 7 - q \in bytes[j]
<1>1. (8 * j + q) \div 8 = j /\ (8 * j + q) % 8 = q
  OBVIOUS
<1> QED
  BY <1>1 DEF BitOfBytes

LEMMA BitOfWord ==
    ASSUME NEW words, NEW j \in Nat, NEW q \in 0..10
    PROVE  BitOfWords(words, 11 * j + q) <=> 10 - q \in words[j + 1]
<1>1. (11 * j + q) \div 11 = j /\ (11 * j + q) % 11 = q
  OBVIOUS
<1> QED
  BY <1>1 DEF BitOfWords

LEMMA ShiftedBit ==
    ASSUME NEW bits, bits \subseteq Int, NEW i \in Int, NEW x \in 0..31
    PROVE  x \in Shift(bits, i) <=> x - i \in bits
  BY DEF Shift, Int32

\* next11Bits reads the eleven bits from the offset on, the highest first.
LEMMA ReadNext ==
    ASSUME NEW n \in Nat, NEW bytes \in Bytes(n), NEW o \in Nat, o + 11 <= 8 * n,
           NEW b \in 0..10
    PROVE  b \in next11Bits(bytes, o) <=> BitOfBytes(bytes, o + 10 - b)
<1>1. PICK s \in Nat, r \in 0..7 : s = o \div 8 /\ r = o % 8 /\ o = 8 * s + r
  BY PlaceOfBit
<1>2. \A j \in 0..(n - 1) : bytes[j] \subseteq 0..7
  BY DEF Bytes
<1>3. s \in 0..(n - 1) /\ s + 1 \in 0..(n - 1) /\ (r > 5 => s + 2 \in 0..(n - 1))
  BY <1>1
<1> DEFINE third == IF 13 - r < 8 THEN bytes[s + 2] ELSE {}
           raw == Shift(bytes[s], 16) \cup Shift(bytes[s + 1], 8) \cup third
           c == b + (13 - r)
<1>4. next11Bits(bytes, o) = Shift(raw, -(13 - r)) \cap 0..10
  BY <1>1 DEF next11Bits, ReadBits
<1>5. c \in 6..23 /\ c \in 0..31 /\ o + 10 - b = 8 * s + (23 - c)
  BY <1>1
<1>6. raw \subseteq Int
  BY <1>2, <1>3 DEF Shift, Int32
<1>7. b \in next11Bits(bytes, o) <=> c \in raw
  <2>1. b \in Shift(raw, -(13 - r)) <=> b - (-(13 - r)) \in raw
    <3>1. -(13 - r) \in Int /\ b \in 0..31
      OBVIOUS
    <3> HIDE DEF raw
    <3> QED
      BY <1>6, <3>1, ShiftedBit
  <2>2. b - (-(13 - r)) = c
    OBVIOUS
  <2> HIDE DEF c, raw
  <2> QED
    BY <1>4, <2>1, <2>2
<1>8. c \in raw <=> c - 16 \in bytes[s] \/ c - 8 \in bytes[s + 1] \/ c \in third
  <2>1. c \in Shift(bytes[s], 16) <=> c - 16 \in bytes[s]
    BY <1>2, <1>3, <1>5, ShiftedBit
  <2>2. c \in Shift(bytes[s + 1], 8) <=> c - 8 \in bytes[s + 1]
    BY <1>2, <1>3, <1>5, ShiftedBit
  <2> QED
    BY <2>1, <2>2
<1>9. third \subseteq 0..7
  BY <1>2, <1>3
<1> HIDE DEF raw
<1>10. CASE c >= 16
  <2>1. c \in raw <=> c - 16 \in bytes[s]
    BY <1>2, <1>3, <1>5, <1>8, <1>9, <1>10
  <2>2. BitOfBytes(bytes, 8 * s + (23 - c)) <=> 7 - (23 - c) \in bytes[s]
    BY <1>5, <1>10, BitOfByte
  <2> QED
    BY <1>5, <1>7, <2>1, <2>2
<1>11. CASE c >= 8 /\ c < 16
  <2>1. c \in raw <=> c - 8 \in bytes[s + 1]
    BY <1>2, <1>3, <1>5, <1>8, <1>9, <1>11
  <2>2. BitOfBytes(bytes, 8 * (s + 1) + (15 - c)) <=> 7 - (15 - c) \in bytes[s + 1]
    BY <1>5, <1>11, BitOfByte
  <2> QED
    BY <1>5, <1>7, <2>1, <2>2
<1>12. CASE c < 8
  <2>1. 13 - r < 8
    BY <1>12
  <2>2. c \in raw <=> c \in bytes[s + 2]
    BY <1>2, <1>3, <1>5, <1>8, <1>12, <2>1
  <2>3. BitOfBytes(bytes, 8 * (s + 2) + (7 - c)) <=> 7 - (7 - c) \in bytes[s + 2]
    BY <1>5, <1>12, BitOfByte
  <2> QED
    BY <1>5, <1>7, <2>2, <2>3
<1> QED
  BY <1>5, <1>10, <1>11, <1>12

\* writeNext11 adds the bits of the value from the offset on, and no other.
LEMMA WriteNext ==
    ASSUME NEW n \in Nat, NEW bytes \in Bytes(n), NEW value \in Word, NEW o \in Nat,
           o + 11 <= 8 * n
    PROVE  /\ writeNext11(bytes, value, o) \in Bytes(n)
           /\ \A k \in 0..(8 * n - 1) :
                BitOfBytes(writeNext11(bytes, value, o), k)
                  <=> \/ BitOfBytes(bytes, k)
                      \/ k \in o..(o + 10) /\ 10 - (k - o) \in value
<1>1. PICK s \in Nat, r \in 0..7 : s = o \div 8 /\ r = o % 8 /\ o = 8 * s + r
  BY PlaceOfBit
<1> DEFINE Part(j) == CASE j = s -> toByte(Shift(value, -(3 + r)))
                        [] j = s + 1 -> toByte(Shift(value, 5 - r))
                        [] j = s + 2 /\ r >= 6 -> toByte(Shift(value, 13 - r))
                        [] OTHER -> {}
           after == writeNext11(bytes, value, o)
<1>2. value \subseteq 0..10 /\ value \subseteq Int
  BY DEF Word
<1>3. DOMAIN bytes = 0..(n - 1) /\ \A j \in 0..(n - 1) : bytes[j] \subseteq 0..7
  BY DEF Bytes
<1>4. after = [j \in 0..(n - 1) |-> bytes[j] \cup Part(j)]
  BY <1>1, <1>3 DEF writeNext11, Write
<1>5. ASSUME NEW j \in 0..(n - 1), NEW q \in 0..7
      PROVE  7 - q \in Part(j) <=> 8 * j + q \in o..(o + 10) /\ 10 - ((8 * j + q) - o) \in value
  <2> DEFINE x == 7 - q
  <2>0. x \in 0..7 /\ x \in 0..31
    OBVIOUS
  <2>1. CASE j = s
    <3> DEFINE d == -(3 + r)
    <3>1. Part(j) = toByte(Shift(value, d))
      <4>1. j # s + 1 /\ j # s + 2
        BY <1>1, <2>1
      <4> QED
        BY <4>1, <2>1, Zenon
    <3>2. d \in Int /\ x - d = 10 - ((8 * j + q) - o)
      BY <1>1, <2>1
    <3> HIDE DEF d, Part, x
    <3>3. x \in Part(j) <=> x - d \in value
      BY <1>2, <2>0, <3>1, <3>2, ShiftedBit DEF toByte
    <3>4. x - d \in value => 8 * j + q \in o..(o + 10)
      BY <1>2, <3>2
    <3> QED
      BY <3>2, <3>3, <3>4 DEF x
  <2>2. CASE j = s + 1
    <3> DEFINE d == 5 - r
    <3>1. Part(j) = toByte(Shift(value, d))
      <4>1. j # s /\ j # s + 2
        BY <1>1, <2>2
      <4> QED
        BY <4>1, <2>2, Zenon
    <3>2. d \in Int /\ x - d = 10 - ((8 * j + q) - o)
      BY <1>1, <2>2
    <3> HIDE DEF d, Part, x
    <3>3. x \in Part(j) <=> x - d \in value
      BY <1>2, <2>0, <3>1, <3>2, ShiftedBit DEF toByte
    <3>4. x - d \in value => 8 * j + q \in o..(o + 10)
      BY <1>2, <3>2
    <3> QED
      BY <3>2, <3>3, <3>4 DEF x
  <2>3. CASE j = s + 2 /\ r >= 6
    <3> DEFINE d == 13 - r
    <3>1. Part(j) = toByte(Shift(value, d))
      <4>1. j # s /\ j # s + 1
        BY <1>1, <2>3
      <4> QED
        BY <4>1, <2>3, Zenon
    <3>2. d \in Int /\ x - d = 10 - ((8 * j + q) - o)
      BY <1>1, <2>3
    <3> HIDE DEF d, Part, x
    <3>3. x \in Part(j) <=> x - d \in value
      BY <1>2, <2>0, <3>1, <3>2, ShiftedBit DEF toByte
    <3>4. x - d \in value => 8 * j + q \in o..(o + 10)
      BY <1>2, <3>2
    <3> QED
      BY <3>2, <3>3, <3>4 DEF x
  <2>4. CASE j # s /\ j # s + 1 /\ ~(j = s + 2 /\ r >= 6)
    <3>1. Part(j) = {}
      BY <2>4
    <3>2. 8 * j + q \notin o..(o + 10)
      BY <1>1, <2>4
    <3> QED
      BY <3>1, <3>2
  <2> QED
    BY <2>1, <2>2, <2>3, <2>4
<1>6. \A j \in 0..(n - 1) : Part(j) \subseteq 0..7
  BY DEF toByte
<1>7. after \in Bytes(n)
  <2> HIDE DEF Part, after
  <2> QED
    BY <1>3, <1>4, <1>6 DEF Bytes
<1>8. ASSUME NEW k \in 0..(8 * n - 1)
      PROVE  BitOfBytes(after, k) <=> \/ BitOfBytes(bytes, k)
                                      \/ k \in o..(o + 10) /\ 10 - (k - o) \in value
  <2>1. PICK j \in Nat, q \in 0..7 : k = 8 * j + q
    <3>1. k \in Nat
      OBVIOUS
    <3> QED
      BY <3>1, PlaceOfBit
  <2>2. j \in 0..(n - 1)
    BY <2>1
  <2>3. 7 - q \in after[j] <=> 7 - q \in bytes[j] \/ 7 - q \in Part(j)
    <3> HIDE DEF Part, after
    <3> QED
      BY <1>4, <2>2
  <2>4. /\ BitOfBytes(after, k) <=> 7 - q \in after[j]
        /\ BitOfBytes(bytes, k) <=> 7 - q \in bytes[j]
    BY <2>1, BitOfByte
  <2> HIDE DEF Part, after
  <2> QED
    BY <1>5, <2>1, <2>2, <2>3, <2>4
<1> QED
  BY <1>7, <1>8

-----------------------------------------------------------------------------
(***************************************************************************)
(* The bytes that words are written into. Induction over the rounds of the *)
(* loop is by a least counterexample.                                      *)
(***************************************************************************)
\* A non-empty set of natural numbers has a least one.
LEMMA LeastOf ==
    ASSUME NEW B, B \subseteq Nat, B # {}
    PROVE  \E n \in B : \A m \in B : n <= m
<1>1. PICK n \in B : \A m \in B : <<m, n>> \notin OpToRel(<, Nat)
  BY NatLessThanWellFounded, WFMin
<1>2. \A m \in B : ~(m < n)
  BY <1>1 DEF OpToRel
<1> QED
  BY <1>2

BytesFor(words) == (11 * Len(words) + 7) \div 8

\* What round i leaves, when h is what the rounds before it left
Round(h, words, i) ==
    IF i = 0 THEN [j \in 0..(BytesFor(words) - 1) |-> {}]
    ELSE writeNext11(h[i - 1], words[i], 11 * (i - 1))

\* g is what the loop over the words leaves round by round.
WrittenBy(g, words) == g = [i \in 0..Len(words) |-> Round(g, words, i)]

LEMMA WrittenIsChosen ==
    ASSUME NEW words
    PROVE  wordIndexesToEntropyWithCheckSum(words) = (CHOOSE g : WrittenBy(g, words))[Len(words)]
  BY DEF wordIndexesToEntropyWithCheckSum, WrittenBy, Round, BytesFor

\* Such a function exists: it is built up to round m.
LEMMA WrittenExists ==
    ASSUME NEW words, Len(words) \in Nat
    PROVE  \E g : WrittenBy(g, words)
<1> DEFINE Upto(g, m) == g = [i \in 0..m |-> Round(g, words, i)]
           Bad == {m \in Nat : ~\E g : Upto(g, m)}
<1>1. \A h, g, i : h[i - 1] = g[i - 1] => Round(h, words, i) = Round(g, words, i)
  BY DEF Round
<1>2. ASSUME NEW m \in Nat, NEW h, Upto(h, m) PROVE \E g : Upto(g, m + 1)
  <2> DEFINE g == [i \in 0..(m + 1) |-> Round(h, words, i)]
  <2>1. \A i \in 0..m : g[i] = h[i]
    <3>1. \A i \in 0..m : h[i] = Round(h, words, i)
      BY <1>2
    <3> QED
      BY <3>1
  <2>2. \A i \in 0..(m + 1) : Round(h, words, i) = Round(g, words, i)
    <3> SUFFICES ASSUME NEW i \in 0..(m + 1) PROVE Round(h, words, i) = Round(g, words, i)
      OBVIOUS
    <3>1. CASE i = 0
      BY <3>1 DEF Round
    <3>2. CASE i # 0
      <4>1. i - 1 \in 0..m
        BY <3>2
      <4> HIDE DEF g
      <4> QED
        BY <1>1, <2>1, <4>1
    <3> QED
      BY <3>1, <3>2
  <2>3. g = [i \in 0..(m + 1) |-> Round(h, words, i)]
    OBVIOUS
  <2>4. Upto(g, m + 1)
    <3> HIDE DEF g
    <3> QED
      BY <2>2, <2>3
  <2> HIDE DEF g, Upto
  <2> QED
    BY <2>4
<1>3. \E g : Upto(g, 0)
  <2> DEFINE g == [i \in 0..0 |-> Round(0, words, i)]
  <2>1. \A i \in 0..0 : Round(0, words, i) = Round(g, words, i)
    BY DEF Round
  <2>2. g = [i \in 0..0 |-> Round(0, words, i)]
    OBVIOUS
  <2>3. Upto(g, 0)
    <3> HIDE DEF g
    <3> QED
      BY <2>1, <2>2
  <2> HIDE DEF g, Upto
  <2> QED
    BY <2>3
<1>4. Bad = {}
  <2> SUFFICES ASSUME Bad # {} PROVE FALSE
    OBVIOUS
  <2> HIDE DEF Upto
  <2>1. PICK n \in Bad : \A m \in Bad : n <= m
    BY LeastOf
  <2>2. n \in Nat /\ n # 0
    BY <1>3
  <2>3. n - 1 \in Nat /\ n - 1 \notin Bad
    BY <2>1, <2>2
  <2>4. PICK h : Upto(h, n - 1)
    BY <2>3
  <2>5. \E g : Upto(g, (n - 1) + 1)
    BY <1>2, <2>3, <2>4
  <2> QED
    BY <2>2, <2>5
<1>5. PICK g : Upto(g, Len(words))
  BY <1>4
<1> QED
  BY <1>5 DEF WrittenBy

\* The loop writes every bit of the words, in their order, and no other bit.
LEMMA Packed ==
    ASSUME NEW words \in Seq(Word)
    PROVE  LET bytes == wordIndexesToEntropyWithCheckSum(words)
           IN  /\ BytesFor(words) \in Nat
               /\ 11 * Len(words) <= 8 * BytesFor(words)
               /\ 8 * BytesFor(words) <= 11 * Len(words) + 7
               /\ bytes \in Bytes(BytesFor(words))
               /\ \A k \in 0..(8 * BytesFor(words) - 1) :
                    BitOfBytes(bytes, k) <=> k < 11 * Len(words) /\ BitOfWords(words, k)
<1> DEFINE N == Len(words)
           L == BytesFor(words)
           g == CHOOSE h : WrittenBy(h, words)
           Good(i) == /\ g[i] \in Bytes(L)
                      /\ \A k \in 0..(8 * L - 1) :
                           BitOfBytes(g[i], k) <=> k < 11 * i /\ BitOfWords(words, k)
           Bad == {i \in 0..N : ~Good(i)}
<1>1. N \in Nat /\ \A i \in 1..N : words[i] \in Word
  OBVIOUS
<1>2. L \in Nat /\ 11 * N <= 8 * L /\ 8 * L <= 11 * N + 7
  BY <1>1 DEF BytesFor
<1>3. WrittenBy(g, words)
  BY <1>1, WrittenExists
<1>4. g[0] = [j \in 0..(L - 1) |-> {}] /\ \A i \in 1..N : g[i] = writeNext11(g[i - 1], words[i], 11 * (i - 1))
  <2> HIDE DEF g, L
  <2>1. \A i \in 0..N : g[i] = Round(g, words, i)
    BY <1>3 DEF WrittenBy
  <2>2. g[0] = Round(g, words, 0)
    BY <1>1, <2>1
  <2>3. g[0] = [j \in 0..(L - 1) |-> {}]
    BY <2>2 DEF Round, L
  <2>4. \A i \in 1..N : i \in 0..N /\ i # 0
    BY <1>1
  <2>5. \A i \in 1..N : g[i] = writeNext11(g[i - 1], words[i], 11 * (i - 1))
    BY <2>1, <2>4 DEF Round
  <2> QED
    BY <2>3, <2>5
<1> HIDE DEF g, L
<1>5. Good(0)
  <2>1. g[0] \in Bytes(L)
    BY <1>4 DEF Bytes
  <2>2. ASSUME NEW k \in 0..(8 * L - 1) PROVE ~BitOfBytes(g[0], k)
    <3>1. k \div 8 \in 0..(L - 1)
      BY <1>2
    <3> QED
      BY <1>4, <3>1 DEF BitOfBytes
  <2> QED
    BY <2>1, <2>2
<1>6. ASSUME NEW i \in 1..N, Good(i - 1) PROVE Good(i)
  <2> DEFINE o == 11 * (i - 1)
  <2>1. o \in Nat /\ o + 11 <= 8 * L /\ o + 11 = 11 * i /\ words[i] \in Word
    BY <1>1, <1>2
  <2>2. /\ writeNext11(g[i - 1], words[i], o) \in Bytes(L)
        /\ \A k \in 0..(8 * L - 1) :
             BitOfBytes(writeNext11(g[i - 1], words[i], o), k)
               <=> \/ BitOfBytes(g[i - 1], k)
                   \/ k \in o..(o + 10) /\ 10 - (k - o) \in words[i]
    <3> HIDE DEF o
    <3> QED
      BY <1>2, <1>6, <2>1, WriteNext
  <2>3. g[i] = writeNext11(g[i - 1], words[i], o)
    BY <1>4
  <2>4. ASSUME NEW k \in 0..(8 * L - 1)
        PROVE  BitOfBytes(g[i], k) <=> k < 11 * i /\ BitOfWords(words, k)
    <3>1. BitOfBytes(g[i - 1], k) <=> k < o /\ BitOfWords(words, k)
      BY <1>6
    <3>2. k \in o..(o + 10) => (BitOfWords(words, k) <=> 10 - (k - o) \in words[i])
      <4> SUFFICES ASSUME k \in o..(o + 10)
                   PROVE  BitOfWords(words, k) <=> 10 - (k - o) \in words[i]
        OBVIOUS
      <4>1. k - o \in 0..10 /\ k = 11 * (i - 1) + (k - o) /\ i - 1 \in Nat /\ (i - 1) + 1 = i
        BY <2>1
      <4> HIDE DEF o
      <4> QED
        BY <4>1, BitOfWord
    <3>3. k < 11 * i <=> k < o \/ k \in o..(o + 10)
      BY <1>2, <2>1
    <3> HIDE DEF o
    <3> QED
      BY <2>2, <2>3, <3>1, <3>2, <3>3
  <2> QED
    BY <2>2, <2>3, <2>4
<1>7. Bad = {}
  <2> SUFFICES ASSUME Bad # {} PROVE FALSE
    OBVIOUS
  <2> HIDE DEF Good
  <2>1. PICK i \in Bad : \A m \in Bad : i <= m
    <3>1. Bad \subseteq Nat
      BY <1>1
    <3> HIDE DEF Bad
    <3> QED
      BY <3>1, LeastOf
  <2>2. i \in 1..N
    BY <1>1, <1>5
  <2>3. i - 1 \in 0..N /\ i - 1 \notin Bad
    BY <1>1, <2>1, <2>2
  <2> QED
    BY <1>6, <2>2, <2>3
<1>8. Good(N)
  BY <1>1, <1>7
<1>9. wordIndexesToEntropyWithCheckSum(words) = g[N]
  BY WrittenIsChosen DEF g
<1> QED
  BY <1>2, <1>8, <1>9 DEF L

-----------------------------------------------------------------------------
(***************************************************************************)
(* The words of an entropy, and the bytes of words.                        *)
(***************************************************************************)
\* Strings of bytes with the same bits are the same.
LEMMA SameBits ==
    ASSUME NEW n \in Nat, NEW a \in Bytes(n), NEW b \in Bytes(n),
           \A k \in 0..(8 * n - 1) : BitOfBytes(a, k) <=> BitOfBytes(b, k)
    PROVE  a = b
<1>1. ASSUME NEW j \in 0..(n - 1) PROVE a[j] = b[j]
  <2>1. a[j] \subseteq 0..7 /\ b[j] \subseteq 0..7
    BY DEF Bytes
  <2>2. ASSUME NEW x \in 0..7 PROVE x \in a[j] <=> x \in b[j]
    <3>1. j \in Nat /\ 7 - x \in 0..7 /\ 7 - (7 - x) = x /\ 8 * j + (7 - x) \in 0..(8 * n - 1)
      OBVIOUS
    <3>2. /\ BitOfBytes(a, 8 * j + (7 - x)) <=> 7 - (7 - x) \in a[j]
          /\ BitOfBytes(b, 8 * j + (7 - x)) <=> 7 - (7 - x) \in b[j]
      BY <3>1, BitOfByte
    <3> QED
      BY <3>1, <3>2
  <2> QED
    BY <2>1, <2>2
<1> QED
  BY <1>1 DEF Bytes

\* The entropy and the checksum after it, byte by byte.
LEMMA Checksummed ==
    ASSUME NEW n \in Nat, NEW e \in Bytes(n), NEW b \in SUBSET (0..7)
    PROVE  /\ Size(e) = n
           /\ WithChecksum(e, b) \in Bytes(n + 1)
           /\ \A j \in 0..(n - 1) : WithChecksum(e, b)[j] = e[j]
           /\ WithChecksum(e, b)[n] = b
<1>1. Size(e) = n
  BY SizeOfBytes DEF Bytes
<1>2. WithChecksum(e, b) = [j \in 0..n |-> IF j = n THEN b ELSE e[j]]
  BY <1>1 DEF WithChecksum
<1>3. \A j \in 0..(n - 1) : e[j] \in SUBSET (0..7) /\ j # n /\ j \in 0..n
  BY DEF Bytes
<1>4. \A j \in 0..n : j = n \/ j \in 0..(n - 1)
  OBVIOUS
<1>5. WithChecksum(e, b) \in [0..n -> SUBSET (0..7)]
  BY <1>2, <1>3, <1>4
<1>6. WithChecksum(e, b) \in Bytes(n + 1)
  BY <1>5 DEF Bytes
<1> QED
  BY <1>1, <1>2, <1>3, <1>6

\* A phrase has three words to every four bytes of its entropy, and their bits
\* are those of the entropy and of the checksum after it.
LEMMA WordsOfEntropy ==
    ASSUME NEW e \in Entropy, NEW b \in Byte, wordIndexes(e, b) # EntropyTooLow
    PROVE  \E c \in 4..8 :
             /\ e \in Bytes(4 * c)
             /\ wordIndexes(e, b) \in Seq(Word)
             /\ Len(wordIndexes(e, b)) = 3 * c
             /\ \A k \in 0..(33 * c - 1) :
                  BitOfWords(wordIndexes(e, b), k) <=> BitOfBytes(WithChecksum(e, b), k)
<1>1. PICK n \in {3, 6, 9, 16, 20, 24, 28, 32} : e \in Bytes(n)
  BY EntropyAssumption
<1>2. n \in Nat /\ b \in SUBSET (0..7)
  BY EntropyAssumption
<1>3. Size(e) = n
  BY <1>1, <1>2, Checksummed
<1>4. ~(8 * n < 128)
  BY <1>3 DEF wordIndexes
<1>5. PICK c \in 4..8 : n = 4 * c
  <2>1. n = 16 \/ n = 20 \/ n = 24 \/ n = 28 \/ n = 32
    BY <1>4
  <2>2. 4 \in 4..8 /\ 5 \in 4..8 /\ 6 \in 4..8 /\ 7 \in 4..8 /\ 8 \in 4..8
    OBVIOUS
  <2>3. 16 = 4 * 4 /\ 20 = 4 * 5 /\ 24 = 4 * 6 /\ 28 = 4 * 7 /\ 32 = 4 * 8
    OBVIOUS
  <2> QED
    BY <2>1, <2>2, <2>3
<1>6. mnemonicLength(8 * n) = 3 * c
  BY <1>5 DEF mnemonicLength
<1> DEFINE W == WithChecksum(e, b)
           p == wordIndexes(e, b)
<1>7. p = [k \in 1..(3 * c) |-> next11Bits(W, 11 * (k - 1))]
  BY <1>3, <1>4, <1>6 DEF wordIndexes
<1>8. \A o : next11Bits(W, o) \in Word
  BY DEF next11Bits, Word
<1>9. W \in Bytes(n + 1)
  BY <1>1, <1>2, Checksummed
<1>10. p \in Seq(Word) /\ Len(p) = 3 * c
  <2> HIDE DEF W, p
  <2> QED
    BY <1>5, <1>7, <1>8
<1>11. ASSUME NEW k \in 0..(33 * c - 1)
       PROVE  BitOfWords(p, k) <=> BitOfBytes(W, k)
  <2>1. PICK j \in Nat, q \in 0..10 : k = 11 * j + q
    <3>1. k \in Nat
      OBVIOUS
    <3> QED
      BY <3>1, PlaceOfWordBit
  <2>2. j + 1 \in 1..(3 * c) /\ (j + 1) - 1 = j
    BY <1>5, <2>1
  <2>3. p[j + 1] = next11Bits(W, 11 * j)
    BY <1>7, <2>2
  <2>4. 10 - q \in 0..10 /\ 11 * j \in Nat /\ 11 * j + 11 <= 8 * (n + 1) /\ n + 1 \in Nat
    BY <1>5, <2>1, <2>2
  <2>5. 10 - q \in next11Bits(W, 11 * j) <=> BitOfBytes(W, 11 * j + 10 - (10 - q))
    <3> HIDE DEF W
    <3> QED
      BY <1>9, <2>4, ReadNext
  <2>6. 11 * j + 10 - (10 - q) = k
    BY <2>1
  <2>7. BitOfWords(p, k) <=> 10 - q \in p[j + 1]
    BY <2>1, BitOfWord
  <2> HIDE DEF W, p
  <2> QED
    BY <2>3, <2>5, <2>6, <2>7
<1> HIDE DEF W, p
<1>12. e \in Bytes(4 * c) /\ \A k \in 0..(33 * c - 1) : BitOfWords(p, k) <=> BitOfBytes(W, k)
  BY <1>1, <1>5, <1>11
<1> QED
  BY <1>10, <1>12 DEF W, p

\* Three words and up to eight times as many give their entropy back, and in one
\* more byte what is left of them.
LEMMA BytesOfWords ==
    ASSUME NEW c \in 1..8, NEW words \in Seq(Word), Len(words) = 3 * c
    PROVE  LET bytes == wordIndexesToEntropyWithCheckSum(words)
           IN  /\ bytes \in Bytes(4 * c + 1)
               /\ Size(bytes) - 1 = 4 * c
               /\ \A k \in 0..(33 * c - 1) : BitOfBytes(bytes, k) <=> BitOfWords(words, k)
<1>1. BytesFor(words) = 4 * c + 1
  BY DEF BytesFor
<1> DEFINE bytes == wordIndexesToEntropyWithCheckSum(words)
<1>2. /\ bytes \in Bytes(4 * c + 1)
      /\ \A k \in 0..(8 * (4 * c + 1) - 1) : BitOfBytes(bytes, k) <=> k < 33 * c /\ BitOfWords(words, k)
  BY <1>1, Packed
<1> HIDE DEF bytes
<1>3. 4 * c + 1 \in Nat /\ DOMAIN bytes = 0..((4 * c + 1) - 1)
  BY <1>2 DEF Bytes
<1>4. Size(bytes) - 1 = 4 * c
  <2> DEFINE n == 4 * c + 1
  <2>1. n \in Nat /\ DOMAIN bytes = 0..(n - 1) /\ n - 1 = 4 * c
    BY <1>3
  <2> HIDE DEF n
  <2> QED
    BY <2>1, SizeOfBytes
<1>5. \A k \in 0..(33 * c - 1) : k \in 0..(8 * (4 * c + 1) - 1) /\ k < 33 * c
  OBVIOUS
<1> QED
  BY <1>2, <1>4, <1>5 DEF bytes

\* What the validator compares, when there are as many words as that.
Expected(words, c, otherSha) ==
    IF [j \in 0..(4 * c - 1) |-> wordIndexesToEntropyWithCheckSum(words)[j]] = entropy
    THEN sha ELSE otherSha

LEMMA VerdictOfWords ==
    ASSUME NEW c \in 1..8, NEW words \in Seq(Word), Len(words) = 3 * c, NEW otherSha
    PROVE  LET wrong == SymDiff(Expected(words, c, otherSha),
                                wordIndexesToEntropyWithCheckSum(words)[4 * c])
                          \cap ((8 - c)..7)
           IN  /\ wrong = {} => ChecksumVerdict(words, otherSha) = "valid"
               /\ wrong # {} => ChecksumVerdict(words, otherSha) = "InvalidChecksum"
<1> DEFINE bytes == wordIndexesToEntropyWithCheckSum(words)
<1>1. Size(bytes) - 1 = 4 * c
  BY BytesOfWords
<1>2. /\ 11 * Len(words) = 33 * c
      /\ ((33 * c) * 32) \div 33 = 32 * c
      /\ (32 * c) \div 32 = c
      /\ 33 * c = 32 * c + c
      /\ ~(4 * c < 0)
      /\ ~(c > 8)
  OBVIOUS
<1>3. maskOfFirstNBits(c) = (8 - c)..7
  BY <1>2 DEF maskOfFirstNBits, FirstBits
<1> QED
  BY <1>1, <1>2, <1>3 DEF ChecksumVerdict, Expected

\* When the words give the entropy back, the byte that is left is compared with
\* the checksum.
LEMMA ExpectedOfWords ==
    ASSUME NEW c \in 1..8, NEW words \in Seq(Word), Len(words) = 3 * c, NEW otherSha,
           entropy \in Bytes(4 * c), sha \in SUBSET (0..7),
           \A k \in 0..(32 * c - 1) : BitOfWords(words, k) <=> BitOfBytes(entropy, k)
    PROVE  Expected(words, c, otherSha) = sha
<1> DEFINE bytes == wordIndexesToEntropyWithCheckSum(words)
           a == [j \in 0..(4 * c - 1) |-> bytes[j]]
<1>1. /\ bytes \in Bytes(4 * c + 1)
      /\ \A k \in 0..(33 * c - 1) : BitOfBytes(bytes, k) <=> BitOfWords(words, k)
  BY BytesOfWords
<1> HIDE DEF bytes
<1>2. a \in Bytes(4 * c)
  BY <1>1 DEF Bytes
<1>3. ASSUME NEW k \in 0..(8 * (4 * c) - 1) PROVE BitOfBytes(a, k) <=> BitOfBytes(entropy, k)
  <2>1. k \div 8 \in 0..(4 * c - 1) /\ k \in 0..(33 * c - 1) /\ k \in 0..(32 * c - 1)
    OBVIOUS
  <2>2. BitOfBytes(a, k) <=> BitOfBytes(bytes, k)
    BY <2>1 DEF BitOfBytes
  <2> HIDE DEF a
  <2> QED
    BY <1>1, <2>1, <2>2
<1>4. a = entropy
  <2> HIDE DEF a
  <2>1. 4 * c \in Nat
    OBVIOUS
  <2> QED
    BY <1>2, <1>3, <2>1, SameBits
<1> QED
  BY <1>4 DEF Expected, bytes

\* The bits of that byte that are compared are the last bits of the words.
LEMMA ChecksumBits ==
    ASSUME NEW c \in 1..8, NEW words \in Seq(Word), Len(words) = 3 * c,
           entropy \in Bytes(4 * c), sha \in SUBSET (0..7)
    PROVE  SymDiff(sha, wordIndexesToEntropyWithCheckSum(words)[4 * c]) \cap ((8 - c)..7) = {}
             <=> \A k \in (32 * c)..(33 * c - 1) :
                   BitOfWords(words, k) <=> BitOfBytes(WithChecksum(entropy, sha), k)
<1> DEFINE bytes == wordIndexesToEntropyWithCheckSum(words)
           W == WithChecksum(entropy, sha)
<1>1. /\ bytes \in Bytes(4 * c + 1)
      /\ \A k \in 0..(33 * c - 1) : BitOfBytes(bytes, k) <=> BitOfWords(words, k)
  BY BytesOfWords
<1>2. W[4 * c] = sha
  BY Checksummed
<1> HIDE DEF bytes, W
<1>3. ASSUME NEW q \in 0..(c - 1)
      PROVE  /\ BitOfWords(words, 32 * c + q) <=> 7 - q \in bytes[4 * c]
             /\ BitOfBytes(W, 32 * c + q) <=> 7 - q \in sha
  <2>1. 4 * c \in Nat /\ q \in 0..7 /\ 8 * (4 * c) + q = 32 * c + q /\ 32 * c + q \in 0..(33 * c - 1)
    OBVIOUS
  <2>2. /\ BitOfBytes(bytes, 8 * (4 * c) + q) <=> 7 - q \in bytes[4 * c]
        /\ BitOfBytes(W, 8 * (4 * c) + q) <=> 7 - q \in W[4 * c]
    BY <2>1, BitOfByte
  <2> QED
    BY <1>1, <1>2, <2>1, <2>2
<1>4. ASSUME SymDiff(sha, bytes[4 * c]) \cap ((8 - c)..7) = {}, NEW k \in (32 * c)..(33 * c - 1)
      PROVE  BitOfWords(words, k) <=> BitOfBytes(W, k)
  <2> DEFINE q == k - 32 * c
  <2>1. q \in 0..(c - 1) /\ 32 * c + q = k /\ 7 - q \in (8 - c)..7
    OBVIOUS
  <2> HIDE DEF q
  <2>2. 7 - q \notin SymDiff(sha, bytes[4 * c])
    BY <1>4, <2>1
  <2>3. 7 - q \in sha <=> 7 - q \in bytes[4 * c]
    BY <2>2 DEF SymDiff
  <2> QED
    BY <1>3, <2>1, <2>3
<1>5. ASSUME \A k \in (32 * c)..(33 * c - 1) : BitOfWords(words, k) <=> BitOfBytes(W, k)
      PROVE  SymDiff(sha, bytes[4 * c]) \cap ((8 - c)..7) = {}
  <2> SUFFICES ASSUME NEW x \in (8 - c)..7 PROVE x \notin SymDiff(sha, bytes[4 * c])
    OBVIOUS
  <2> DEFINE q == 7 - x
  <2>1. q \in 0..(c - 1) /\ 32 * c + q \in (32 * c)..(33 * c - 1) /\ 7 - q = x
    OBVIOUS
  <2> HIDE DEF q
  <2>2. x \in sha <=> x \in bytes[4 * c]
    BY <1>3, <1>5, <2>1
  <2> QED
    BY <2>2 DEF SymDiff
<1> QED
  BY <1>4, <1>5 DEF bytes, W

-----------------------------------------------------------------------------
(***************************************************************************)
(* The inductive invariant: where the phrase, what was typed, the verdict  *)
(* and the words of the seed come from.                                    *)
(***************************************************************************)
Forms == {"full", "four", "longer", "composed", "unknown", "empty"}
Written == [word : Word, form : Forms]

Faulty == {i \in DOMAIN typed : WordFault(typed[i]) # None}
Read(search) == [i \in DOMAIN typed |-> findWordIndex(typed[i].word, search)]
Judged ==
    IF Faulty # {} THEN verdict = WordFault(typed[Min(Faulty)])
    ELSE \E search \in Searches, b \in Byte : verdict = ChecksumVerdict(Read(search), b)

Calculated ==
    \E supportFirst \in BOOLEAN :
        LET thrown == supportFirst /\ \E i \in DOMAIN typed : typed[i].form = "unknown"
        IN  seedWords =
                [supportFirst |-> supportFirst,
                 thrown |-> thrown,
                 words |-> IF thrown THEN <<>>
                           ELSE [i \in DOMAIN typed |-> SeedWord(typed[i], supportFirst)]]

IInv ==
    /\ phrase # None => /\ entropy \in Entropy
                        /\ sha \in Byte
                        /\ phrase = wordIndexes(entropy, sha)
    /\ typed # None => phrase \notin {None, EntropyTooLow} /\ typed \in Seq(Written)
    /\ verdict # None => typed # None /\ Judged
    /\ seedWords # None => typed # None /\ Calculated

\* Words in one of the forms are words in some form.
LEMMA AsWritten ==
    ASSUME NEW words \in Seq(Word), NEW form \in Forms
    PROVE  As(words, form) \in Seq(Written) /\ DOMAIN As(words, form) = DOMAIN words
<1>1. \A w : FormOf(w, form) \in Forms
  BY DEF FormOf, Forms
<1>2. DOMAIN words = 1..Len(words) /\ Len(words) \in Nat
  OBVIOUS
<1>3. \A i \in DOMAIN words : words[i] \in Word
  OBVIOUS
<1>4. As(words, form) \in [1..Len(words) -> Written]
  BY <1>1, <1>2, <1>3 DEF As, Written
<1> QED
  BY <1>2, <1>4 DEF As

LEMMA WritingsWritten ==
    ASSUME NEW words \in Seq(Word), Len(words) >= 3
    PROVE  Writings(words) \subseteq Seq(Written)
<1>1. "full" \in Forms /\ "four" \in Forms /\ "longer" \in Forms /\ "composed" \in Forms
      /\ "unknown" \in Forms /\ "empty" \in Forms
  BY DEF Forms
<1>2. Len(words) \in Nat /\ DOMAIN words = 1..Len(words) /\ \A i \in DOMAIN words : words[i] \in Word
  OBVIOUS
<1>3. \A form \in {"full", "four", "longer", "composed"} : As(words, form) \in Seq(Written)
  BY <1>1, AsWritten
<1>4. ASSUME NEW i \in {1, Len(words)}, NEW form \in {"unknown", "empty"}
      PROVE  [As(words, "full") EXCEPT ![i].form = form] \in Seq(Written)
  <2> DEFINE t == As(words, "full")
  <2>1. t \in Seq(Written) /\ DOMAIN t = DOMAIN words /\ form \in Forms
    BY <1>1, AsWritten
  <2> HIDE DEF t
  <2>2. i \in DOMAIN t /\ t[i] \in Written
    <3>1. i \in 1..Len(words)
      OBVIOUS
    <3>2. i \in DOMAIN t
      BY <1>2, <2>1, <3>1
    <3> QED
      BY <2>1, <3>2
  <2>3. [t[i] EXCEPT !.form = form] \in Written
    BY <2>1, <2>2 DEF Written
  <2>4. [t EXCEPT ![i].form = form] = [t EXCEPT ![i] = [t[i] EXCEPT !.form = form]]
    OBVIOUS
  <2>5. [t EXCEPT ![i] = [t[i] EXCEPT !.form = form]] \in Seq(Written)
    BY <2>1, <2>2, <2>3, ElementOfSeq
  <2> QED
    BY <2>4, <2>5 DEF t
<1>5. ASSUME NEW i \in {1, Len(words) - 1}
      PROVE  As([words EXCEPT ![i] = words[i + 1], ![i + 1] = words[i]], "full") \in Seq(Written)
  <2>1. i \in DOMAIN words /\ i + 1 \in DOMAIN words
    <3>1. i \in 1..Len(words) /\ i + 1 \in 1..Len(words)
      OBVIOUS
    <3> QED
      BY <1>2, <3>1
  <2>2. [words EXCEPT ![i] = words[i + 1], ![i + 1] = words[i]] \in Seq(Word)
    BY <1>2, <2>1
  <2> QED
    BY <1>1, <2>2, AsWritten
<1>6. ASSUME NEW b \in 0..10
      PROVE  As([words EXCEPT ![Len(words)] = SymDiff(@, {b})], "full") \in Seq(Written)
  <2>1. Len(words) \in DOMAIN words
    BY <1>2
  <2>2. SymDiff(words[Len(words)], {b}) \in Word
    BY <1>2, <2>1 DEF SymDiff, Word
  <2>3. [words EXCEPT ![Len(words)] = SymDiff(@, {b})] \in Seq(Word)
    BY <1>2, <2>1, <2>2
  <2> QED
    BY <1>1, <2>3, AsWritten
<1>7. ASSUME NEW i \in 0..Len(words)
      PROVE  SubSeq(words, 1, i) \in Seq(Word)
  BY <1>2, SubSeqProperties
<1>8. \A i \in 0..(Len(words) - 1) : As(SubSeq(words, 1, i), "full") \in Seq(Written)
  <2>1. \A i \in 0..(Len(words) - 1) : i \in 0..Len(words)
    BY <1>2
  <2> QED
    BY <1>1, <1>7, <2>1, AsWritten
<1>9. ASSUME NEW i \in 1..3
      PROVE  As(words \o SubSeq(words, 1, i), "full") \in Seq(Written)
  <2>1. i \in 0..Len(words)
    BY <1>2
  <2>2. words \o SubSeq(words, 1, i) \in Seq(Word)
    BY <1>7, <2>1, ConcatProperties
  <2> QED
    BY <1>1, <2>2, AsWritten
<1> DEFINE Slip(i, form) == [As(words, "full") EXCEPT ![i].form = form]
           InOneForm == {As(words, form) : form \in {"full", "four", "longer", "composed"}}
           Slipped == {Slip(i, form) : i \in {1, Len(words)}, form \in {"unknown", "empty"}}
           Swapped == {As([words EXCEPT ![i] = words[i + 1], ![i + 1] = words[i]], "full") :
                         i \in {1, Len(words) - 1}}
           OtherLast == {As([words EXCEPT ![Len(words)] = SymDiff(@, {b})], "full") : b \in 0..10}
           Missing == {As(SubSeq(words, 1, i), "full") : i \in 0..(Len(words) - 1)}
           TooMany == {As(words \o SubSeq(words, 1, i), "full") : i \in 1..3}
<1>10. Writings(words) = InOneForm \cup Slipped \cup Swapped \cup OtherLast \cup Missing \cup TooMany
  BY DEF Writings
<1>11. Slipped \subseteq Seq(Written)
  <2>1. \A i \in {1, Len(words)}, form \in {"unknown", "empty"} : Slip(i, form) \in Seq(Written)
    BY <1>4
  <2> HIDE DEF Slip
  <2> QED
    BY <2>1
<1>12. InOneForm \subseteq Seq(Written) /\ Swapped \subseteq Seq(Written)
  BY <1>3, <1>5
<1>13. OtherLast \subseteq Seq(Written)
  BY <1>6
<1>14. Missing \subseteq Seq(Written) /\ TooMany \subseteq Seq(Written)
  BY <1>8, <1>9
<1> HIDE DEF InOneForm, Slipped, Swapped, OtherLast, Missing, TooMany
<1> QED
  BY <1>10, <1>11, <1>12, <1>13, <1>14

\* A created phrase is words.
LEMMA PhraseOfWords ==
    ASSUME IInv, phrase \notin {None, EntropyTooLow}
    PROVE  \E c \in 4..8 :
             /\ entropy \in Bytes(4 * c)
             /\ sha \in SUBSET (0..7)
             /\ phrase \in Seq(Word)
             /\ Len(phrase) = 3 * c
             /\ \A k \in 0..(33 * c - 1) :
                  BitOfWords(phrase, k) <=> BitOfBytes(WithChecksum(entropy, sha), k)
<1>1. entropy \in Entropy /\ sha \in Byte /\ phrase = wordIndexes(entropy, sha)
  BY DEF IInv
<1>2. wordIndexes(entropy, sha) # EntropyTooLow
  BY <1>1
<1>3. sha \in SUBSET (0..7)
  BY <1>1, EntropyAssumption
<1> QED
  BY <1>1, <1>2, <1>3, WordsOfEntropy

\* A verdict and the words of a seed stay what they were judged and calculated to
\* be while what they come from stays.
LEMMA StillJudged ==
    ASSUME UNCHANGED <<entropy, sha, typed, verdict>>, Judged
    PROVE  Judged'
<1>1. ASSUME NEW words, NEW b PROVE ChecksumVerdict(words, b)' = ChecksumVerdict(words, b)
  BY DEF ChecksumVerdict
<1>2. Faulty' = Faulty /\ \A search : Read(search)' = Read(search)
  BY DEF Faulty, Read
<1> QED
  BY <1>1, <1>2 DEF Judged

LEMMA StillCalculated ==
    ASSUME UNCHANGED <<typed, seedWords>>, Calculated
    PROVE  Calculated'
  BY DEF Calculated

LEMMA Inductive == Spec => []IInv
<1>1. Init => IInv
  BY DEF Init, IInv
<1>2. IInv /\ [Next]_vars => IInv'
  <2> SUFFICES ASSUME IInv, [Next]_vars PROVE IInv'
    OBVIOUS
  <2>1. CASE createMnemonic
    <3>1. typed = None /\ verdict = None /\ seedWords = None
      BY <2>1 DEF createMnemonic, IInv
    <3> QED
      BY <2>1, <3>1 DEF createMnemonic, IInv
  <2>2. CASE Type
    <3>1. verdict = None /\ seedWords = None
      BY <2>2 DEF Type, IInv
    <3>2. typed' \in Seq(Written)
      <4>1. phrase \in Seq(Word) /\ Len(phrase) >= 3
        <5>1. PICK c \in 4..8 : phrase \in Seq(Word) /\ Len(phrase) = 3 * c
          BY <2>2, PhraseOfWords DEF Type
        <5> QED
          BY <5>1
      <4> QED
        BY <2>2, <4>1, WritingsWritten DEF Type
    <3> QED
      BY <2>2, <3>1, <3>2 DEF Type, IInv
  <2>3. CASE validateMnemonic
    <3>1. Judged'
      <4>1. UNCHANGED <<entropy, sha, typed>>
        BY <2>3 DEF validateMnemonic
      <4>2. ASSUME NEW words, NEW b PROVE ChecksumVerdict(words, b)' = ChecksumVerdict(words, b)
        BY <4>1 DEF ChecksumVerdict
      <4>3. Faulty' = Faulty /\ \A search : Read(search)' = Read(search)
        BY <4>1 DEF Faulty, Read
      <4>4. IF Faulty # {} THEN verdict' = WordFault(typed[Min(Faulty)])
            ELSE \E search \in Searches, b \in Byte : verdict' = ChecksumVerdict(Read(search), b)
        BY <2>3 DEF validateMnemonic, Faulty, Read
      <4> QED
        BY <4>1, <4>2, <4>3, <4>4 DEF Judged
    <3>2. seedWords # None => Calculated'
      BY <2>3, StillCalculated DEF validateMnemonic, IInv
    <3> QED
      BY <2>3, <3>1, <3>2 DEF validateMnemonic, IInv
  <2>4. CASE calculateSeed
    <3>1. Calculated'
      BY <2>4 DEF calculateSeed, Calculated
    <3>2. verdict # None => Judged'
      BY <2>4, StillJudged DEF calculateSeed, IInv
    <3> QED
      BY <2>4, <3>1, <3>2 DEF calculateSeed, IInv
  <2>5. CASE Again
    BY <2>5 DEF Again, IInv
  <2>6. CASE UNCHANGED vars
    <3>1. /\ verdict # None => Judged'
          /\ seedWords # None => Calculated'
      BY <2>6, StillJudged, StillCalculated DEF vars, IInv
    <3> QED
      BY <2>6, <3>1 DEF vars, IInv
  <2> QED
    BY <2>1, <2>2, <2>3, <2>4, <2>5, <2>6 DEF Next
<1> QED
  BY <1>1, <1>2, PTL DEF Spec

-----------------------------------------------------------------------------
(***************************************************************************)
(* Theorems.                                                               *)
(***************************************************************************)
\* The words createMnemonic makes are the bits of the entropy and of the first
\* bits of its checksum, one for 32, with none lost and none over: reading eleven
\* bits at a time over two or three bytes (next11Bits) misses none, whatever the
\* random generator returns and for each of its lengths.
THEOREM PhrasesCarryEntropy == Spec => []PhraseCarriesEntropy
<1>1. IInv => PhraseCarriesEntropy
  <2> SUFFICES ASSUME IInv, phrase \notin {None, EntropyTooLow}
               PROVE  LET ent == 8 * Size(entropy)
                      IN  /\ 11 * Len(phrase) = ent + ent \div 32
                          /\ \A k \in 0..(11 * Len(phrase) - 1) :
                               BitOfWords(phrase, k) <=> BitOfBytes(WithChecksum(entropy, sha), k)
    BY DEF PhraseCarriesEntropy
  <2>1. PICK c \in 4..8 :
           /\ entropy \in Bytes(4 * c)
           /\ sha \in SUBSET (0..7)
           /\ phrase \in Seq(Word)
           /\ Len(phrase) = 3 * c
           /\ \A k \in 0..(33 * c - 1) :
                BitOfWords(phrase, k) <=> BitOfBytes(WithChecksum(entropy, sha), k)
    BY PhraseOfWords
  <2>2. Size(entropy) = 4 * c
    <3>1. 4 * c \in Nat
      OBVIOUS
    <3> QED
      BY <2>1, <3>1, Checksummed
  <2>3. 11 * Len(phrase) = 33 * c /\ 8 * (4 * c) + (8 * (4 * c)) \div 32 = 33 * c
    BY <2>1
  <2> QED
    BY <2>1, <2>2, <2>3
<1> QED
  BY <1>1, Inductive, PTL

\* Words with no siblings are found as what they are.
LEMMA PlainWords ==
    ASSUME NEW w, \A S \in Siblings : w \notin S
    PROVE  /\ \A search : findWordIndex(w, search) = w
           /\ SameFirstFour(w) = {w}
           /\ getWordByWordFirst(w) = w
<1>1. {S \in Siblings : w \in S} = {}
  OBVIOUS
<1>2. \A search : findWordIndex(w, search) = w
  BY <1>1 DEF findWordIndex
<1>3. SameFirstFour(w) = {w}
  BY <1>1 DEF SameFirstFour
<1>4. getWordByWordFirst(w) = CHOOSE v \in {w} : \A u \in {w} \ {v} : Index(u) < Index(v)
  BY <1>3 DEF getWordByWordFirst
<1>5. \E v \in {w} : \A u \in {w} \ {v} : Index(u) < Index(v)
  OBVIOUS
<1>6. getWordByWordFirst(w) = w
  BY <1>4, <1>5
<1> QED
  BY <1>2, <1>3, <1>6

\* A fault is no verdict but itself, and the first one is of a faulty word.
LEMMA FaultIsThrown ==
    ASSUME IInv, typed # None, Judged, Faulty # {}
    PROVE  verdict # "valid"
<1>1. Faulty \subseteq Nat
  BY DEF IInv, Faulty
<1>2. \E i \in Faulty : \A m \in Faulty : i <= m
  BY <1>1, LeastOf
<1>3. Min(Faulty) \in Faulty
  BY <1>2 DEF Min
<1>4. WordFault(typed[Min(Faulty)]) # None
  BY <1>3 DEF Faulty
<1>5. WordFault(typed[Min(Faulty)]) \in {"UnexpectedWhiteSpace", "WordNotFound", None}
  BY DEF WordFault
<1> QED
  BY <1>4, <1>5 DEF Judged

\* A created phrase typed without a slip, in full, by the first four letters of
\* its words or by those and more, passes MnemonicValidator: the bytes its loop
\* writes are the entropy and the checksum. It is proved where the words have no
\* siblings; CreatedIsValid is what fails where they have.
THEOREM PlainPhrasesAreValid == Spec => []PlainIsValid
<1>1. IInv => PlainIsValid
  <2> SUFFICES ASSUME IInv, verdict # None, TypedAsCreated, Plain(phrase)
               PROVE  verdict = "valid"
    BY DEF PlainIsValid
  <2>1. phrase \notin {None, EntropyTooLow} /\ Judged
    BY DEF IInv
  <2>2. PICK c \in 4..8 :
           /\ entropy \in Bytes(4 * c)
           /\ sha \in SUBSET (0..7)
           /\ phrase \in Seq(Word)
           /\ Len(phrase) = 3 * c
           /\ \A k \in 0..(33 * c - 1) :
                BitOfWords(phrase, k) <=> BitOfBytes(WithChecksum(entropy, sha), k)
    BY <2>1, PhraseOfWords
  <2>3. PICK form \in {"full", "four", "longer"} :
           typed = As(phrase, form) /\ \A i \in DOMAIN typed : typed[i].form # "unknown"
    BY DEF TypedAsCreated
  <2>4. DOMAIN typed = DOMAIN phrase
        /\ \A i \in DOMAIN phrase : typed[i].word = phrase[i] /\ typed[i].form = FormOf(phrase[i], form)
    BY <2>3 DEF As
  <2>5. Faulty = {}
    <3> SUFFICES ASSUME NEW i \in DOMAIN typed PROVE WordFault(typed[i]) = None
      BY DEF Faulty
    <3>1. typed[i].form \in {"full", "four", "longer"}
      BY <2>3, <2>4 DEF FormOf
    <3> QED
      BY <3>1 DEF WordFault, NotFound
  <2>6. PICK search \in Searches, b \in Byte : verdict = ChecksumVerdict(Read(search), b)
    BY <2>1, <2>5 DEF Judged
  <2>7. Read(search) = phrase
    <3>1. \A i \in DOMAIN phrase : findWordIndex(typed[i].word, search) = phrase[i]
      BY <2>4, PlainWords DEF Plain
    <3>2. Read(search) = [i \in DOMAIN phrase |-> phrase[i]]
      BY <2>4, <3>1 DEF Read
    <3> QED
      BY <2>2, <3>2
  <2>8. c \in 1..8 /\ 4 * c \in Nat
    OBVIOUS
  <2>9. \A k \in 0..(32 * c - 1) : BitOfWords(phrase, k) <=> BitOfBytes(entropy, k)
    <3> SUFFICES ASSUME NEW k \in 0..(32 * c - 1)
                 PROVE  BitOfBytes(WithChecksum(entropy, sha), k) <=> BitOfBytes(entropy, k)
      <4>1. \A k \in 0..(32 * c - 1) : k \in 0..(33 * c - 1)
        OBVIOUS
      <4> QED
        BY <2>2, <4>1
    <3>1. k \div 8 \in 0..(4 * c - 1)
      OBVIOUS
    <3>2. \A j \in 0..(4 * c - 1) : WithChecksum(entropy, sha)[j] = entropy[j]
      <4>1. entropy \in Bytes(4 * c) /\ sha \in SUBSET (0..7) /\ 4 * c \in Nat
        BY <2>2, <2>8
      <4> QED
        BY <4>1, Checksummed
    <3>3. WithChecksum(entropy, sha)[k \div 8] = entropy[k \div 8]
      BY <3>1, <3>2
    <3> QED
      BY <3>3 DEF BitOfBytes
  <2>10. Expected(phrase, c, b) = sha
    BY <2>2, <2>8, <2>9, ExpectedOfWords
  <2>11. \A k \in (32 * c)..(33 * c - 1) :
            BitOfWords(phrase, k) <=> BitOfBytes(WithChecksum(entropy, sha), k)
    <3>1. \A k \in (32 * c)..(33 * c - 1) : k \in 0..(33 * c - 1)
      OBVIOUS
    <3> QED
      BY <2>2, <3>1
  <2>12. SymDiff(sha, wordIndexesToEntropyWithCheckSum(phrase)[4 * c]) \cap ((8 - c)..7) = {}
    BY <2>2, <2>8, <2>11, ChecksumBits
  <2>13. ChecksumVerdict(phrase, b) = "valid"
    BY <2>2, <2>8, <2>10, <2>12, VerdictOfWords
  <2> QED
    BY <2>6, <2>7, <2>13
<1> QED
  BY <1>1, Inductive, PTL

\* Only multiples of three words have a whole number of checksum bits.
LEMMA WordCounts ==
    ASSUME NEW N \in 0..24, LET ent == ((11 * N) * 32) \div 33 IN 11 * N = ent + ent \div 32
    PROVE  \E c \in 0..8 : N = 3 * c
<1>1. PICK c \in 0..8, r \in 0..2 : N = 3 * c + r
  <2>1. N \div 3 \in 0..8 /\ N % 3 \in 0..2 /\ N = 3 * (N \div 3) + (N % 3)
    OBVIOUS
  <2> QED
    BY <2>1
<1>2. r # 1
  <2> SUFFICES ASSUME r = 1 PROVE FALSE
    OBVIOUS
  <2>1. ((11 * N) * 32) \div 33 = 32 * c + 10
    BY <1>1
  <2>2. (32 * c + 10) \div 32 = c
    OBVIOUS
  <2> QED
    BY <1>1, <2>1, <2>2
<1>3. r # 2
  <2> SUFFICES ASSUME r = 2 PROVE FALSE
    OBVIOUS
  <2>1. ((11 * N) * 32) \div 33 = 32 * c + 21
    BY <1>1
  <2>2. (32 * c + 21) \div 32 = c
    OBVIOUS
  <2> QED
    BY <1>1, <2>1, <2>2
<1> QED
  BY <1>1, <1>2, <1>3

\* Without words there is no byte to compare, and the validator fails in another way.
LEMMA NoWords ==
    ASSUME NEW words \in Seq(Word), Len(words) = 0, NEW b
    PROVE  ChecksumVerdict(words, b) # "valid"
<1> DEFINE bytes == wordIndexesToEntropyWithCheckSum(words)
<1>1. BytesFor(words) = 0
  BY DEF BytesFor
<1>2. bytes \in Bytes(0)
  BY <1>1, Packed
<1>3. Size(bytes) = 0
  BY <1>2, SizeOfBytes DEF Bytes
<1> HIDE DEF bytes
<1>4. /\ 11 * Len(words) = 0
      /\ (0 * 32) \div 33 = 0
      /\ 0 \div 32 = 0
      /\ 0 = 0 + 0
      /\ 0 - 1 < 0
  OBVIOUS
<1> QED
  BY <1>3, <1>4 DEF ChecksumVerdict, bytes

\* What the validator accepts, up to 24 words, is a multiple of three of them;
\* and if its first bits are the entropy of the phrase, the others are those of
\* the checksum, every one of them. Proved of every sequence of words in any
\* form, not of the slips that are enumerated only.
THEOREM AcceptedAreChecked == Spec => []AcceptedIsChecked
<1>1. IInv => AcceptedIsChecked
  <2> DEFINE words == [i \in DOMAIN typed |-> typed[i].word]
  <2> SUFFICES ASSUME IInv, verdict = "valid", Len(typed) <= 24, Plain(words)
               PROVE  LET ent == (32 * Len(words)) \div 3
                      IN  /\ Len(words) % 3 = 0
                          /\ \/ 8 * Size(entropy) # ent
                             \/ \E k \in 0..(ent - 1) : ~(BitOfWords(words, k) <=> BitOfBytes(entropy, k))
                             \/ \A k \in ent..(11 * Len(words) - 1) :
                                  BitOfWords(words, k) <=> BitOfBytes(WithChecksum(entropy, sha), k)
    BY DEF AcceptedIsChecked
  <2>1. typed # None /\ Judged /\ typed \in Seq(Written) /\ phrase \notin {None, EntropyTooLow}
    BY NoneIsNoVerdict DEF IInv
  <2>2. Faulty = {}
    BY <2>1, FaultIsThrown
  <2>3. PICK search \in Searches, b \in Byte : verdict = ChecksumVerdict(Read(search), b)
    BY <2>1, <2>2 DEF Judged
  <2>4. words \in Seq(Word) /\ Len(words) = Len(typed) /\ Len(words) \in 0..24
    <3> DEFINE N == Len(typed)
    <3>1. \A i \in DOMAIN typed : typed[i] \in Written
      BY <2>1
    <3>2. \A i \in DOMAIN typed : typed[i].word \in Word
      BY <3>1 DEF Written
    <3>3. DOMAIN typed = 1..N /\ N \in 0..24
      <4>1. DOMAIN typed = 1..N /\ N \in Nat
        BY <2>1, LenProperties
      <4>2. N <= 24
        OBVIOUS
      <4> HIDE DEF N
      <4> QED
        BY <4>1, <4>2
    <3>4. words \in [1..N -> Word]
      BY <3>2, <3>3
    <3> HIDE DEF words, N
    <3>5. words \in Seq(Word) /\ Len(words) = N
      BY <3>3, <3>4
    <3> QED
      BY <3>3, <3>5 DEF N
  <2>5. Read(search) = words
    <3>1. \A i \in DOMAIN typed : \A S \in Siblings : typed[i].word \notin S
      BY DEF Plain
    <3> QED
      BY <3>1, PlainWords DEF Read
  <2> HIDE DEF words
  <2>6. LET ent == ((11 * Len(words)) * 32) \div 33 IN 11 * Len(words) = ent + ent \div 32
    BY <2>3, <2>5 DEF ChecksumVerdict
  <2>7. PICK c \in 0..8 : Len(words) = 3 * c
    BY <2>4, <2>6, WordCounts
  <2>8. c # 0
    BY <2>3, <2>4, <2>5, <2>7, NoWords
  <2>9. c \in 1..8 /\ 4 * c \in Nat /\ (3 * c) % 3 = 0 /\ (32 * (3 * c)) \div 3 = 32 * c
        /\ 11 * (3 * c) = 33 * c
    BY <2>8
  <2>10. ASSUME 8 * Size(entropy) = 32 * c,
                \A k \in 0..(32 * c - 1) : BitOfWords(words, k) <=> BitOfBytes(entropy, k)
         PROVE  \A k \in (32 * c)..(33 * c - 1) :
                   BitOfWords(words, k) <=> BitOfBytes(WithChecksum(entropy, sha), k)
    <3>1. PICK d \in 4..8 : entropy \in Bytes(4 * d) /\ sha \in SUBSET (0..7)
      BY <2>1, PhraseOfWords
    <3>2. Size(entropy) = 4 * d
      <4>1. 4 * d \in Nat
        OBVIOUS
      <4> QED
        BY <3>1, <4>1, Checksummed
    <3>3. entropy \in Bytes(4 * c)
      <4>1. d = c
        BY <2>10, <3>2
      <4> QED
        BY <3>1, <4>1
    <3>4. Expected(words, c, b) = sha
      BY <2>4, <2>7, <2>9, <2>10, <3>1, <3>3, ExpectedOfWords
    <3>5. SymDiff(sha, wordIndexesToEntropyWithCheckSum(words)[4 * c]) \cap ((8 - c)..7) = {}
      <4>1. ChecksumVerdict(words, b) # "InvalidChecksum"
        BY <2>3, <2>5
      <4> QED
        BY <2>4, <2>7, <2>9, <3>4, <4>1, VerdictOfWords
    <3> QED
      BY <2>4, <2>7, <2>9, <3>1, <3>3, <3>5, ChecksumBits
  <2> QED
    BY <2>7, <2>9, <2>10
<1> QED
  BY <1>1, Inductive, PTL

\* The validator and SeedCalculatorByWordListLookUp read the same words: what is
\* accepted and looked up gives one seed, whether the words are typed in full, by
\* their first four letters, by those and more (a whole word of four letters and
\* more among them) or with composed accents. Proved where no two words begin with
\* the same four letters.
THEOREM SeedsAreOne == Spec => []SeedsAgree
<1>1. IInv => SeedsAgree
  <2> SUFFICES ASSUME IInv, verdict = "valid", seedWords # None, seedWords.supportFirst,
                      Plain([i \in DOMAIN typed |-> typed[i].word])
               PROVE  seedWords.words = [i \in DOMAIN typed |-> Canonical(typed[i].word)]
    BY DEF SeedsAgree
  <2>1. typed # None /\ Judged /\ Calculated /\ typed \in Seq(Written)
    BY NoneIsNoVerdict DEF IInv
  <2>2. Faulty = {}
    BY <2>1, FaultIsThrown
  <2>3. ASSUME NEW i \in DOMAIN typed
        PROVE  /\ typed[i].form \in {"full", "four", "longer", "composed"}
               /\ SeedWord(typed[i], TRUE) = Canonical(typed[i].word)
    <3>1. typed[i] \in Written
      BY <2>1
    <3>2. WordFault(typed[i]) = None
      BY <2>2 DEF Faulty
    <3>3. typed[i].form # "empty" /\ typed[i].form # "unknown"
      BY <3>2, NoneIsNoVerdict DEF WordFault, NotFound
    <3>4. typed[i].form \in {"full", "four", "longer", "composed"}
      BY <3>1, <3>3 DEF Written, Forms
    <3>5. getWordByWordFirst(typed[i].word) = typed[i].word
      BY PlainWords DEF Plain
    <3>6. SeedWord(typed[i], TRUE) = Canonical(typed[i].word)
      BY <3>4, <3>5 DEF SeedWord
    <3> QED
      BY <3>4, <3>6
  <2>4. PICK supportFirst \in BOOLEAN :
          LET thrown == supportFirst /\ \E i \in DOMAIN typed : typed[i].form = "unknown"
          IN  seedWords =
                [supportFirst |-> supportFirst,
                 thrown |-> thrown,
                 words |-> IF thrown THEN <<>>
                           ELSE [i \in DOMAIN typed |-> SeedWord(typed[i], supportFirst)]]
    BY <2>1 DEF Calculated
  <2>5. supportFirst = TRUE
    BY <2>4
  <2>6. ~\E i \in DOMAIN typed : typed[i].form = "unknown"
    BY <2>3
  <2>7. seedWords.words = [i \in DOMAIN typed |-> SeedWord(typed[i], TRUE)]
    BY <2>4, <2>5, <2>6
  <2> QED
    BY <2>3, <2>7
<1> QED
  BY <1>1, Inductive, PTL
=============================================================================
