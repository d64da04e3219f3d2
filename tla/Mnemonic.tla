------------------------------ MODULE Mnemonic ------------------------------
(***************************************************************************)
(* MnemonicBuild: a phrase is created from random bytes and their checksum, *)
(* written down, typed in again, validated and turned into the words a      *)
(* seed is calculated from, all with one word list.                        *)
(*                                                                         *)
(* A byte or an Int is the set of its bits, counted from the lowest, so     *)
(* that `or' is a union and a shift moves every bit. The words of the list  *)
(* are their indexes, sets of eleven bits. Of the letters of a word only    *)
(* what the code looks at is kept: whether it has four of them, or fewer, or *)
(* more, which words share their first four, and where composing an accent  *)
(* with its letter changes the first four.                                 *)
(***************************************************************************)
EXTENDS Integers, Sequences, SequencesExt, FiniteSetsExt

CONSTANTS
    Siblings,   \* the sets of words with the same first four letters
    Short,      \* the words of fewer than four letters
    Four,       \* the words of exactly four letters
    Accented,   \* the words that are composed within their first four letters
    Entropy,    \* the bytes the random generator may return
    Byte,       \* the first bytes a SHA-256 may have
    None

Int32 == 0..31
Word == SUBSET (0..10)

ASSUME WordListAssumption ==
    /\ Short \subseteq Word /\ Four \subseteq Word /\ Accented \subseteq Word
    /\ Short \cap Four = {}
    /\ \A S \in Siblings : S # {} /\ S \subseteq Word \ (Short \cup Four)
    /\ \A S, T \in Siblings : S = T \/ S \cap T = {}

\* A string of n bytes, counted from 0
Bytes(n) == [0..(n - 1) -> SUBSET (0..7)]

\* RandomSeed returns the byteLength of a WordCount
ASSUME EntropyAssumption ==
    /\ \A e \in Entropy : \E n \in {3, 6, 9, 16, 20, 24, 28, 32} : e \in Bytes(n)
    /\ Byte \subseteq SUBSET (0..7)
\* What the validator throws, and that it throws nothing, is a verdict
ASSUME NoneIsNoVerdict ==
    None \notin {"UnexpectedWhiteSpace", "WordNotFound", "InvalidWordCount",
                 "NegativeArraySize", "InvalidChecksum", "valid"}

VARIABLES
    entropy,    \* what the phrase was made from
    sha,        \* the first byte of its SHA-256
    phrase,     \* the words created
    typed,      \* what the user typed
    verdict,    \* of the validator
    seedWords   \* the words given to PBKDF2

vars == <<entropy, sha, phrase, typed, verdict, seedWords>>

\* The phrase when createMnemonic throws: there is none without words
EntropyTooLow == <<>>

Init ==
    /\ entropy = None /\ sha = None /\ phrase = None
    /\ typed = None /\ verdict = None /\ seedWords = None

-----------------------------------------------------------------------------
(* Eleven bits at a time                                                   *)

\* shl for a positive distance, shr for a negative one
Shift(bits, i) == {b + i : b \in bits} \cap Int32
toByte(bits) == bits \cap 0..7

\* The third byte is read when eleven bits from the offset reach it
ReadBits(bytes, offset) ==
    LET skip == offset \div 8
        lowerBitsToRemove == (3 * 8 - 11) - (offset % 8)
    IN  Shift(Shift(bytes[skip], 16) \cup Shift(bytes[skip + 1], 8)
                \cup (IF lowerBitsToRemove < 8 THEN bytes[skip + 2] ELSE {}),
              -lowerBitsToRemove)
next11Bits(bytes, offset) == ReadBits(bytes, offset) \cap 0..10

\* value or-ed into the bytes from the offset on, `third' if it reaches a third
Write(bytes, value, offset, third) ==
    LET skip == offset \div 8
        bitSkip == offset % 8
    IN  [j \in DOMAIN bytes |->
            bytes[j] \cup
            CASE j = skip -> toByte(Shift(value, -(3 + bitSkip)))
              [] j = skip + 1 -> toByte(Shift(value, 5 - bitSkip))
              [] j = skip + 2 /\ third -> toByte(Shift(value, 13 - bitSkip))
              [] OTHER -> {}]
WriteFrom7(bytes, value, offset) == Write(bytes, value, offset, offset % 8 > 6)
writeNext11(bytes, value, offset) == Write(bytes, value, offset, offset % 8 >= 6)

Size(bytes) == Cardinality(DOMAIN bytes)

\* Arrays.copyOf(entropy, size + 1), with the checksum in the last byte
WithChecksum(bytes, byte) ==
    [j \in 0..Size(bytes) |-> IF j = Size(bytes) THEN byte ELSE bytes[j]]

-----------------------------------------------------------------------------
(* MnemonicGenerator                                                       *)

LengthOver33(ent) == (ent + ent \div 33) \div 11
\* The number of words for so many bits of entropy
mnemonicLength(ent) == (ent + ent \div 32) \div 11

\* The lengths RandomSeed returns pass the other two checks of the length
wordIndexes(bytes, byte) ==
    LET ent == 8 * Size(bytes)
    IN  IF ent < 128 THEN EntropyTooLow
        ELSE [k \in 1..mnemonicLength(ent) |->
                next11Bits(WithChecksum(bytes, byte), 11 * (k - 1))]

createMnemonic ==
    /\ phrase = None
    /\ \E e \in Entropy, b \in Byte :
        /\ entropy' = e
        /\ sha' = b
        /\ phrase' = wordIndexes(e, b)
    /\ UNCHANGED <<typed, verdict, seedWords>>

-----------------------------------------------------------------------------
(* The user types each word in one of six forms: in full, its first four   *)
(* letters only, those and then anything (longer), in full with its        *)
(* accents composed, four letters or more that begin no word of the list   *)
(* (unknown), or nothing between two spaces (empty).                       *)

\* A word of at most four letters is its own first four. What follows a word of
\* fewer than four is among the first four letters that are looked up; what
\* follows a word of four is not
FormOf(w, form) ==
    CASE w \in Short \cup Four /\ form = "four" -> "full"
      [] w \in Short /\ form = "longer" -> "unknown"
      [] OTHER -> form
As(words, form) == [i \in DOMAIN words |-> [word |-> words[i], form |-> FormOf(words[i], form)]]

\* In one form throughout, with one slip or two words swapped, with another last
\* word, or with words missing or too many
Writings(words) ==
    {As(words, form) : form \in {"full", "four", "longer", "composed"}}
    \cup {[As(words, "full") EXCEPT ![i].form = form] :
            i \in {1, Len(words)}, form \in {"unknown", "empty"}}
    \cup {As([words EXCEPT ![i] = words[i + 1], ![i + 1] = words[i]], "full") :
            i \in {1, Len(words) - 1}}
    \cup {As([words EXCEPT ![Len(words)] = SymDiff(@, {b})], "full") : b \in 0..10}
    \cup {As(SubSeq(words, 1, i), "full") : i \in 0..(Len(words) - 1)}
    \cup {As(words \o SubSeq(words, 1, i), "full") : i \in 1..3}

Type ==
    /\ phrase \notin {None, EntropyTooLow}
    /\ typed = None
    /\ typed' \in Writings(phrase)
    /\ UNCHANGED <<entropy, sha, phrase, verdict, seedWords>>

-----------------------------------------------------------------------------
(* MnemonicValidator                                                       *)

\* The words the sorted list compares equal to w; which of them the binary
\* search ends at is the same at every search
SameFirstFour(w) == (UNION {S \in Siblings : w \in S}) \cup {w}
Searches == {f \in [Siblings -> UNION Siblings] : \A S \in Siblings : f[S] \in S}
findWordIndex(w, search) ==
    LET of == {S \in Siblings : w \in S}
    IN  IF of = {} THEN w ELSE search[CHOOSE S \in of : TRUE]

\* Of a composed word the first four characters are more letters than the list's
NotFound(t) ==
    \/ t.form = "unknown"
    \/ t.form = "composed" /\ t.word \in Accented \ (Short \cup Four)
WordFault(t) ==
    CASE t.form = "empty" -> "UnexpectedWhiteSpace"
      [] NotFound(t) -> "WordNotFound"
      [] OTHER -> None

\* The bytes after each round of the loop
wordIndexesToEntropyWithCheckSum(indexes) ==
    LET written[i \in 0..Len(indexes)] ==
            IF i = 0 THEN [j \in 0..((11 * Len(indexes) + 7) \div 8 - 1) |-> {}]
            ELSE writeNext11(written[i - 1], indexes[i], 11 * (i - 1))
    IN  written[Len(indexes)]

\* The distance of a shift is taken modulo 32: nine bits and more have no mask
FirstBits(n) == IF n > 8 THEN {} ELSE (8 - n)..7
MaskOfFewer(n) == FirstBits(n) \ {8 - n}
maskOfFirstNBits(n) == FirstBits(n)

\* The SHA-256 is that of the phrase when the words give its entropy, otherwise it
\* begins with any byte
ChecksumVerdict(indexes, otherSha) ==
    LET entPlusCs == 11 * Len(indexes)
        ent == (entPlusCs * 32) \div 33
        cs == ent \div 32
        bytes == wordIndexesToEntropyWithCheckSum(indexes)
        last == Size(bytes) - 1
        expected == IF [j \in 0..(last - 1) |-> bytes[j]] = entropy THEN sha ELSE otherSha
    IN  CASE entPlusCs # ent + cs -> "InvalidWordCount"
          [] last < 0 -> "NegativeArraySize"
          [] SymDiff(expected, bytes[last]) \cap maskOfFirstNBits(cs) # {} -> "InvalidChecksum"
          [] OTHER -> "valid"

validateMnemonic ==
    /\ typed # None /\ verdict = None
    /\ LET faulty == {i \in DOMAIN typed : WordFault(typed[i]) # None}
       IN  IF faulty # {} THEN verdict' = WordFault(typed[Min(faulty)])
           ELSE \E search \in Searches, b \in Byte :
                  verdict' = ChecksumVerdict(
                      [i \in DOMAIN typed |-> findWordIndex(typed[i].word, search)], b)
    /\ UNCHANGED <<entropy, sha, phrase, typed, seedWords>>

-----------------------------------------------------------------------------
(* SeedCalculatorByWordListLookUp                                          *)

\* The list's word for its first four letters: of several the last one put in
Index(w) == SumSet({2 ^ b : b \in w})
getWordByWordFirst(w) ==
    CHOOSE v \in SameFirstFour(w) : \A u \in SameFirstFour(w) \ {v} : Index(u) < Index(v)

Canonical(w) == [word |-> w, form |-> "full"]
SeedWordOverFour(t, supportFirst) ==
    CASE t.form \in {"full", "composed"} -> Canonical(t.word)
      [] t.form = "longer" /\ supportFirst -> Canonical(getWordByWordFirst(t.word))
      [] OTHER -> t
\* Whole words are looked up first; anything else is taken as typed
SeedWord(t, supportFirst) ==
    CASE t.form \in {"full", "composed"} -> Canonical(t.word)
      [] t.form \in {"four", "longer"} /\ supportFirst -> Canonical(getWordByWordFirst(t.word))
      [] OTHER -> t

calculateSeed ==
    /\ typed # None /\ seedWords = None
    /\ \E supportFirst \in BOOLEAN :
         LET thrown == supportFirst /\ \E i \in DOMAIN typed : typed[i].form = "unknown"
         IN  seedWords' =
               [supportFirst |-> supportFirst,
                thrown |-> thrown,
                words |-> IF thrown THEN <<>>
                          ELSE [i \in DOMAIN typed |-> SeedWord(typed[i], supportFirst)]]
    /\ UNCHANGED <<entropy, sha, phrase, typed, verdict>>

\* The application forgets the phrase and makes another
Again ==
    /\ \/ phrase = EntropyTooLow
       \/ verdict # None /\ seedWords # None
    /\ entropy' = None /\ sha' = None /\ phrase' = None
    /\ typed' = None /\ verdict' = None /\ seedWords' = None

Next == createMnemonic \/ Type \/ validateMnemonic \/ calculateSeed \/ Again
Spec == Init /\ [][Next]_vars

-----------------------------------------------------------------------------
(* Properties                                                              *)

\* Bit k of a string of bytes, and of a string of words, from the highest
BitOfBytes(bytes, k) == 7 - (k % 8) \in bytes[k \div 8]
BitOfWords(words, k) == 10 - (k % 11) \in words[k \div 11 + 1]

\* The definition of BIP39: the words created are the entropy and as many bits
\* of its checksum as it has groups of 32, eleven bits to a word, none lost and
\* none left over.
PhraseCarriesEntropy ==
    phrase \notin {None, EntropyTooLow} =>
        LET ent == 8 * Size(entropy)
        IN  /\ 11 * Len(phrase) = ent + ent \div 32
            /\ \A k \in 0..(11 * Len(phrase) - 1) :
                  BitOfWords(phrase, k) <=> BitOfBytes(WithChecksum(entropy, sha), k)

\* A phrase that was created and typed in full, every word as createMnemonic
\* returned it, is valid.
CreatedIsValid == verdict # None /\ typed = As(phrase, "full") => verdict = "valid"

\* Where no two words share their first four letters, a created phrase is valid
\* also when each word is typed by its first four letters, or by those and more:
\* findWordIndex looks at no others.
Plain(words) == \A i \in DOMAIN words : \A S \in Siblings : words[i] \notin S
TypedAsCreated == \E form \in {"full", "four", "longer"} :
    typed = As(phrase, form) /\ \A i \in DOMAIN typed : typed[i].form # "unknown"
PlainIsValid ==
    verdict # None /\ TypedAsCreated /\ Plain(phrase) => verdict = "valid"

\* What the validator says of its refusals: more than 24 words are an
\* InvalidWordCountException, so no phrase of more is accepted.
AtMost24Words == verdict = "valid" => Len(typed) <= 24

\* Of a phrase of at most 24 words the validator accepts only a multiple of three,
\* and when the words carry the entropy of the phrase they carry its checksum too:
\* none gets by with a bit of it wrong. Of longer ones, which should not be
\* accepted at all, AtMost24Words speaks.
AcceptedIsChecked ==
    verdict = "valid" /\ Len(typed) <= 24 /\ Plain([i \in DOMAIN typed |-> typed[i].word]) =>
        LET words == [i \in DOMAIN typed |-> typed[i].word]
            ent == (32 * Len(words)) \div 3
        IN  /\ Len(words) % 3 = 0
            /\ \/ 8 * Size(entropy) # ent
               \/ \E k \in 0..(ent - 1) : ~(BitOfWords(words, k) <=> BitOfBytes(entropy, k))
               \/ \A k \in ent..(11 * Len(words) - 1) :
                    BitOfWords(words, k) <=> BitOfBytes(WithChecksum(entropy, sha), k)

\* Where the validator has accepted the words of a phrase and abbreviations are
\* expanded, the seed is calculated from the whole words the validator read,
\* however they were typed: one phrase, one wallet.
SeedsAgree ==
    verdict = "valid" /\ seedWords # None =>
        (seedWords.supportFirst /\ Plain([i \in DOMAIN typed |-> typed[i].word]) =>
            seedWords.words = [i \in DOMAIN typed |-> Canonical(typed[i].word)])
=============================================================================
