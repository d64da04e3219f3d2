------------------------------- MODULE Codecs -------------------------------
(***************************************************************************)
(* The texts of the native library: hexadecimal, base 32, base 58 with and *)
(* without a checksum, DER signatures and formatted amounts. A character   *)
(* is its ASCII code, in base 58 its place in the alphabet; None is the    *)
(* null pointer. A value is written as text, the text may be respelt or    *)
(* spoilt on its way, and it is read back.                                 *)
(***************************************************************************)
EXTENDS Bignum, SequencesExt

CONSTANTS
    NUMBER_BYTES,   \* 32, the bytes of each half of a signature
    Checksum(_),    \* the first four bytes of a double sha256
    Garbage,        \* bound: what malloc leaves in the memory it returns
    Jobs            \* bound: what is written: codec, input, option, room

VARIABLES
    job,    \* what is being written and read back
    text,   \* its text
    way,    \* what happened to the text: "as written", "respelt", "spoilt"
    back,   \* what was read from it
    phase

vars == <<job, text, way, back, phase>>

LeadingZeros(bytes) ==
    IF \A i \in 1..Len(bytes) : bytes[i] = 0 THEN Len(bytes)
    ELSE (CHOOSE i \in 1..Len(bytes) : bytes[i] # 0 /\ \A j \in 1..(i - 1) : bytes[j] = 0) - 1

DropFirst(seq, n) == SubSeq(seq, n + 1, Len(seq))

-----------------------------------------------------------------------------
(* hexstring.c                                                             *)

HexDigit(v, lower) == IF v > 9 THEN 48 + v + 7 + lower ELSE 48 + v
hexToStr(bytes, isLower) ==
    FlattenSeq([i \in 1..Len(bytes) |->
        <<HexDigit(bytes[i] \div 16, isLower * 32), HexDigit(bytes[i] % 16, isLower * 32)>>])

toupper(c) == IF c \in 97..122 THEN c - 32 ELSE c
HexValue(c) == LET s == toupper(c) - 48 IN IF s > 9 THEN s - 7 ELSE s
strToHex(src, nLen) ==
    [i \in 1..nLen |-> (HexValue(src[2 * i - 1]) * 16 + HexValue(src[2 * i])) % 256]

-----------------------------------------------------------------------------
(* base58.c                                                                *)

Alphabet == 0..57
Foreign == 58       \* a character that is not in the alphabet

\* One pass over a number: its quotient by "by" and the remainder.
divmod(number, base, by) ==
    FoldLeft(LAMBDA acc, d : LET rem == acc.rem * base + d
                             IN [q |-> Append(acc.q, rem \div by), rem |-> rem % by],
             [q |-> <<>>, rem |-> 0], number)

\* The digits the loop of both functions writes, the last one first.
RECURSIVE Convert(_, _, _, _)
Convert(number, base, by, written) ==
    IF number = <<>> THEN written
    ELSE LET step == divmod(number, base, by)
         IN Convert(IF Head(step.q) = 0 THEN Tail(step.q) ELSE step.q,
                    base, by, <<step.rem>> \o written)

base58_encode(in) ==
    LET z == LeadingZeros(in)
        temp == Convert(DropFirst(in, z), 256, 58, <<>>)
    IN IF in = <<>> THEN None ELSE Zeros(z) \o DropFirst(temp, LeadingZeros(temp))

\* INDEXES holds 0 wherever no character of the alphabet does. The zeros at
\* the front are copied from the memory before the bytes written, of which
\* only those come from the program that a digit was written to and skipped.
base58_decode(input, malloc) ==
    LET input58 == [i \in 1..Len(input) |-> IF input[i] \in Alphabet THEN input[i] ELSE 0]
        z == LeadingZeros(input58)
        temp == [i \in 1..z |-> malloc] \o Convert(DropFirst(input58, z), 58, 256, <<>>)
        j == z + LeadingZeros(DropFirst(temp, z))
    IN IF input = <<>> THEN None ELSE DropFirst(temp, j - z)

\* A text of fewer than four bytes makes outLen negative and the digest run
\* past the memory: no text here is as short.
base58_encode_check(input) == base58_encode(input \o Checksum(input))

base58_decode_check(input, malloc) ==
    LET decode == base58_decode(input, malloc)
        outLen == Len(decode) - 4
        result == SubSeq(decode, 1, outLen)
    IN IF Checksum(result) = DropFirst(decode, outLen) THEN result ELSE <<>>

-----------------------------------------------------------------------------
(* base32.c                                                                *)

Pad == 61   \* '='

\* A sequence of words of one width as words of another, the last filled
\* with zeros or, when it is not full, left out.
Bits(words, width) ==
    FlattenSeq([i \in 1..Len(words) |->
        [k \in 1..width |-> (words[i] \div 2 ^ (width - k)) % 2]])
Words(bits, width, n) ==
    [i \in 1..n |-> FoldLeft(LAMBDA v, k : 2 * v + (IF k <= Len(bits) THEN bits[k] ELSE 0), 0,
                             [k \in 1..width |-> (i - 1) * width + k])]

base32_encoded_length(inlen) == (inlen \div 5) * 8 + (((inlen % 5) * 8 + 4) \div 5)
base32_decoded_length(inlen) == (inlen \div 8) * 5 + (((inlen % 8) * 5) \div 8)

base32_5to8(in, length) == Words(Bits(in, 8), 5, base32_encoded_length(length))
base32_8to5_raw(in, length) == Words(Bits(in, 5), 8, base32_decoded_length(length))

base32_encode_character(decoded) == IF decoded < 26 THEN 65 + decoded ELSE 50 - 26 + decoded

base32_decode_character(encoded) ==
    IF encoded \in 65..90 THEN encoded - 65
    ELSE IF encoded \in 97..122 THEN encoded - 97
    ELSE IF encoded \in 50..55 THEN encoded - 50 + 26 ELSE -1

base32_8to5(in, length) ==
    LET decoded == [i \in 1..length |-> base32_decode_character(in[i])]
    IN IF length \in {1, 3, 6} \/ \E i \in 1..length : decoded[i] = -1 THEN None
       ELSE base32_8to5_raw(decoded, length)

\* The limit and remainder of both loops: parts of one size, and what is left.
Parts(seq, size) ==
    [i \in 1..((Len(seq) + size - 1) \div size) |->
        SubSeq(seq, (i - 1) * size + 1, IF i * size < Len(seq) THEN i * size ELSE Len(seq))]

base32_encode_unsafe(in) ==
    LET parts == Parts(in, 5)
    IN FlattenSeq([i \in DOMAIN parts |-> base32_5to8(parts[i], Len(parts[i]))])

base32_decode_unsafe(in) ==
    LET parts == Parts(in, 8)
        out == [i \in DOMAIN parts |-> base32_8to5(parts[i], Len(parts[i]))]
    IN IF \E i \in DOMAIN out : out[i] = None THEN None ELSE FlattenSeq(out)

base32_encode(in, outlen) ==
    LET out == base32_encode_unsafe(in)
    IN IF outlen <= base32_encoded_length(Len(in)) THEN None
       ELSE [i \in 1..Len(out) |-> base32_encode_character(out[i])]

base32_encode_padding(in, outlen, has_padding) ==
    LET out == base32_encode(in, outlen)
    IN IF out = None \/ ~has_padding THEN out
       ELSE out \o [i \in 1..((-Len(out)) % 8) |-> Pad]

base32_decode(in, outlen) ==
    IF outlen < base32_decoded_length(Len(in)) THEN None ELSE base32_decode_unsafe(in)

\* The text without its padding; how far the result reaches is returned in
\* a pointer, and the caller takes the whole output.
RECURSIVE WithoutPadding(_)
WithoutPadding(in) ==
    IF in # <<>> /\ Last(in) = Pad THEN WithoutPadding(Front(in)) ELSE in
base32_decode_padding(in, outlen) == base32_decode(WithoutPadding(in), outlen)

\* The two calls of CryptoJNI: the output is allocated for the length of the
\* text as it stands, and all of it is returned.
base32Encode(in, padding) ==
    base32_encode_padding(in, base32_encoded_length(Len(in)) + 1, padding)
base32Decode(in) ==
    LET outputLen == base32_decoded_length(Len(in))
        ret == base32_decode_padding(in, outputLen)
    IN IF ret = None THEN None ELSE ret \o Zeros(outputLen - Len(ret))

-----------------------------------------------------------------------------
(* der.c and the DER functions of ecdsa.c                                  *)

\* A mutant: without the sign byte.
Unsigned(sig, from, to) ==
    LET i == LeadingZeros(SubSeq(sig, from, to))
    IN <<2, to + 1 - from - i>> \o SubSeq(sig, from + i, to)

\* One integer: the bytes from "from" without leading zeros, the sign byte
\* by the first byte behind them - at a zero the byte after the number.
DerInteger(sig, from, to) ==
    LET i == LeadingZeros(SubSeq(sig, from, to))
        sign == IF sig[from + i] >= 128 THEN <<0>> ELSE <<>>
        bytes == sign \o SubSeq(sig, from + i, to)
    IN <<2, Len(bytes)>> \o bytes

sig_to_der(sig) ==
    LET r == DerInteger(sig, 1, NUMBER_BYTES)
        s == DerInteger(sig, NUMBER_BYTES + 1, 2 * NUMBER_BYTES)
    IN <<48, Len(r) + Len(s)>> \o r \o s
ecdsa_sig_to_der(sig) == sig_to_der(sig)

\* One integer read at p: its bytes, filled up to the size of a number, and
\* where it ends; one leading zero is skipped.
ReadInteger(der, p) ==
    LET skip == IF der[p + 2] = 0 THEN 1 ELSE 0
        len == der[p + 1] - skip
    IN IF der[p] # 2 THEN [bytes |-> None, end |-> p]
       ELSE [bytes |-> Zeros(IF len < NUMBER_BYTES THEN NUMBER_BYTES - len ELSE 0)
                       \o SubSeq(der, p + 2 + skip, p + 1 + skip + len),
             end |-> p + 2 + skip + len]

der_to_sig(der) ==
    LET r == ReadInteger(der, 3)
        s == ReadInteger(der, r.end)
    IN IF der[1] # 48 \/ r.bytes = None \/ s.bytes = None THEN None
       ELSE r.bytes \o s.bytes

\* One of the two integers, and Failed as its end when a check fails.
Failed == 0
CheckedInteger(der, pos) ==
    LET int_len == der[pos + 1]
        skip == IF int_len # 0 /\ der[pos + 2] = 0 THEN 1 ELSE 0
        ok == /\ Len(der) >= pos + 1 /\ der[pos] = 2
              /\ pos + 1 + int_len <= Len(der)
              /\ int_len - skip <= NUMBER_BYTES
    IN IF ok THEN [bytes |-> Zeros(NUMBER_BYTES - (int_len - skip))
                             \o SubSeq(der, pos + 2 + skip, pos + 1 + int_len),
                   end |-> pos + 2 + int_len]
       ELSE [bytes |-> None, end |-> Failed]

ecdsa_sig_from_der(der) ==
    LET r == CheckedInteger(der, 3)
        s == CheckedInteger(der, r.end)
    IN IF \/ Len(der) < 2 \/ Len(der) > 2 * NUMBER_BYTES + 8
          \/ der[1] # 48 \/ der[2] # Len(der) - 2
          \/ r.end = Failed \/ s.end = Failed \/ s.end # Len(der) + 1
       THEN None ELSE r.bytes \o s.bytes

-----------------------------------------------------------------------------

Written(j) ==
    CASE j.codec = "hex" -> hexToStr(j.input, j.option)
      [] j.codec = "base32" -> base32Encode(j.input, j.option = 1)
      [] j.codec = "base58" -> base58_encode(j.input)
      [] j.codec = "base58check" -> base58_encode_check(j.input)
      [] j.codec = "der" -> sig_to_der(j.input)
      [] j.codec = "ecdsa der" -> ecdsa_sig_to_der(j.input)
      [] j.codec = "amount" -> bn_format(Digit(j.input[1]), <<>>, <<>>, j.input[2], j.input[3],
                                         j.option = 1, j.room)

Read(codec, t, malloc) ==
    CASE codec = "hex" -> strToHex(t, Len(t) \div 2)
      [] codec = "base32" -> base32Decode(t)
      [] codec = "base58" -> base58_decode(t, malloc)
      [] codec = "base58check" -> base58_decode_check(t, malloc)
      [] codec = "der" -> der_to_sig(t)
      [] codec = "ecdsa der" -> ecdsa_sig_from_der(t)

Init ==
    /\ job \in Jobs
    /\ text = <<>> /\ back = <<>>
    /\ way = "as written" /\ phase = "given"

Write ==
    /\ phase = "given"
    /\ text' = Written(job)
    /\ phase' = "written"
    /\ UNCHANGED <<job, way, back>>

\* Characters the reader takes for the ones that were written.
Spellings(c) ==
    CASE job.codec \in {"hex", "base32"} ->
            IF c \in 65..90 THEN {c + 32} ELSE IF c \in 97..122 THEN {c - 32} ELSE {}
      [] job.codec \in {"base58", "base58check"} -> IF c = 0 THEN {Foreign} ELSE {}
      [] OTHER -> {}
Spoilt(c) ==
    CASE job.codec = "base32" -> {45, 48}
      [] job.codec = "base58check" -> Alphabet \ {c}
      [] job.codec = "ecdsa der" -> {(c + 1) % 256, (c + 128) % 256}
      [] OTHER -> {}

Travel(kind, Changed(_)) ==
    /\ phase = "written" /\ way = "as written" /\ text # None
    /\ \E i \in 1..Len(text), c \in 0..255 :
          /\ c \in Changed(text[i])
          /\ text' = [text EXCEPT ![i] = c]
    /\ way' = kind
    /\ UNCHANGED <<job, back, phase>>

ReadBack ==
    /\ phase = "written"
    /\ job.codec # "amount" /\ text # None
    /\ \E malloc \in Garbage : back' = Read(job.codec, text, malloc)
    /\ phase' = "read"
    /\ UNCHANGED <<job, text, way>>

Next ==
    \/ Write
    \/ Travel("respelt", Spellings)
    \/ Travel("spoilt", Spoilt)
    \/ ReadBack

Spec == Init /\ [][Next]_vars

-----------------------------------------------------------------------------

\* The Python prototype in the comment of bn_format.
Decimal(v) == LET d == CHOOSE n \in 1..10 : (n = 1 \/ v >= 10 ^ (n - 1)) /\ (n = 10 \/ v < 10 ^ n)
              IN [i \in 1..d |-> (v \div 10 ^ (d - i)) % 10]
Padded(v, n) == [i \in 1..n |-> (v \div 10 ^ (n - i)) % 10]
RECURSIVE Stripped(_)
Stripped(t) == IF t # <<>> /\ Last(t) = 0 THEN Stripped(Front(t)) ELSE t
Prototype(v, decimals, exponent, trailing) ==
    LET amount == IF exponent >= 0 THEN v * 10 ^ exponent ELSE v \div 10 ^ (-exponent)
        d == 10 ^ decimals
        digits == Padded(amount % d, decimals)
        fraction == IF trailing THEN digits ELSE Stripped(digits)
    IN Decimal(amount \div d) \o (IF fraction = <<>> THEN <<>> ELSE <<Point>> \o fraction)

\* Leading zeros of base 58 that are copied from memory nobody wrote.
Unwritten == LeadingZeros(job.input) - (Len(text) - Len(job.input))

\* The DER texts of a signature: either integer with any leading zeros.
DerIntegers(half) ==
    LET number == DropFirst(half, LeadingZeros(half))
    IN {<<2, k + Len(number)>> \o Zeros(k) \o number : k \in 0..(NUMBER_BYTES + 1)}
DerForms(sig) ==
    {<<48, Len(r) + Len(s)>> \o r \o s :
        r \in DerIntegers(SubSeq(sig, 1, NUMBER_BYTES)),
        s \in DerIntegers(DropFirst(sig, NUMBER_BYTES))}

\* Both integers of a DER text are positive, with no zero that is not needed.
StrictDer(t) == \A i \in {5, 7 + t[4]} : t[i] < 128 /\ (t[i] = 0 => t[i + 1] >= 128)

\* What is written can be read: every value comes back from its text, with
\* the zeros base32Decode appends for padding and except for the leading
\* zeros of base 58 the decoder never writes; a letter of the other case and
\* a foreign character for a '1' change nothing; a base 32 text with any
\* other character is refused, and a spoilt base 58 or DER text only passes
\* if it is a text of what was read. DER is written in its strict form. An
\* amount is the text of the prototype in the comment of bn_format, if it fits
\* with its terminator.
CodecsInvert ==
    /\ phase = "written" /\ job.codec = "amount" =>
          LET right == Prototype(job.input[1], job.input[2], job.input[3], job.option = 1)
          IN /\ text = IF Len(right) < job.room THEN right ELSE None
             /\ bn_digitcount(Digit(job.input[1])) = Len(Decimal(job.input[1]))
    /\ phase = "written" /\ way = "as written" /\ job.codec \in {"der", "ecdsa der"} =>
          StrictDer(text)
    /\ phase = "read" /\ way # "spoilt" =>
          CASE job.codec = "base58" ->
                  /\ Len(back) = Len(job.input)
                  /\ \A i \in 1..Len(back) : back[i] = job.input[i] \/ i <= Unwritten
            [] job.codec = "base58check" ->
                  back = job.input
                  \/ LeadingZeros(job.input \o Checksum(job.input)) > Len(text) - Len(job.input) - 4
            [] job.codec = "base32" ->
                  back = job.input \o Zeros(base32_decoded_length(Len(text)) - Len(job.input))
            [] OTHER -> back = job.input
    /\ phase = "read" /\ way = "spoilt" =>
          CASE job.codec = "base32" -> back = None
            [] job.codec = "base58check" -> back = <<>> \/ base58_encode_check(back) = text
            [] job.codec = "ecdsa der" -> back = None \/ text \in DerForms(back)
=============================================================================
