------------------------------ MODULE Paddings ------------------------------
(***************************************************************************)
(* The class Aes: a message is padded by one of seven schemes, encrypted   *)
(* in one native call, decrypted in another and unpadded. Bytes are 0 to   *)
(* BYTE - 1; 0x80 is the upper half of them and 0xff the last.             *)
(***************************************************************************)
EXTENDS BlockModes

CONSTANT Data   \* bound: the messages

VARIABLES
    mode,
    data,       \* the message
    scheme,     \* the padding passed to both calls
    cipher,     \* what encrypt returned
    back,       \* what decrypt returned
    step        \* "new", "encrypted", "decrypted", or which call threw

vars == <<mode, data, scheme, cipher, back, step>>

Scheme == {"PKCS7", "ZeroByte", "ISO7816-4", "X9.23", "TBC", "ISO10126-2", "None"}
None == <<BYTE>>    \* an exception
Fill(n, v) == [i \in 1..n |-> v]

\* The array with count bytes of padding behind the data. X9.23 and ISO10126-2
\* cast a random Int to a byte for each of them but the last, their code, and
\* the cast throws: Aes passes a SecureRandom to every padder.
addPadding(s, in, count) ==
    CASE s = "PKCS7" -> in \o Fill(count, count)
      [] s \in {"ZeroByte", "None"} -> in \o Fill(count, 0)
      [] s = "ISO7816-4" -> in \o <<BYTE \div 2>> \o Fill(count - 1, 0)
      [] s \in {"X9.23", "ISO10126-2"} -> IF count > 1 THEN None ELSE in \o <<count>>
      [] s = "TBC" -> in \o Fill(count, IF Last(in) % 2 = 0 THEN BYTE - 1 ELSE 0)

\* A mutant: the last byte is believed.
LastByteIsCount(in) == IF Last(in) > Len(in) \/ Last(in) = 0 THEN -1 ELSE Last(in)
\* The count of PKCS7Padding, and -1 when it throws.
padCount(in) ==
    LET count == Last(in)
    IN IF \/ count > Len(in) \/ count = 0
          \/ \E i \in 1..Len(in) : Len(in) - i < count /\ in[i] # count
       THEN -1 ELSE count

padding(s, in) ==
    LET paddingLength == BLOCK - (Len(in) % BLOCK)
    IN IF paddingLength = BLOCK THEN in ELSE addPadding(s, in, paddingLength)

\* Whatever the scheme, it is PKCS7 that is taken off.
unPadding(in) ==
    IF in = <<>> THEN None
    ELSE IF padCount(in) = -1 THEN in ELSE SubSeq(in, 1, Len(in) - padCount(in))

Init ==
    /\ mode \in Mode /\ data \in Data /\ scheme \in Scheme
    /\ cipher = <<>> /\ back = <<>> /\ step = "new"

\* encryptECB .. encryptCTR: the message is padded in every mode.
Encrypt ==
    /\ step = "new"
    /\ LET padded == padding(scheme, data)
       IN IF padded = None THEN step' = "encrypt threw" /\ UNCHANGED cipher
          ELSE /\ cipher' = Encrypted(mode, padded, StartOfMessage).out
               /\ step' = "encrypted"
    /\ UNCHANGED <<mode, data, scheme, back>>

Decrypt ==
    /\ step = "encrypted"
    /\ LET plain == unPadding(Decrypted(mode, cipher, StartOfMessage).out)
       IN IF plain = None THEN step' = "decrypt threw" /\ UNCHANGED back
          ELSE back' = plain /\ step' = "decrypted"
    /\ UNCHANGED <<mode, data, scheme, cipher>>

Next == Encrypt \/ Decrypt

Spec == Init /\ [][Next]_vars

-----------------------------------------------------------------------------

\* The last n of the bytes are n.
EndsLikePadding(in) == \E n \in 1..Len(in) : \A i \in Len(in) - n + 1..Len(in) : in[i] = n

\* A message that was padded comes back from every mode: exactly with PKCS7,
\* and with the code of the two random schemes, with its padding behind it from
\* the schemes decrypt never takes off. (ISO7816-4 is not listed: its one byte
\* 0x80 behind 127 others is taken for PKCS7.) A message of whole blocks is
\* not padded, and comes back unless it ends like padding; then it may lose
\* its end. encrypt throws for a random scheme with random bytes to add alone
\* (RandomPaddingIsAdded), decrypt for the message of no bytes alone.
PaddedInverts ==
    /\ step = "encrypt threw" =>
            scheme \in {"X9.23", "ISO10126-2"} /\ Len(data) % BLOCK \in 1..(BLOCK - 2)
    /\ step = "decrypt threw" => data = <<>>
    /\ (step = "decrypted" /\ Len(data) % BLOCK = 0) =>
            IF EndsLikePadding(data) THEN IsPrefix(back, data) ELSE back = data
    /\ (step = "decrypted" /\ Len(data) % BLOCK # 0) =>
            /\ scheme \in {"PKCS7", "X9.23", "ISO10126-2"} => back = data
            /\ scheme \in {"ZeroByte", "TBC", "None"} =>
                  IsPrefix(data, back) /\ Len(back) % BLOCK = 0

\* The comment over X923Padding: "if a SecureRandom is passed in random padding
\* is assumed". Whatever the scheme, a message is padded and encrypted.
RandomPaddingIsAdded == step # "encrypt threw"
=============================================================================
