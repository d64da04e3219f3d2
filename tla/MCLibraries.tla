----------------------------- MODULE MCLibraries -----------------------------
(***************************************************************************)
(* The native libraries and the formats of the chains: what they compute,  *)
(* the calls that share the virtual machine, and what the serializers of a *)
(* Bitcoin transaction sign. Each is a part of its own: the initial state  *)
(* chooses the part, and the others do not move. The variables of the      *)
(* parts share the slots v1 to v8; a slot the part has no variable for     *)
(* stays 0. SigHash keeps its own.                                         *)
(***************************************************************************)
EXTENDS MCSigHash

VARIABLES part, v1, v2, v3, v4, v5, v6, v7, v8

slots == <<v1, v2, v3, v4, v5, v6, v7, v8>>
allVars == <<part, slots, vars>>

-----------------------------------------------------------------------------
(* Numbers of two limbs of five bits, and every second operand at which a  *)
(* limb, a carry or the modulus 127 ends.                                  *)
Field == INSTANCE FieldRegister WITH
    LIMBS <- 2, BITS_PER_LIMB <- 5, WORD <- 7, MAX_DECIMAL_DIGITS <- 6,
    Prime <- 127, Operand <- {1, 3, 9, 31, 32, 126, 127, 253},
    reg <- v1, call <- v2

-----------------------------------------------------------------------------
(* A curve of prime order over 24-bit numbers in three limbs of ten bits:  *)
(* y^2 = x^3 + 2 modulo 16774099. The keys are the ends of their range.    *)
(* The jobs retry a nonce out of range, one whose x is not below the order *)
(* and one that is not canonical; the last has the small s that leaves     *)
(* room for s plus the order.                                              *)
CurveNumber(v) == [i \in 1..3 |-> (v \div 1024 ^ (i - 1)) % 1024]
CurvePoint(xy) == [x |-> CurveNumber(xy[1]), y |-> CurveNumber(xy[2])]
Multiples ==
    <<<<<<3, 3206190>>, <<12549679, 13658292>>, <<14481138, 15584729>>, <<13797760, 1780181>>,
        <<5799572, 9159207>>, <<13605831, 9243706>>, <<13229957, 10723967>>, <<13825267, 4877211>>>>,
      <<<<13627997, 8585386>>, <<2682657, 10648235>>, <<11096979, 14110736>>, <<12581085, 760724>>,
        <<10654849, 15160291>>, <<16605900, 4747963>>, <<5320021, 16581309>>, <<13417659, 6615790>>>>,
      <<<<13449410, 11837157>>, <<15790915, 10192457>>, <<5819155, 14672041>>, <<12592818, 6046616>>,
        <<15617502, 388858>>, <<2446698, 7758213>>, <<16398509, 14900646>>, <<13687133, 4134464>>>>,
      <<<<14040389, 1011992>>, <<9385144, 14964466>>, <<6038736, 6386589>>, <<8553107, 8453118>>,
        <<12681087, 1997870>>, <<3369145, 5107513>>, <<8035547, 6060864>>, <<199834, 13269303>>>>,
      <<<<14037700, 9304527>>, <<3752923, 9354528>>, <<3674698, 7747330>>, <<2076525, 4124469>>,
        <<8362745, 342214>>, <<9265587, 12347112>>, <<8951968, 3333842>>, <<14698422, 13479098>>>>,
      <<<<13592500, 12338518>>, <<174212, 8180080>>, <<13928785, 7385341>>, <<1937989, 6269948>>,
        <<15010002, 11681628>>, <<10467970, 3802442>>, <<9345172, 5509947>>, <<1931458, 8706565>>>>>>
CurveTable == [i \in 0..5 |-> [j \in 0..7 |-> CurvePoint(Multiples[i + 1][j + 1])]]
CurveJobs ==
    {[digest |-> 16777215, ks |-> <<16773307, 26993>>, rule |-> "any"],
     [digest |-> 16773307, ks |-> <<0, 26993, 16773306>>, rule |-> "ethereum"],
     [digest |-> 123456, ks |-> <<2, 8386653, 4>>, rule |-> "eos"],
     [digest |-> 0, ks |-> <<7777777>>, rule |-> "any"],
     [digest |-> 10973780, ks |-> <<9>>, rule |-> "any"]}
CurvePrime == CurveNumber(16774099)
CurveOrder == CurveNumber(16773307)
CurveHalf == CurveNumber(8386653)
CurveB == CurveNumber(2)
CurveG == CurvePoint(<<3, 3206190>>)

Curve == INSTANCE SignatureCalls WITH
    LIMBS <- 3, BITS_PER_LIMB <- 10, WORD <- 12, MAX_DECIMAL_DIGITS <- 12,
    prime <- CurvePrime, order <- CurveOrder, order_half <- CurveHalf,
    G <- CurveG, a <- 0, b <- CurveB, cp <- CurveTable,
    Key <- {1, 16773306}, Job <- CurveJobs, Noise <- {0, 9999999},
    phase <- v1, priv <- v2, pub <- v3, signing <- v4, sig <- v5, claim <- v6,
    verdict <- v7, found <- v8

-----------------------------------------------------------------------------
(* Texts of every short input over bytes at the ends of digits and signs,  *)
(* signatures of two two-byte numbers, amounts around their rounding.      *)
MCChecksum(bytes) ==
    LET s == FoldLeft(LAMBDA v, x : ((v * 31) + x + 7) % 1000003, 1, bytes)
    IN <<s % 256, (s \div 256) % 256, (s \div 7) % 256, (s \div 77) % 256>>
Job(codec, input, option, room) ==
    [codec |-> codec, input |-> input, option |-> option, room |-> room]
Halves == {<<0, 1>>, <<0, 127>>, <<128, 0>>, <<255, 128>>, <<1, 0>>}
CodecJobs ==
    {Job("hex", i, o, 0) : i \in UNION {[1..n -> {0, 9, 154, 171}] : n \in 0..2}, o \in {0, 1}}
    \cup {Job("base32", [k \in 1..n |-> (k * f) % 256], o, 0) :
             n \in 0..10, f \in {0, 37, 255}, o \in {0, 1}}
    \cup {Job("base58", i, 0, 0) : i \in UNION {[1..n -> {0, 1, 58, 255}] : n \in 0..3}}
    \cup {Job("base58check", i, 0, 0) : i \in {<<0>>, <<0, 0, 0>>, <<200, 1>>, <<0, 255>>}}
    \cup {Job(c, r \o s, 0, 0) : c \in {"der", "ecdsa der"}, r \in Halves, s \in Halves}
    \cup {Job("amount", <<v, d, e>>, t, r) :
             v \in {0, 5, 10, 100, 12345, 999900}, d \in {0, 1, 2, 4},
             e \in {-7, -3, -1, 0, 1, 2}, t \in {0, 1}, r \in {1, 4, 40}}

Codec == INSTANCE Codecs WITH
    LIMBS <- 2, BITS_PER_LIMB <- 20, WORD <- 22, MAX_DECIMAL_DIGITS <- 8,
    NUMBER_BYTES <- 2, Checksum <- MCChecksum, Garbage <- {0, 165}, Jobs <- CodecJobs,
    job <- v1, text <- v2, way <- v3, back <- v4, phase <- v5

-----------------------------------------------------------------------------
(* A permutation of blocks of three two-bit bytes in place of AES.         *)
Blocks == [1..3 -> 0..3]
OfBlock(b) == (b[1] * 16) + (b[2] * 4) + b[3]
ToBlock(v) == <<v \div 16, (v \div 4) % 4, v % 4>>
Cipher == [b \in Blocks |-> ToBlock((OfBlock(b) * 13 + ((OfBlock(b) \div 8) * 16) + 11) % 64)]
Decipher == [b \in Blocks |-> CHOOSE c \in Blocks : Cipher[c] = b]
ASSUME Permutation == \A b \in Blocks : Decipher[Cipher[b]] = b
FirstIV == <<3, 3, 2>>

Modes == INSTANCE ModeCalls WITH
    BLOCK <- 3, BYTE <- 4, E <- Cipher, D <- Decipher, InitialIV <- FirstIV,
    Message <- <<1, 2, 0, 3, 3, 0, 2, 1>>,
    mode <- v1, sent <- v2, enc <- v3, dec <- v4, wire <- v5, got <- v6, cut <- v7
Aes == INSTANCE Paddings WITH
    BLOCK <- 3, BYTE <- 4, E <- Cipher, D <- Decipher, InitialIV <- FirstIV,
    Data <- UNION {[1..n -> 0..2] : n \in 0..4},
    mode <- v1, data <- v2, scheme <- v3, cipher <- v4, back <- v5, step <- v6

-----------------------------------------------------------------------------
(* The permutation of sha3.c on lanes of 16 bits, with the low bits of the *)
(* first constants.                                                        *)
Sponge == INSTANCE Keccak WITH
    LANE <- 16, keccak_round_constants <- <<1, 32898, 32906, 32768, 32907, 1>>,
    Absorbed <- {[i \in 1..9 |-> (i * 7919) % 65536], [i \in 1..17 |-> (i * 10007) % 65536]},
    lanes <- v1, standard <- v2, blocks <- v3, round <- v4

(* Digests of blocks of eight cells with counter words of 128, which a     *)
(* message of sixteen bytes overflows; between 24 and 120 bytes a message  *)
(* only ever starts with one piece of 120.                                 *)
MCMix(h, cells) ==
    LET F(v, x) == ((v * 31) + x + 7) % 65521
        s == FoldLeft(F, FoldLeft(F, 1, h), cells)
        next == [i \in 1..Len(h) |-> ((s * (2 * i + 1)) + (h[i] * 5) + i) % 251]
    IN SubSeq(next, 1, Len(h))
MCByte(n) == ((n * 7) % 120) + 1
Digest == INSTANCE DigestCalls WITH
    BLOCK <- 8, DIGEST <- 4, WORD <- 128, Mix <- MCMix, Byte <- MCByte,
    Pieces <- {0, 1, 3, 7, 8, 17, 120}, LONGEST <- 131, Skipped <- 25..119,
    Keys <- {<<>>, <<9, 8>>, <<1, 2, 3, 4, 5>>},
    call <- v1, ctx <- v2, taken <- v3, result <- v4, rounds <- v5
(* Keys shorter and longer than a block, and one of a digest.              *)
Keyed == INSTANCE KeyCalls WITH
    BLOCK <- 8, DIGEST <- 3, WORD <- 128, Mix <- MCMix,
    Keys <- {<<>>, <<1, 2, 3>>, <<250, 2, 3>>, [i \in 1..17 |-> i + 3]},
    Pieces <- {<<>>, [i \in 1..7 |-> 2 * i]},
    Amounts <- {1, 4}, STEPS <- 2, order <- 16000001,
    call <- v1, c <- v2, given <- v3, out <- v4, steps <- v5

-----------------------------------------------------------------------------
(* Scripts over bytes of four bits, in which lengths change their form at  *)
(* 5, 15, 255 and, in front of a script, at 13 and 255.                    *)
ScriptSizes == {0, 2, 4, 5, 14, 15, 16, 254, 255, 256}
Script == INSTANCE Scripts WITH
    BYTE <- 16, OP_PUSHDATA1 <- 5, PREFIX <- 15,
    Numbers <- {0, 1, 3, 17}, Opcodes <- {8, 13, 15},
    Datas <- {[i \in 1..n |-> (i * 7) % 16] : n \in ScriptSizes} \cup {<<3>>, <<9>>},
    LONGEST <- 2, CUT <- 6,
    chunks <- v1, way <- v2, lost <- v3, rest <- v4, read <- v5, phase <- v6

(* Transactions whose numbers and data have lengths around 0, 1, 55 and    *)
(* 255 bytes, for both networks.                                           *)
EthereumTo == [i \in 1..20 |-> 12 * i]
EthereumData ==
    {<<>>, <<127>>, <<128>>} \cup {[i \in 1..n |-> (i * 37) % 256] : n \in {2, 55, 56, 256}}
EthereumNone == -1
EthereumUnsigned == [r |-> <<>>, s |-> <<>>, v |-> -1]
EthereumTx(type, nonce, price, fees, value, data) ==
    [transactionType |-> type, nonce |-> nonce, gasPrice |-> price,
     maxPriorityFeePerGas |-> fees[1], maxFeePerGas |-> fees[2], gasLimit |-> 21000,
     to |-> EthereumTo, value |-> value, data |-> data, signature |-> EthereumUnsigned]
Ethereum == INSTANCE EthereumTransactions WITH
    Transactions <-
        {EthereumTx(EthereumNone, n, 128, <<EthereumNone, EthereumNone>>, v, d) :
            n \in {0, 127, 255}, v \in {0, 65536}, d \in EthereumData}
        \cup {EthereumTx(2, n, EthereumNone, <<0, 256>>, v, d) :
            n \in {0, 127, 255}, v \in {0, 65536}, d \in EthereumData},
    Networks <- {1, 3},
    Signatures <- {[r |-> <<200, 1>>, s |-> <<0, 9>>, v |-> 27], [r |-> <<7>>, s |-> <<128>>, v |-> 28]},
    CUT <- 3,
    tx <- v1, network <- v2, hashed <- v3, wire <- v4, lost <- v5, got <- v6, phase <- v7

(* Two threads; one calls any function, the other one of two that stay     *)
(* inside a critical region longest or for good, and two collections begin. *)
MCCalls(t, f) == t = 1 \/ f \in {"hmac_sha256", "blake2s"}
Native == INSTANCE NativeCalls WITH
    Thread <- {1, 2}, Calls <- MCCalls, CALLS <- 1, COLLECTIONS <- 2,
    fn <- v1, todo <- v2, held <- v3, made <- v4, left <- v5, gc <- v6, collections <- v7

-----------------------------------------------------------------------------
\* Beside the other parts there is no transaction: one without inputs has
\* nothing to sign.
Parked ==
    /\ tx = [version |-> DEFAULT_TX_VERSION, inputs |-> <<>>, outputs |-> <<>>, lockTime |-> 0]
    /\ signed = tx /\ edits = 0

LibrariesInit ==
    \/ part = "field" /\ Field!Init /\ v3 = 0 /\ v4 = 0 /\ v5 = 0 /\ v6 = 0 /\ v7 = 0 /\ v8 = 0
    \/ part = "curve" /\ Curve!Init
    \/ part = "codec" /\ Codec!Init /\ v6 = 0 /\ v7 = 0 /\ v8 = 0
    \/ part = "modes" /\ Modes!Init /\ v8 = 0
    \/ part = "aes" /\ Aes!Init /\ v7 = 0 /\ v8 = 0
    \/ part = "sponge" /\ Sponge!Init /\ v5 = 0 /\ v6 = 0 /\ v7 = 0 /\ v8 = 0
    \/ part = "digest" /\ Digest!Init /\ v6 = 0 /\ v7 = 0 /\ v8 = 0
    \/ part = "keyed" /\ Keyed!Init /\ v6 = 0 /\ v7 = 0 /\ v8 = 0
    \/ part = "script" /\ Script!Init /\ v7 = 0 /\ v8 = 0
    \/ part = "ethereum" /\ Ethereum!Init /\ v8 = 0
    \/ part = "native" /\ Native!Init /\ v8 = 0

AllInit ==
    \/ LibrariesInit /\ Parked
    \/ /\ part = "sighash" /\ Init
       /\ v1 = 0 /\ v2 = 0 /\ v3 = 0 /\ v4 = 0 /\ v5 = 0 /\ v6 = 0 /\ v7 = 0 /\ v8 = 0

LibrariesNext ==
    \/ part = "field" /\ Field!Next /\ UNCHANGED <<v3, v4, v5, v6, v7, v8>>
    \/ part = "curve" /\ Curve!Next
    \/ part = "codec" /\ Codec!Next /\ UNCHANGED <<v6, v7, v8>>
    \/ part = "modes" /\ Modes!Next /\ UNCHANGED v8
    \/ part = "aes" /\ Aes!Next /\ UNCHANGED <<v7, v8>>
    \/ part = "sponge" /\ Sponge!Next /\ UNCHANGED <<v5, v6, v7, v8>>
    \/ part = "digest" /\ Digest!Next /\ UNCHANGED <<v6, v7, v8>>
    \/ part = "keyed" /\ Keyed!Next /\ UNCHANGED <<v6, v7, v8>>
    \/ part = "script" /\ Script!Next /\ UNCHANGED <<v7, v8>>
    \/ part = "ethereum" /\ Ethereum!Next /\ UNCHANGED v8
    \/ part = "native" /\ Native!Next /\ UNCHANGED v8

AllNext ==
    \/ LibrariesNext /\ UNCHANGED <<part, vars>>
    \/ part = "sighash" /\ Next /\ UNCHANGED <<part, slots>>

\* The fairness of NativeCalls, for its part
NativeStep(A) == part = "native" /\ A /\ UNCHANGED <<part, v8, vars>>
AllSpec ==
    /\ AllInit /\ [][AllNext]_allVars
    /\ \A t \in {1, 2} : /\ WF_allVars(NativeStep(Native!Step(t)))
                         /\ WF_allVars(NativeStep(Native!Return(t)))
    /\ WF_allVars(NativeStep(Native!Collect))

-----------------------------------------------------------------------------
(* The properties of the parts, each in its part's module.                 *)

\* What bignum.c guarantees of every number it leaves, along any sequence of
\* its calls.
FieldOpsExact == [][part = "field" => Field!FieldOpsExact]_allVars
\* Keys, signatures and shared secrets of ecdsa.c are those of the group.
CurveOpsExact == part = "curve" => Curve!CurveOpsExact
\* What base32.c, base58.c, hexstring.c, der.c and bn_format write is read back.
CodecsInvert == part = "codec" => Codec!CodecsInvert
\* Both sides of the five modes of aes_modes.c read one message.
ModesAgree == part = "modes" => Modes!ModesAgree
\* What encrypt of Aes pads, decrypt gives back.
PaddedInverts == part = "aes" => Aes!PaddedInverts
\* The random paddings are added, as the comment over X923Padding has it.
RandomPaddingIsAdded == part = "aes" => Aes!RandomPaddingIsAdded
\* The digests of native-crypto do not depend on how the message is cut, and
\* the permutation under sha3.c is the standard's.
DigestIsOfWholeMessage ==
    /\ part = "sponge" => Sponge!PermutationIsStandard
    /\ part = "digest" => Digest!DigestIsOfWholeMessage
\* HMAC, PBKDF2, the generator of rfc6979 and hasher.c give what they are
\* defined as.
KeysDerived == part = "keyed" => Keyed!KeysDerived
\* A Bitcoin script and an Ethereum transaction are read as they were written,
\* or refused when they lost their end, and the network rebuilds from a signed
\* transaction what its sender hashed.
FormatsRead ==
    /\ part = "script" => Script!ScriptsRead
    /\ part = "ethereum" => Ethereum!TransactionsRead
\* Every JNI function gives back what it took, on each of its paths, and asks
\* for nothing inside a critical region that could wait for the collector.
NothingLeftBehind == part = "native" => Native!NothingLeftBehind
\* A call of a JNI function returns, beside the other threads and the collector.
NativeCallsReturn ==
    \A t \in {1, 2} : (part = "native" /\ Native!Busy(t))
                        ~> (part = "native" => ~Native!Busy(t) \/ Native!IsPinned(v5))
=============================================================================
