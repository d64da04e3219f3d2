---------------------------- MODULE NativeCalls ----------------------------
(***************************************************************************)
(* The JNI functions of the crypto modules, as what each takes from the    *)
(* virtual machine and from the heap and gives back on each of its paths,  *)
(* run by several threads beside a collector. An array is read through a   *)
(* copy, or pinned in a critical region, which holds the collector up; the *)
(* text of a string is copied. What the functions compute is in the other  *)
(* modules; here it is one step, which may refuse its input.               *)
(***************************************************************************)
EXTENDS Integers, SequencesExt

CONSTANTS
    Thread,
    Calls(_, _),    \* bound: whether a thread calls a function
    CALLS,          \* bound: calls of one thread
    COLLECTIONS     \* bound: collections begun

VARIABLES
    fn,         \* the function each thread is in, "" outside
    todo,       \* what it has yet to do
    held,       \* what it has taken and not given back
    made,       \* how many calls it has begun
    left,       \* what the calls that returned never gave back, with the thread
    gc,         \* "off", or "wanted": a collection waits for the critical regions
    collections

vars == <<fn, todo, held, made, left, gc, collections>>

\* A step of a function, and one with a path of its own for when it fails.
Do(op, on) == [op |-> op, on |-> on, fails |-> FALSE, otherwise |-> <<>>]
Try(op, on, otherwise) == [op |-> op, on |-> on, fails |-> TRUE, otherwise |-> otherwise]

-----------------------------------------------------------------------------
(* The functions. "get" and "release" are GetByteArrayElements and its     *)
(* release, "pin" and "unpin" the critical ones, "chars" and "unchars"     *)
(* those of a string; "length" is GetArrayLength, "new" makes an array or  *)
(* a string. Where the code does not look at what an allocation returned,  *)
(* it does not fail here.                                                  *)

copy_array_to_c(a) == <<Do("length", a), Do("get", a)>>
\* The caller looks at what it returned.
checked_array_to_c(a, otherwise) == <<Do("length", a), Try("get", a, otherwise)>>
copy_array_release(a) == Do("release", a)
critical_array_to_c(a) == <<Do("length", a), Do("pin", a)>>
critical_array_release(a) == Do("unpin", a)
as_byte_array(a) == Do("new", a)

\* A digest of one array: it is read through a copy or pinned.
Copied(a, steps) == copy_array_to_c(a) \o steps \o <<copy_array_release(a)>>
Pinned(a, steps) == critical_array_to_c(a) \o steps \o <<critical_array_release(a)>>
Digest(taken) ==
    <<Try("alloc", "digest", <<>>)>> \o taken \o <<Do("new", "returnBytes"), Do("free", "digest")>>
Once == <<Do("compute", "digest")>>
Twice == Once \o Once

sha256 == Digest(Copied("date", Once))
sha512 == Digest(Copied("date", Once))
doubleSha256 == Digest(Copied("date", Twice))
sha3_224 == Digest(Pinned("date", Once))
\* A mutant: the result is made while the message is still pinned.
MadeWhilePinned ==
    <<Try("alloc", "digest", <<>>)>> \o Pinned("date", Once \o <<Do("new", "returnBytes")>>)
        \o <<Do("free", "digest")>>
sha3_256 == Digest(Pinned("date", Once))
sha3_384 == Digest(Pinned("date", Once))
sha3_512 == Digest(Pinned("date", Once))
doubleSha3_256 == Digest(Pinned("date", Twice))
keccak_224 == Digest(Pinned("date", Once))
keccak_256 == Digest(Pinned("date", Once))
keccak_384 == Digest(Pinned("date", Once))
keccak_512 == Digest(Pinned("date", Once))
doubleKeccak_256 == Digest(Pinned("date", Twice))

ripemd160 ==
    copy_array_to_c("message")
        \o <<Do("alloc", "output"), Do("compute", "output"),
             copy_array_release("message"), Do("new", "returnBytes")>>

\* Two critical regions, one begun inside the other, ended in the same order.
Hmac ==
    Digest(critical_array_to_c("key") \o critical_array_to_c("message")
              \o <<Do("compute", "digest"),
                   critical_array_release("key"), critical_array_release("message")>>)
hmac_sha256 == Hmac
hmac_sha512 == Hmac

Blake2(taken, kept, refused) ==
    taken \o <<Do("alloc", "output"), Try("compute", "output", refused \o <<Do("free", "output")>>)>>
          \o kept \o <<Try("new", "result", <<>>), Do("free", "output")>>
Input == critical_array_to_c("input")
InputAndKey == Input \o critical_array_to_c("key")
InputEnds == <<critical_array_release("input")>>
BothEnd == InputEnds \o <<critical_array_release("key")>>
blake2b == Blake2(Input, InputEnds, InputEnds)
blake2bWithKey == Blake2(InputAndKey, BothEnd, BothEnd)
\* A refusal releases the pinned array as if it had been copied.
blake2s == Blake2(Input, InputEnds, <<copy_array_release("input")>>)
blake2sWithKey == Blake2(InputAndKey, BothEnd, BothEnd)
blake_256 ==
    Input \o <<Do("alloc", "output"), Do("compute", "output")>> \o InputEnds
          \o <<Try("new", "result", <<>>), Do("free", "output")>>

\* A mutant: the array stays pinned when there is no memory.
HexKeepsArray ==
    critical_array_to_c("bytes")
        \o <<Try("alloc", "out", <<>>), Do("compute", "out"),
             critical_array_release("bytes"), Do("new", "result"), Do("free", "out")>>
hexToStr ==
    critical_array_to_c("bytes")
        \o <<Try("alloc", "out", <<critical_array_release("bytes")>>), Do("compute", "out"),
             critical_array_release("bytes"), Do("new", "result"), Do("free", "out")>>
strToHex ==
    <<Try("alloc", "out", <<>>), Do("chars", "date"), Do("compute", "out"), Do("unchars", "date"),
      Do("new", "result"), Do("free", "out")>>

base32Encode ==
    critical_array_to_c("input")
        \o <<Do("alloc", "output"), Try("compute", "output", <<critical_array_release("input")>>),
             critical_array_release("input"), Do("new", "result"), Do("free", "output")>>
base32Decode ==
    <<Do("chars", "date"), Do("alloc", "output"), Try("compute", "output", <<Do("unchars", "date")>>),
      Do("unchars", "date"), Do("new", "outputArray"), Do("free", "output")>>

\* These are given the memory by what they call.
base58Encode ==
    Pinned("bytes", <<Do("compute", "out"), Do("alloc", "out")>>)
        \o <<Do("new", "result"), Do("free", "out")>>
base58EncodeCheck ==
    Pinned("bytes", <<Do("compute", "out"), Do("alloc", "out")>>)
        \o <<Do("new", "result"), Do("free", "out")>>
Decode58 ==
    <<Do("chars", "date"), Do("compute", "out"), Do("alloc", "out"), Do("unchars", "date"),
      Do("new", "returnBytes"), Do("free", "out")>>
base58Decode == Decode58
base58DecodeCheck == Decode58

sig_to_der ==
    <<Try("alloc", "der", <<>>)>> \o Pinned("sign", <<Do("compute", "der")>>)
        \o <<Do("new", "returnBytes"), Do("free", "der")>>
der_to_sig ==
    <<Try("alloc", "sign", <<>>)>> \o critical_array_to_c("der")
        \o <<Try("compute", "sign", <<critical_array_release("der"), Do("free", "sign")>>),
             critical_array_release("der"), Do("new", "returnBytes"), Do("free", "sign")>>

PassAndSalt == <<copy_array_release("pass"), copy_array_release("salt")>>
Pbkdf2 ==
    checked_array_to_c("pass", copy_array_to_c("salt")) \o checked_array_to_c("salt", <<>>)
        \o <<Try("alloc", "output", PassAndSalt), Do("compute", "output")>>
        \o PassAndSalt
        \o <<Try("new", "resultArray", <<Do("free", "output")>>), Do("free", "output")>>
pbkdf2_hmac_sha256 == Pbkdf2
pbkdf2_hmac_sha512 == Pbkdf2

\* Aes: a key of a wrong length and data the mode refuses give an empty array.
AesArrays ==
    <<copy_array_release("data"), copy_array_release("key"), copy_array_release("iv")>>
AesCall ==
    LET failed == AesArrays \o <<Do("new", "empty")>>
    IN copy_array_to_c("key") \o copy_array_to_c("data") \o copy_array_to_c("iv")
         \o <<Try("compute", "ctx", failed), Try("compute", "obuf", failed),
              as_byte_array("returnBytes")>>
         \o AesArrays
encrypt == AesCall
decrypt == AesCall

createPublicKey ==
    critical_array_to_c("privateKey")
        \o <<Try("alloc", "pbKey", <<critical_array_release("privateKey")>>),
             Do("compute", "pbKey"), critical_array_release("privateKey"),
             Do("new", "outputBytes"), Do("free", "pbKey")>>

\* A message of more than 32 bytes is refused. The signature is not freed.
Signed(results) ==
    LET given == <<copy_array_release("private_key"), copy_array_release("messages")>>
    IN copy_array_to_c("messages")
         \o <<Try("fits", "messages", <<copy_array_release("messages")>>)>>
         \o copy_array_to_c("private_key")
         \o <<Do("alloc", "sig"), Try("compute", "sig", given)>>
         \o results \o given
sign == Signed(<<Do("new", "output_bytes")>>)
ethSign == Signed(<<Do("new", "sign_array"), Do("new", "output_list"), Do("new", "recs")>>)

verify ==
    copy_array_to_c("message") \o <<Try("fits", "message", <<>>)>>
        \o copy_array_to_c("public_key") \o copy_array_to_c("signature")
        \o <<Do("compute", "ret"), copy_array_release("public_key"),
             copy_array_release("signature"), copy_array_release("message")>>

ed25519_createPublicKey == Pinned("private_key", <<Do("compute", "public_key")>>) \o <<Do("new", "outputBytes")>>
ed25519_sign ==
    copy_array_to_c("private_key") \o copy_array_to_c("messages")
        \o <<Do("compute", "sig"), Do("new", "outputBytes"),
             copy_array_release("private_key"), copy_array_release("messages")>>
ed25519_verify ==
    copy_array_to_c("public_key") \o copy_array_to_c("signature") \o copy_array_to_c("message")
        \o <<Do("compute", "result"), copy_array_release("public_key"),
             copy_array_release("signature"), copy_array_release("message")>>
curve25519CreatePublicKey == Pinned("private_key", <<Do("compute", "pk")>>) \o <<Do("new", "outputBytes")>>
curve25519CreateSharedKey ==
    critical_array_to_c("privateKey") \o critical_array_to_c("publicKey")
        \o <<Do("compute", "shared"), critical_array_release("privateKey"),
             critical_array_release("publicKey"), Do("new", "outputBytes")>>

Functions ==
    [sha256 |-> sha256, sha512 |-> sha512, doubleSha256 |-> doubleSha256, sha3_224 |-> sha3_224,
     sha3_256 |-> sha3_256, sha3_384 |-> sha3_384, sha3_512 |-> sha3_512,
     doubleSha3_256 |-> doubleSha3_256, keccak_224 |-> keccak_224, keccak_256 |-> keccak_256,
     keccak_384 |-> keccak_384, keccak_512 |-> keccak_512, doubleKeccak_256 |-> doubleKeccak_256,
     ripemd160 |-> ripemd160, hmac_sha256 |-> hmac_sha256, hmac_sha512 |-> hmac_sha512,
     blake2b |-> blake2b, blake2bWithKey |-> blake2bWithKey, blake2s |-> blake2s,
     blake2sWithKey |-> blake2sWithKey, blake_256 |-> blake_256, hexToStr |-> hexToStr,
     strToHex |-> strToHex, base32Encode |-> base32Encode, base32Decode |-> base32Decode,
     base58Encode |-> base58Encode, base58EncodeCheck |-> base58EncodeCheck,
     base58Decode |-> base58Decode, base58DecodeCheck |-> base58DecodeCheck,
     sig_to_der |-> sig_to_der, der_to_sig |-> der_to_sig,
     pbkdf2_hmac_sha256 |-> pbkdf2_hmac_sha256, pbkdf2_hmac_sha512 |-> pbkdf2_hmac_sha512,
     encrypt |-> encrypt, decrypt |-> decrypt, createPublicKey |-> createPublicKey,
     sign |-> sign, ethSign |-> ethSign, verify |-> verify,
     ed25519_createPublicKey |-> ed25519_createPublicKey, ed25519_sign |-> ed25519_sign,
     ed25519_verify |-> ed25519_verify, curve25519CreatePublicKey |-> curve25519CreatePublicKey,
     curve25519CreateSharedKey |-> curve25519CreateSharedKey]

-----------------------------------------------------------------------------
(* The machine that runs them.                                             *)

Kind == [pin |-> "pinned", unpin |-> "pinned", get |-> "copy", release |-> "copy",
         chars |-> "text", unchars |-> "text", alloc |-> "block", free |-> "block"]
Taking == {"pin", "get", "chars", "alloc"}
Giving == {"unpin", "release", "unchars", "free"}

IsPinned(h) == \E x \in h : x.kind = "pinned"
Busy(t) == fn[t] # ""
At(t) == IF todo[t] = <<>> THEN "return" ELSE Head(todo[t]).op

Init ==
    /\ fn = [t \in Thread |-> ""]
    /\ todo = [t \in Thread |-> <<>>]
    /\ held = [t \in Thread |-> {}]
    /\ made = [t \in Thread |-> 0]
    /\ left = {}
    /\ gc = "off"
    /\ collections = 0

Call(t) ==
    /\ ~Busy(t)
    /\ made[t] < CALLS
    /\ \E f \in DOMAIN Functions :
          /\ Calls(t, f)
          /\ fn' = [fn EXCEPT ![t] = f]
          /\ todo' = [todo EXCEPT ![t] = Functions[f]]
    /\ made' = [made EXCEPT ![t] = @ + 1]
    /\ UNCHANGED <<held, left, gc, collections>>

\* Whether the machine lets the step happen now. A region inside a region of
\* the same thread is entered at once, or the collector would wait for it and
\* it for the collector; an allocation waits for a collection to be over.
Allowed(t) ==
    CASE At(t) = "pin" -> gc = "off" \/ IsPinned(held[t])
      [] At(t) = "new" -> gc = "off"
      [] OTHER -> TRUE

Step(t) ==
    /\ Busy(t)
    /\ todo[t] # <<>>
    /\ Allowed(t)
    /\ LET s == Head(todo[t])
       IN /\ todo' = [todo EXCEPT ![t] = Tail(@)]
          /\ held' = [held EXCEPT ![t] =
                 CASE s.op \in Taking -> @ \cup {[kind |-> Kind[s.op], on |-> s.on]}
                   [] s.op \in Giving -> @ \ {[kind |-> Kind[s.op], on |-> s.on]}
                   [] OTHER -> @]
    /\ UNCHANGED <<fn, made, left, gc, collections>>

\* The step fails and the function takes its other path.
Fail(t) ==
    /\ Busy(t)
    /\ todo[t] # <<>>
    /\ Allowed(t)
    /\ Head(todo[t]).fails
    /\ todo' = [todo EXCEPT ![t] = Head(@).otherwise]
    /\ UNCHANGED <<fn, held, made, left, gc, collections>>

Return(t) ==
    /\ Busy(t)
    /\ todo[t] = <<>>
    /\ fn' = [fn EXCEPT ![t] = ""]
    /\ left' = left \cup {[fn |-> fn[t], kind |-> x.kind, on |-> x.on] : x \in held[t]}
    /\ held' = [held EXCEPT ![t] = {}]
    /\ UNCHANGED <<todo, made, gc, collections>>

\* A thread that allocates, or any other, finds that there is little left.
Want ==
    /\ gc = "off"
    /\ collections < COLLECTIONS
    /\ gc' = "wanted"
    /\ collections' = collections + 1
    /\ UNCHANGED <<fn, todo, held, made, left>>

Collect ==
    /\ gc = "wanted"
    /\ ~IsPinned(left)
    /\ \A t \in Thread : ~IsPinned(held[t])
    /\ gc' = "off"
    /\ UNCHANGED <<fn, todo, held, made, left, collections>>

Next ==
    \/ \E t \in Thread : Call(t) \/ Step(t) \/ Fail(t) \/ Return(t)
    \/ Want
    \/ Collect

\* Native code runs until it waits, and so does the collector.
Fairness ==
    /\ \A t \in Thread : WF_vars(Step(t)) /\ WF_vars(Return(t))
    /\ WF_vars(Collect)

Spec == Init /\ [][Next]_vars /\ Fairness

-----------------------------------------------------------------------------
\* The paths that give something up for good: a buffer, a copy of an array,
\* and one critical region.
Known ==
    [fn : {"ripemd160", "base32Encode", "base32Decode"}, kind : {"block"}, on : {"output"}]
    \cup [fn : {"sign", "ethSign"}, kind : {"block"}, on : {"sig"}]
    \cup [fn : {"blake2b", "blake2bWithKey", "blake2s", "blake2sWithKey", "blake_256"},
          kind : {"block"}, on : {"output"}]
    \cup [fn : {"pbkdf2_hmac_sha256", "pbkdf2_hmac_sha512"}, kind : {"copy"}, on : {"pass", "salt"}]
    \cup [fn : {"verify"}, kind : {"copy"}, on : {"message"}]
    \cup [fn : {"blake2s"}, kind : {"pinned"}, on : {"input"}]

\* The functions that pin a second array: its length is asked for inside the
\* region of the first, where JNI wants no other call at all.
PinsTwo == {"hmac_sha256", "hmac_sha512", "blake2bWithKey", "blake2sWithKey",
            "curve25519CreateSharedKey"}

\* On every path of every function, what was taken is given back before it
\* returns, except on the paths listed; and inside a critical region nothing
\* is asked of the virtual machine that may wait for a collection, and nothing
\* but regions and the length of a second array at all.
NothingLeftBehind ==
    /\ left \subseteq Known
    /\ \A t \in Thread : IsPinned(held[t]) =>
          /\ At(t) \notin {"new", "get", "chars", "unchars"}
          /\ At(t) = "length" => fn[t] \in PinsTwo
          /\ At(t) \in {"release", "return"} => fn[t] = "blake2s"

\* A call returns, however the threads and the collector interleave, unless
\* a blake2s that was refused has left its array pinned.
NativeCallsReturn ==
    \A t \in Thread : Busy(t) ~> (~Busy(t) \/ IsPinned(left))
=============================================================================
