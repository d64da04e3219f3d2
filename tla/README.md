# ChainWallet: a verification project

TLA+ models of ChainWallet, an Android wallet for Bitcoin, Ethereum and EOS in
Kotlin over a cryptographic library in C: what it does when it selects coins,
builds and signs a transfer, keeps wallets and word lists, and reads feature
flags; how its scripts and transactions are written and read; and what its native
library computes and how the virtual machine calls it. TLC checks every model on
small instances; TLAPS proves the theorems listed below for every instance.

Run the tools in this directory: `tlc -config X.cfg M` for a run of the table
below, `tlapm M.tla` for a module of proofs. `PROJECT.json` lists components,
runs, mutants (the mistakes each property is known to catch), hazards, findings
and, under `map`, the lines of source each definition stands for.

## 1. Inventory

Paths are relative to `src/`; `bitcoin` is `chain/bitcoin/src/main/java/com/smallraw/chain/bitcoin`,
`core` is `chain/bitcoin-core/src/main/java/com/smallraw/chain/bitcoincore`.

| Component | State it keeps | Operations | Talks to |
|---|---|---|---|
| Coin selection (`bitcoin/unspentOutput`) | the locals of one `select`: selected outputs, running total, recipient and sent amounts | `select` | calls the application's `IUnspentOutputProvider` for pages, `TransactionSizeCalculator` for fees |
| Transaction size and dust (`bitcoin/transaction`) | none | `inputSize`, `outputSize`, `transactionSize`, `dust` | called by the selector and the builder |
| Transaction building (`bitcoin/transaction/build`) | a `MutableTransaction`: recipient, change, data outputs, inputs to sign with scripts and witnesses, segwit flag, version | the two overloads of `build`, the setters, the signer chain | calls `select` in the middle of the automatic overload, and one signer after another for every input |
| Serialization and signature hashes (`core/transaction`, `bitcoin/transaction/serializer`) | a `Transaction`, which its signers edit | `serialize`, `deserialize`, `copy`, `hashForSignature`, `hashForWitnessSignature`, `serializeForSignature` | signers hash, then edit |
| Mnemonic word cache (`standard/mnemonic`: `SoftHashMap`, `WordList`) | two static maps of soft references with reference queues, a class lock | `getWord`, `getIndex`, `getWordByWordFirst` | every thread of the process, and the garbage collector |
| Wallet repository (`app/compose-wallet`: repository, data source, DAO, `WalletDO`) | the wallet table and its id sequence | `createWallet`, three imports, `existsWallet`, counts | IO dispatcher, Room, SQLite |
| App shell (view models, `AppNavHost`, `Home`, `Welcome`, `CreateWallet`, `App`) | the back stack, two view models, a flow of counts | press, back, effects, delivery, restart | main looper, `viewModelScope`, the repository |
| Feature flags (`flag/feature`, `flag/feature-kit`) | a copy-on-write list of providers, preferences in memory and on disk, remote data | `initialize`, `isFeatureEnabled`, `refreshFeatureFlags`, toggles | an HTTP thread per fetch, the settings screen |
| Bitcoin scripts and streams (`core/script`, `core/stream`) | none | parse and write chunks, lengths of variable width | used by all of the above |
| Bitcoin addresses, keys, networks (`core`) | none | convert | used by all of the above |
| Mnemonic phrases and seeds (`standard/mnemonic`) | none | `createMnemonic`, `validateMnemonic`, `createSeedByMnemonic` | the word cache, PBKDF2 |
| Key derivation (`standard/hd-derivation`) | none | derive | native hashing |
| Ethereum (`chain/ethereum`) | a `Transaction` with its signature | RLP, `serialize`, `hashForSignature`, `deserialize`; Solidity types | native crypto |
| EOS (`chain/eos`) | none | serialization of actions, signing | native crypto, a Retrofit interface |
| Native numbers (`native-crypto/bignum.c`) | a number in nine limbs, lazily carried and reduced | 50 operations | the curves, and amounts as text |
| Native curves and signatures (`ecdsa.c`, `secp256k1.c`) | none but static scratch | keys, signing with retries, verification, recovery, shared secrets | numbers, the generator of rfc6979 |
| Native codecs (`hexstring.c`, `base32.c`, `base58.c`, `der.c`) | none | there and back | JNI |
| AES and paddings (`aes/aes_modes.c`, `crypto/aes`) | a context: iv and position in a block | five modes, seven paddings | class `Aes` over its wrapper |
| Native digests (`sha2.c`, `sha3.c`, `ripemd160.c`, `blake*.c`, `groestl.c`) | contexts: chaining value, buffer, counters | Init, Update, Final | everything that hashes |
| Native key derivation (`hmac.c`, `pbkdf2.c`, `hmac_drbg.c`, `rfc6979.c`, `hasher.c`) | contexts over prepared digest states | HMAC, PBKDF2, nonces | digests |
| JNI (`crypto-wrapper.c`, `aes-wrapper.c`, `secp256k1-wrapper.c`, `ed25519-wrapper.c`) | what a call has taken from the virtual machine | 40 functions | every thread, the collector |
| Ed25519 and ChaCha20-Poly1305 (`native-crypto`) | none | | |
| Second database (`core/database`) | six tables with cascading keys | DAO calls | nothing in the build depends on it yet |
| The rest (`core/authority-ckeck`, `core/testing`, `lib-multiplatform-crypto`, `build-logic`, themes and views) | none | | |

What is hard here, and for each component what makes it correct:

- **Coin selection** carries amounts out of a loop over pages cut by somebody
  else. Correct: the total is the value of what is selected, the outputs that are
  returned are worth what they pay for, an error has its reason, the loop ends.
- **Building** mutates one object through setters, a nested selection and many
  signers that may throw. Correct: every signature commits to the transaction
  that is returned; all inputs are signed or an exception is thrown; inputs
  cover outputs and fee, data outputs included.
- **Signature hashes** are written three times by hand. Correct: each type signs
  exactly what it says it signs, so that other signers may edit the rest.
- **Phrases** are packed eleven bits at a time into bytes of eight by one piece of
  code and unpacked by another, and words are recognised by their first four
  letters. Correct: what was created is accepted as it was written down, what is
  accepted has its checksum and no more than 24 words, and one phrase gives one
  seed however it is typed.
- **The word cache** is shared by threads without a lock and emptied by the
  collector behind their backs. Correct: a dead entry is found and removed some
  time, failures do not last, every call returns.
- **The repository** runs two statements per call without a transaction under a
  unique index with REPLACE. Correct: a secret that was stored is never lost, a
  caller is answered with its own row or fails because its secret was stored anew.
- **The app shell** lets a coroutine outlive the press that started it, and
  navigates on a value that arrives later. Correct: an owner is sent to Welcome
  only while the news of the wallet is on its way; it does arrive; no press hangs.
- **Feature flags** are read without a lock while providers, data and settings
  change. Correct: a read answers what was effective at some moment of it, and no
  release build shows a test setting.

- **Scripts and Ethereum transactions** are written and read by code that states
  the boundaries of lengths separately each time. Correct: what was written is what
  is read, what lost its end is refused, and what the network rebuilds from a
  signed transaction is what its sender hashed.
- **Native numbers** may overflow their limbs if one call of many breaks the bound
  the next relies on; **curves** have cases that random tests never meet.
  Correct: each call gives the number it is named for within its bound; every
  signature is verified and its key recovered, and a changed one is not.
- **Codecs, modes, paddings, digests and derivation** have edges at lengths, signs
  and carries, and contexts that are fed in pieces. Correct: what was written is
  read back; however a message is cut, both sides agree and the result is the one
  of the definition.
- **JNI** takes copies, critical regions and buffers on many paths. Correct: all is
  given back on each, nothing inside a critical region waits for the collector, and
  calls return.

Errors, crashes and timing are modelled where the code has them: exceptions of
select, signers and calls; the end of the process at any step of the repository,
the app and the flags; cancellation; late, broken and missing answers of the flag
server. Nothing in the repository retries or sets a timeout of its own beyond the
HTTP connection's.

## 2. Plan

Order: first what moves money, then what runs concurrently, then what computes.

| Stage | Modules | State |
|---|---|---|
| 1 | `TransactionSize`, `UtxoSelector` with its promise `CoinSelection`, `TransferBuild` composed with it | done |
| 1 | `WordCache`; `WalletRepository` with its promise `SecretStore`, `WalletApp` composed with it; `FeatureFlags` | done |
| 1 | `SigHash`, `Mnemonic` | done |
| 1 | `UtxoSelectorProofs`, `WalletRepositoryProofs` | done |
| 2 | the native library: `Bignum` with `FieldRegister`, `Ecdsa` with `SignatureCalls`, `Codecs`, `BlockModes` with `ModeCalls` and `Paddings`, `Keccak`, `Digests` with `DigestCalls`, `KeyedHashes` with `KeyCalls`, and `NativeCalls` around them | done |
| 2 | the formats of the chains: `Scripts`, `EthereumTransactions` | done |
| 2 | `WordCacheProofs`, `WalletAppProofs`, `FeatureFlagsProofs` | done |
| 3 | the rest of `UtxoSelectorProofs`, with the sums it rests on and the refinement of `CoinSelection`; `TransferBuildProofs`; `SigHashProofs` | done |
| 4 | `MnemonicProofs` | done |
| open | addresses, key derivation, EOS, the second database: section 7 says why | |
| open | proofs of `NativeCalls` and the library: section 5 says what stands in the way | |

Abstract specifications: `CoinSelection` (one step from the arguments of a
selection to an outcome that is right for the whole wallet) and `SecretStore` (a
set of secrets that only grows). Both are properties of a run, and both
refinements are proved, the first for fee rates above zero.

## 3. Modules and code

Every definition that stands for code is listed with its lines under `map`. The
correspondence in words:

- **`TransactionSize`** are the functions of `TransactionSizeCalculator` and
  `DustCalculator`, in weight units and bytes as in the code.
- **`UtxoSelector`** is `UnspentOutputSelector.select`. The variables `selected`,
  `total`, `recipient`, `sent` are its locals, `page` the rest of the page the
  `for` loop is in, `pc` the place. `Select`/`SelectDust` are the dust check at
  its head, `nextUtxoList`/`nextUtxoListEmpty` the call of the provider with its
  `break`, `AddUnspentOutput` the body of the `for` loop with the limit's removal,
  `EndOfPage` the test that ends the `while`, `Settle` everything behind it. The
  provider is external and answers any non-empty page of distinct outputs it has
  not handed out, and an empty list when none is left.
- **`CoinSelection`** has only the arguments and the outcome.
- **`TransferBuild`** is `TransactionBuilder.build`: one action per component it
  calls (`SetRecipient`, `SetChange`, `SetManualInputs`, `SetOutputs`,
  `SignInput` per round of the signer's loop, `MakeTransaction`), in the order
  each of the two overloads calls them. It instantiates `UtxoSelector` and takes
  its steps while `stage = "select"`; `CallSelect` and `SetSelectedInputs` are the
  two halves of `InputSetter.setInputs` around the call. Signers are operators
  that answer what they would sign or None where they throw. A signature is its
  key and the fields it commits to. `Request` is what the builder can ask of its
  selector: always without a limit.
- **`SigHash`** are the three functions that compute what is signed, on the level
  of fields (a list of tagged fields stands for the bytes), `serialize`,
  `deserialize` and `copy` between them, and a transaction that its other signers
  edit after it was hashed.
- **`Mnemonic`** is `MnemonicBuild` with one word list. Bytes and Ints are sets of
  bits, so `next11Bits` and `writeNext11` are their shifts, masks and unions, and the loop around the second
  is a recursive function of the words read.
  `Type` is the user, with the forms and slips the code tells apart. The code looks
  at four letters (`substring(0, 4)`), so a word may be typed whole, by its first
  four letters, by those and anything behind them (`longer`), or with its accents
  composed. A word of exactly four letters (`Four`) with more behind it is still
  found; one of fewer (`Short`) is then another word.
  `validateMnemonic` is `MnemonicValidator.validate`, with any of the words the
  binary search may end at; `calculateSeed` is `SeedCalculatorByWordListLookUp`
  up to the words it hands to PBKDF2.
- **`WordCache`** is `SoftHashMap` under `WordList`: `Poll`, `RemovePolled`,
  `PollNull` are the loop of `clearQueue` in front of every access, `FirstGet`,
  `Lock`, `PutList`, `PutFirst`, `Unlock`, `SecondGet` the accesses of a call.
  `Clear` and `Enqueue` are the garbage collector, which may take its time between
  the two.
- **`WalletRepository`** is a call of the repository down to its two SQL
  statements: `Create` (dispatch), `Insert` (INSERT OR REPLACE under the unique
  index, with AUTOINCREMENT), `Find`/`FindMissing` (`findById` and `Wallet.from`),
  `Cancel` and `Kill`. **`SecretStore`** sees only which secrets are stored.
- **`WalletApp`** instantiates `WalletRepository` with the presses of the create
  button as its calls, and adds the view models, the back stack, the coroutine
  jobs, Room's invalidation (`dirty`), the count on its way (`found`) and
  `existsWallet`.
- **`FeatureFlags`** is `RuntimeBehavior` with the providers of both build types.
  `Pick` is the snapshot and the choice of a provider, `Answer` the later question
  to it; `effective` is a history variable: what the registry would have answered
  at each moment of the read.

The native library and the formats:

- **`Bignum`** has each function of `bignum.c` under its name, on sequences of limbs
  whose accumulators wrap as in C. **`FieldRegister`** holds one number and makes any
  call whose stated precondition (`Assumed`) it meets, so that results feed calls.
- **`Ecdsa`** are `ecdsa.c` and the three canonical rules of `secp256k1.c` on those
  numbers. **`SignatureCalls`** is a key pair's life: `Derive`, `Uncompress`, `Sign`
  (with the nonces the generator would give), `Deliver` what was signed or what a
  fault made of it, `Verify`, `Recover`, `Share`. Beside it the group is computed
  over the integers.
- **`Codecs`** writes a value as text, lets somebody respell or spoil it, and reads
  it back.
- **`BlockModes`** are the modes around any permutation of blocks. In **`ModeCalls`**
  a sender and a receiver each cut the message in their own way; in **`Paddings`**
  the class `Aes` pads, encrypts, decrypts and unpads.
- **`Keccak`** is the permutation of `sha3.c` beside that of FIPS 202. **`Digests`**
  are the contexts of all digests around one operator `Mix`; in **`DigestCalls`** a
  context is begun, fed in pieces, finished and begun again.
- **`KeyedHashes`** are HMAC, PBKDF2, the generator and the hasher over those
  digests, with what the standards define beside them; **`KeyCalls`** feeds them.
- **`NativeCalls`** has every JNI function as the list of what it takes and gives
  back, with another list where it may fail. An array's `"length"` is asked for
  before it is pinned, which five functions do for their second array inside the
  region of the first (`PinsTwo`). `Step`, `Fail` and `Return` run the list;
  `Want` and `Collect` are the collector, which waits for critical regions to end
  and lets nobody begin one, or allocate, while it does.
- **`Scripts`** puts a script together from chunks (`Add`), writes it alone or inside
  an output (`Write`) and reads it back, one round of `parseChunks` a step.
- **`EthereumTransactions`** are `hashForSignature`, `sign`, `serialize` and
  `deserialize` over package `rlp`, and what the network rebuilds from the bytes.

`MCUtxoSelector` and `MCTransferBuild` define the small instances of the modules they
are named for; `WalletRepository` needs sets of model values only, which its .cfg gives.
`MCMnemonic`, `MCFeatureFlags` and `MCSigHash` define values for the three modules that put
several machines side by side, of which the initial state chooses one (`part`) while the
others do not move:

- `MCPhrases` joins `Mnemonic` and the `WordCache` its lists come from;
- `MCApp` joins `FeatureFlags` and `WalletApp`. The parked `WalletApp` is at Home with
  nothing on its way, so that its fairness asks nothing of a run of the flags;
- `MCLibraries` joins the parts of the native library, `NativeCalls` around them, the
  formats of the chains and `SigHash`. The variables of the parts share the slots `v1`
  to `v8`; `SigHash` keeps its own.

The machines of one such run share no state, so a property of the one is neither helped
nor hindered by the other.

## 4. Runs

| Run | Module | What it shows | Distinct states |
|---|---|---|---|
| `selector` | MCUtxoSelector | until an output is excluded for the limit the total is the value of the selection, and the outputs returned are worth recipient, change and fee; the limit is kept; `select` ends; without a limit it implements `CoinSelection` | 11,114 |
| `transfer` | MCTransferBuild | every signature commits to the transaction that is returned; automatic builds carry what each input's script asks for; all inputs are signed or it throws; inputs cover outputs and the fee `select` computed | 19,239 |
| `wallets` | WalletRepository | unique secrets, own answers, failures only by replacement, no secret lost, calls end | 190,409 |
| `app` | MCApp | test settings stay off in release builds; reads of a flag are atomic although they take no lock; an owner sees Welcome only while news is pending; the news arrives; presses end | 141,302 |
| `phrases` | MCPhrases | a phrase is its entropy and checksum, bit by bit; a phrase of plain words is accepted in each form; what is accepted, up to 24 words, has its checksum; one phrase, one seed; dead cache entries are always found; failures of the cache stop when the collector does; its calls return | 230,985 |
| `libraries` | MCLibraries | numbers are exact within their bounds; keys, signatures and shared secrets are the group's; codecs and paddings invert; both sides of a mode agree; digests and derived keys are those of the definitions; scripts and Ethereum transactions are read as written; each type of signature signs what its comment says and nothing else, and builder and `Transaction` hash the same; what a JNI function takes it gives back, but on the paths `Known`; its calls return | 200,387 |
| `selector_limit` | MCUtxoSelector | violated: finding 1 | |
| `transfer_data` | MCTransferBuild | violated: finding 2 | |
| `sighash_single` | MCSigHash | violated: finding 3 | |
| `mnemonic_created` | MCMnemonic | violated: finding 4 | |
| `mnemonic_long` | MCMnemonic | violated: finding 5 | |
| `libraries_padding` | MCLibraries | violated: finding 6 | |

Each property of a passing run is paired with a mutant, a plausible mistake in a
definition of the model under which TLC refutes the property (`PROJECT.json`,
`mutants`; the mutated definitions stand in the modules, marked as such).

### Bounds, and why they are enough

- `selector`: three outputs of three script types, one of them worth less than the
  fee it adds, cut into pages in every way and order; amounts just at, just above
  and far above dust, up to just below and above the whole wallet; rates 1, 5 and
  10; both payers; with no limit and with limit 2, so that one output is selected below
  the limit and another has to be excluded.
  Every exit of `select` is taken with one, two and three outputs selected. More
  outputs repeat the loop's body, which is what the theorems cover for any number.
- `transfer`: one input of each signable kind and of one that is not, multisig
  scripts with fewer, exactly and more keys than needed; two or three inputs per
  transaction suffice for the order of signing to matter.
- `phrases`, the cache: two threads and one list (lists share nothing but the lock), two
  clearings (`MaxClears`): one to leave a node behind and one more while the list
  is loaded again.
- `wallets`: three calls, so that a replaced row can be replaced again while its
  first owner still waits; one imported secret and the empty one, two names.
- `app`, the screens: two presses and two restarts (`MaxRestarts`).
- `app`, the flags: two overlapping fetches (`MaxFetching`); answers that name the dark mode
  in either value, a test setting, nothing, or are not JSON. One reader stands for
  many, as reading changes nothing.
- signature hashes: up to three inputs and outputs, so that there is an input before and
  behind the signed one and more or fewer outputs than inputs; two edits
  (`MaxEdits`), enough to remove one thing and put another in its place.
- `phrases`, the phrases: packing moves each bit on its own, so each of the 128 bits of the
  shortest seed is tried alone; of the longer ones none, all and the last. Phrases
  of 0 to 27 words. The word list has two groups of words that share their first
  four letters, one word of three letters and two of four, and accents in words of
  each length. A phrase of 24 words with three too many is the shortest that is not
  checked (finding 5). What all this leaves out, other entropies and other lists, the theorems cover.

The parts of `libraries` besides:

- numbers: two limbs of five bits in words of seven, so that limbs, words, carries
  and the modulus 127 all end within reach; every number that calls lead to.
- curve: 24-bit numbers in three limbs of ten bits, six windows of the
  multiplications, both ends of the range of keys; nonces that are zero, too large,
  give an x above the order, or a signature a rule refuses; the digest that is zero;
  each kind of change to a signature.
- codecs: all short inputs over the bytes at which digits, signs and padding change.
- modes and paddings: blocks of three bytes of two bits, a message of eight cut in
  every way by each side; messages of up to four bytes under all paddings.
- digests: blocks of eight cells and counters of two words of 128: sixteen bytes
  overflow the first in bits, 128 the one in bytes, and messages go up to 131;
  each piece shorter than, equal to and longer than a block.
- the permutation of `sha3.c`: lanes of 16 bits, six rounds, two kinds of blocks.
- derivation: keys and salts empty, shorter and longer than a block, twice fed or asked.
- scripts: bytes of four bits, so that all boundaries of lengths lie below 256; data
  on both sides of each; two chunks; up to six bytes lost.
- Ethereum: nonces, amounts and data on both sides of 0, one, 55 and 255 bytes and of
  the sign byte, both kinds of transaction, both networks, both parities.
- native calls: one call (`CALLS`) of any function beside one of those that stay
  longest in a critical region; two collections (`COLLECTIONS`), one before and one
  after something was left behind.

### Fairness

Safety needs none; `TransferBuild`, `FeatureFlags`, `SigHash`, `Mnemonic` and the
computing parts of `MCLibraries` have none. A joined run assumes the fairness of its
parts and no more.

- `UtxoSelector`: weak fairness of its steps. `select` is synchronous: once entered,
  its thread runs on. Nobody has to call it.
- `WordCache` (`Scheduling`): weak fairness per thread inside a call, as the scheduler gives it.
  The collector owes nothing. `Recovers` speaks of the time after its last clearing;
  that clearings end is the bound `MaxClears`, and means that memory pressure ends.
- `WalletRepository`: weak fairness per call, the IO dispatcher's. Cancellation and
  the end of the process may happen and need not.
- `WalletApp` (`Fairness`): weak fairness of what the main looper and Room's executors have been
  handed (effects, deliveries, queries, statements, the crash of a failed
  coroutine). The user's presses and the kills have none.
- `NativeCalls`: weak fairness of each thread's `Step` and `Return`, as native code
  runs until it waits, and of `Collect`, which the virtual machine does as soon as
  it may. No call has to be made and none has to be refused.

## 5. Proofs

`tlapm M.tla` for the modules `UtxoSelectorProofs`, `TransferBuildProofs`,
`SigHashProofs`, `MnemonicProofs`, `WalletRepositoryProofs`, `WordCacheProofs`,
`WalletAppProofs` and `FeatureFlagsProofs` checks more than 7,600 obligations. The
assumptions are the named ASSUMEs of the modules, which TLC evaluates for each instance:

- `UtxoSelector`: a finite wallet of typed outputs and typed requests
  (`UtxoAssumption`, `RequestAssumption`), and a value for no limit that is none
  (`NoLimitAssumption`);
- `TransactionSize`: the length that stands for a redeem script is a natural number
  (`RedeemPushAssumption`);
- `TransferBuild`: a finite wallet whose outputs belong to addresses of the four kinds
  and carry the redeem script the provider knows of, if any (`WalletAssumption`), and
  the typed arguments of the two overloads of `build` (`CallAssumption`);
- `SigHash`: sequence numbers are natural and 0 and the default are among them
  (`SequenceAssumption`), the outpoints form a sequence (`OutPointAssumption`) and the
  bound on outputs is a number (`BoundAssumption`);
- `Mnemonic`: two groups of words that share four letters have no word in common, no
  word of four letters or fewer is in one, and none is of both lengths
  (`WordListAssumption`); the entropy is a string of bytes of
  one of the lengths it can be asked for, and the first byte of its SHA-256 is any byte
  (`EntropyAssumption`); the value for nothing is none of the validator's verdicts
  (`NoneIsNoVerdict`);
- the empty string is no secret one can import (`EmptyIsNoSecret`), the server's
  answers map features to Booleans (`ConfigAssumption`), and the value for nothing is
  neither a type of words, nor an answer, nor a provider (`NoneIsNoType`,
  `NoneIsNoAnswer`, `NoneIsNoProvider`);
- the bounds on fetches, restarts and clearings are numbers (`MaxFetchingAssumption`,
  `MaxRestartsAssumption`, `MaxClearsAssumption`); no proof limits them.

One theorem has a hypothesis besides (`PositiveRates`, of `KeepsPromise`), explained there.

- Sums, the first part of `UtxoSelectorProofs`: what `SumFunctionOnSet` of the community
  modules answers does not depend on the order in which its fold takes the elements out.
  The fold is a CHOOSE over functions, and induction over sets is not available, so a
  set for which the order matters is taken least among the counterexamples, by the
  well-founded order of the subsets of a finite set. From it follow what an element
  adds, what equal functions sum to, bounds, and that zeros add nothing.
- `UtxoSelectorProofs!TypeCorrect`: types, for any wallet, request and paging. The
  work is in the lemmas: a fee is an integer, and the smallest of a finite
  non-empty set of integers exists (by well-founded induction).
- `TotalIsSelected` (`FundsMatch`): by these sums, adding an output adds its value, so
  that as long as no output was excluded for the limit (`NoneExcluded`) the total is the
  value of the selection; the selection never exceeds the limit. After an exclusion
  the first output is gone and the smallest value is off the total, so that the total
  is an upper bound of what the selection is worth: finding 1. The theorem does not
  speak of that case, as nothing good can be said of it.
- `SelectionPaysItsFee` (`PaidInFull`): the outputs returned are worth the recipient's
  value, the change and the fee, again where none was excluded. The outcome is computed
  from amounts the loop left behind, and against the total, so `PaidInFull` is not
  inductive. The invariant adds `AmountsCurrent` (while the loop runs the amounts
  belong to the present selection) and that an outcome is there exactly at the end;
  `TotalIsSelected` turns the total into the value of the outputs.
- `KeepsPromise` (`PromiseSpec`): `select` implements `CoinSelection`. `CoinSelection`
  speaks of the whole wallet and `select` only of the pages it has seen, so the
  invariant `Scan` relates both for a call without a limit: what is selected, the rest
  of the page and what was not handed out yet part the wallet (`Parted`), and the loop
  is left with enough or with nothing unseen (`Progress`). The step that answers is the
  abstract step, all others stutter. The theorem assumes fee rates above zero, as
  `CoinSelection` does: at rate 0, which the repository's device tests pass, the test in
  the inner loop (lines 100-108) holds at the first output of a page and the rest of the
  page is skipped, so that a wallet that would suffice may be refused. The safety theorems
  above, and all of `TransferBuildProofs`, hold at rate 0 too.
- `TransferBuildProofs`: `SignsWhatIsSent` (`SignsWhatItSends`), `NoInputUnsigned`
  (`AllSignedOrThrown`), `AutoSpends` (`AutoBuildSpends`) and `AutoBalances`
  (`Balanced`), for any wallet, keys, multisig scripts and arguments, through three
  invariants. The fee of `Balanced` is the one `select` computed, which is for the
  inputs and the recipient and not for data outputs: finding 2. `Choosing`: while `select`
  runs inside the builder, the builder's
  fields are what they were at the call and the selector's own invariant holds: the
  module instantiates `UtxoSelectorProofs`, so that its lemmas hold of the nested run.
  `Signing`: every input already signed carries what the signers would answer for the
  transaction as it is now, which stays true because nothing is set once signing has
  begun. `Sending`: from the return of `select` on, the selected outputs, the value and
  the change are those of its answer until they are outputs, so that the inputs cover
  them. That a multisig input is unlocked rests on the order in which keys are looked
  up (`PlacesAscend`).
- `SigHashProofs`: `WitnessSigned` (`WitnessSignsItsType`), `LegacySigned`
  (`LegacySignsItsType`), `BuilderSigned` (`BuilderSignsItsType`) and `BothSignAlike`
  (`SerializersAgree`), for any number of inputs, outputs and edits. The invariant is
  the type: what an edit leaves is a transaction with an input at least. The work is in
  the serialization: where each field is written (`SerializedLayout`), that it is read
  back as written but for the amounts (`CopyKeeps`), that encodings of equal length at
  both ends are equal only part by part (`EncodingsDiffer`); then that both serializers
  write the same encoding (`BuilderWrites`, `TransactionWrites`), whose parts are what
  the type signs (`LegacyCommits`, `WitnessCommits`). The amount an input spends is the
  same for all in the model.
- `MnemonicProofs`: `PhrasesCarryEntropy` (`PhraseCarriesEntropy`), `PlainPhrasesAreValid`
  (`PlainIsValid`), `AcceptedAreChecked` (`AcceptedIsChecked`) and `SeedsAreOne`
  (`SeedsAgree`), for any entropy, checksum byte and word list. The work is in the two
  conversions. Reading eleven bits over two or three bytes gives each bit where it was
  (`ReadNext`); writing them sets these bits and no others (`WriteNext`). That the loop
  of the validator packs the words of a phrase back bit by bit (`Packed`) would be an
  induction over its rounds; instead the first round after which a bit is wrong is
  taken, which `WriteNext` refutes. So the words of an entropy are its bits and those of
  its checksum (`WordsOfEntropy`), and the bytes of these words are the entropy again
  (`BytesOfWords`), with the bits the validator expects behind it (`ChecksumBits`). The
  invariant says where everything comes from: the phrase from the entropy, the verdict
  and the words of the seed from what is typed (`Judged`, `Calculated`). It says nothing
  of how the typed words came about but that they are words in some form, so
  `AcceptedAreChecked` and `SeedsAreOne` hold for any such sequence, mistyped as it may
  be, with each word whole, by its first four letters, by those and more, or composed
  (`FormOf`). `PlainIsValid` is for one form throughout: all whole, all by four letters,
  or all by those and more, where no word has fewer than four. `PlainIsValid`,
  `AcceptedIsChecked` and `SeedsAgree` speak of words that share their first four letters
  with none: of the others the search may find either, which is finding 4.
  `AcceptedIsChecked` stops at 24 words, as the mask for the nine or more checksum bits
  of a longer phrase is empty: finding 5.
- `WalletRepositoryProofs`: one invariant for all. Ids in the table and in calls
  are at most `sequence` and calls have ids of their own; a call that still waits
  for its row and finds one under its id finds its own; the secret of an inserted
  call is in the table, under its id or a larger one. From it follow
  `SecretsAreUnique`, `AnswersAreOwn`, `FailuresAreReplacements` for any number of
  calls, and that every step stores a secret or changes nothing that
  `SecretStore` sees (`KeepsSecrets`).
- `WordCacheProofs!DeadEntriesAreRemoved` (`DeadIsQueued`): a dead entry has its node
  waiting for the collector, in the queue, or in the hands of a thread at that map.
  The invariant adds types and that a thread with a polled node is at an access it
  has not drained (`HandsEmpty`): so none walks away with a node. For any number of
  threads, lists and clearings.
- `WalletAppProofs!WelcomeOnlyBehind` (`WelcomeOnlyWhilePending`): a table that is
  not marked changed has been counted since, and the last answer, on its way or
  arrived, says that it has rows (`Known`). `AppImplementsRepository`: every step of
  the app moves the table as `WalletRepository` does or not at all, so that what is
  proved of the repository holds in the app.
- `FeatureFlagsProofs!TestSettingsStayOff` (`TestSettingsOff`) and `ReadsAreOfOneMoment`
  (`ReadsAreAtomic`): a read keeps the provider it picked, and what it will answer has
  to be known before it does. The invariant says of a picked read (`Picked`) that
  either its provider is still the one the registry would pick, so that it answers
  what is effective now, or it gives a fixed answer that was effective when it was
  picked; and that a release build adds Store, then Qiniu, whatever the settings are
  (`Added`). `FirstDecides` relates the list's first provider to the reference
  `Effective`, by the least of a set of numbers. For any answers of the server and
  any number of fetches.

The type invariants of the selector and of the repository are proved and no longer
run. Only model-checked are:

- liveness (`Terminates`, `Recovers`, `CallsReturn`, `CallsEnd`, `ExistsIsLearnt`,
  `PressesEnd`, `NativeCallsReturn`): fairness and ENABLED are out of the prover's reach;
- the library and the formats in `MCLibraries`, which use recursive operators and
  `Bitwise`, where no theorem can be stated;
- `NativeCalls`, whose invariant says of forty concrete lists what they add up to: TLC
  goes through all of them.

## 6. Findings

Each is the run of that name, whose one property states what the quoted comment or
test says; TLC's trace shows how the code comes to do otherwise.

1. `selector_limit` (`LargestAreKept`): over the limit `select` says it deletes the
   smallest value, but removes the first output and takes the smallest value off the
   total. Of 3000, 700 and 2200 with a limit of 2 it keeps 700 and 2200 with a total of
   5200, and so accepts a payment of 4400 that its outputs do not cover. The builder
   never sets a limit.
2. `transfer_data` (`DataIsPaidFor`): the builder says that with data outputs the size is
   another and adds theirs up in `pluginDataSize`, which nothing reads: the fee is that of
   a transaction without them.
3. `sighash_single` (`SingleSignsItsOutput`): the loop that blanks outputs before the
   signed one starts at index 1, so a SINGLE signature also commits to the first output.
4. `mnemonic_created` (`CreatedIsValid`): a created French, Korean, Spanish or Japanese
   phrase, typed in full as it was created, may be rejected, because the validator looks
   at four characters and some words share them. A test asserts the contrary for
   Japanese in threads whose failures nobody collects.
5. `mnemonic_long` (`AtMost24Words`): the validator and `MnemonicBuild` document an
   `InvalidWordCountException` for more than 24 words. Only the multiple of three is
   checked, and from 27 words on the mask for the checksum is empty, so that every such
   phrase is accepted.
6. `libraries_padding` (`RandomPaddingIsAdded`): X9.23 and ISO 10126-2 say they pad with
   random bytes when given a SecureRandom, which `Aes` always gives them; they cast an
   Int to Byte, so `encrypt` throws for every padding longer than its code.
   `PaddedInverts` speaks of those messages only that can be encrypted.

One more disagreement has no run of its own. The comment over `bn_cnegate`
(`bignum.c:283-285`) promises for x = prime `2 * prime - x`, which is prime, if cond is
set and `x + prime`, which is 2 * prime, if not. `bn_mod` runs first and makes x zero,
so that the code leaves 2 * prime in the first case and prime in the second. Both are
the residue zero, so the curves do not tell them apart; `Guaranteed` in `FieldRegister`
asserts of this argument no more than that the result is one of the two.

Behaviour that the models show and that no comment contradicts, or that
is plain from a line: whether there is a change output is decided by the change
address alone, so that a transfer that needs no change gets an output of value 0, and
one without a change address pays its change as fee; `clearQueue` removes by key, and
a node enqueued after its list was loaded again takes the new entry with it, at the
price of a reload, a -1 of `getIndex` or a null pointer exception; creating a second
wallet replaces the first, as both store the empty string; Home may send an owner to
Welcome right after the start; a fetch of flags without network ends the process; the
remote provider answers for the dark mode before it has data; `hashForSignature`
serializes witnesses of inputs already signed; the builder's SINGLE, and its NONE with
ANYONECANPAY, are not what the network hashes (it signs with ALL only); the validator
rejects accents that are composed, which the seed calculator takes; `WordCount` THREE,
SIX and NINE can never be created, their entropy is too short; a seed made without
naming a language takes abbreviations as they are typed.

Of the native library and the formats: a `blake2s` of refused length ends its critical
region with the release of a copy, which may hold every later collection up, and
`ripemd160`, base 32, the BLAKEs, `sign`, `ethSign`, PBKDF2 and `verify` leave a buffer
or a copy behind on some path (`Known` in `NativeCalls`); the base 58 decoder copies
bytes it never wrote for leading zeros and takes characters outside its table for
the digit zero; base 32 gives its padding back as data; a message of whole blocks is
not padded, but what ends it like a padding is taken off; data of one byte become an
opcode, and opcodes of two bytes are read as their second; an unsigned legacy
Ethereum transaction reads back as signed with an empty r and s, a signed one keeps
the v of EIP-155, chain ids above 109 do not fit its single byte, and r and s keep
their leading zeros; a child of a public key (`HDKeyDerivation.derivePublicKey`) is
not added to its parent's point, so it is another key than the private child has.

## 7. What is not modelled

`PROJECT.json` names every component with its reason. Beyond those:

- The provider of unspent outputs is taken to hand out each output once and to end.
  The repository's test providers return the same list at every call, which would
  make `select` add outputs again; the application's own is not in the repository.
- `pluginDataSize` is 0 in the sizes, as the code never passes it (finding 2). Multisig scripts are
  well formed or not multisig at all.
- A step of `HashMap` is atomic in `WordCache`, though the map is unsynchronized.
- Accounts and chains are never inserted and `deleteWallet` only throws, so the
  repository's joins see empty tables; imports have no screen.
- Hashes have no collisions, and signing is symbolic in `TransferBuild`. In the
  native library the compression functions (other than that of `sha3.c`) are the
  operator `Mix`, the block cipher is any permutation, and Ed25519 is left out with
  ChaCha20-Poly1305: fixed arithmetic and tables that have no smaller instance.
- `point_multiply`, `scalar_multiply` and the constructors of `hmac.c` keep their
  scratch in static memory. The models take it as local: two threads in one of them
  at once are a data race, listed among the hazards.
- The variants for VIA processors and aligned buffers of the modes, 64-bit reads and
  writes of numbers, the digests' endings in hexadecimal, constant time.
- Addresses and key derivation are pure conversions over hashing, base 58 and the
  curve, which are modelled; EOS and the second database have no caller in the build
  that would show an order of operations.
- Solidity types, method calls and the checksums of Ethereum addresses.
- The lists are one list in `Mnemonic`: `validateMnemonic` without a language tries
  the same validator with nine of them. Words that are on two lists are left out.
