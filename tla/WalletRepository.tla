-------------------------- MODULE WalletRepository --------------------------
(***************************************************************************)
(* WalletRepository and WalletLocalDataSource over the wallet table of the *)
(* Room database, with any number of calls running at once on the IO       *)
(* dispatcher. A call writes its row in one statement and reads it back in *)
(* another, without a transaction around the two.                          *)
(*                                                                         *)
(* The UNIQUE index on `encrypted' and OnConflictStrategy.REPLACE make an  *)
(* insertion delete the row that holds the same secret; the replacement    *)
(* gets an id of its own. createWallet stores the empty string, for it has *)
(* no secret.                                                              *)
(***************************************************************************)
EXTENDS Naturals, FiniteSets

CONSTANTS
    Calls,      \* the calls of the repository's suspend functions
    Name,       \* names of wallets
    Secret,     \* what can be imported: private keys, mnemonics, keystores
    Empty,      \* the string createWallet stores
    None        \* null

ASSUME EmptyIsNoSecret == Empty \notin Secret

\* WalletDO.Type without WATCHING, which nothing creates, and SourceType
Type == {"MNEMONIC", "PRIVATE", "KEYSTORE"}
SourceType == {"CREATE", "IMPORT"}

\* A WalletDO, and one that has not been inserted
WalletDO == [id : Nat, name : Name, encrypted : Secret \cup {Empty}, type : Type,
             sourceType : SourceType]
Unsaved == [name : Name, encrypted : Secret \cup {Empty}, type : Type,
            sourceType : SourceType]

VARIABLES
    table,      \* the rows of wallet_table
    sequence,   \* the largest id ever given out (sqlite_sequence)
    call        \* call[c]: where the call stands, its row, id and answer

vars == <<table, sequence, call>>

Call == [at : {"idle", "insert", "find", "returned", "failed", "lost"},
         row : Unsaved \cup {None}, id : Nat \cup {None}, wallet : WalletDO \cup {None}]

\* The types of the state: rows of WalletDO, and calls at one of their steps.
TypeOK ==
    /\ table \subseteq WalletDO
    /\ sequence \in Nat
    /\ call \in [Calls -> Call]

Idle == [at |-> "idle", row |-> None, id |-> None, wallet |-> None]

Init ==
    /\ table = {}
    /\ sequence = 0
    /\ call = [c \in Calls |-> Idle]

-----------------------------------------------------------------------------

\* The private createWallet every public function ends in
Create(c, name, secret, type, sourceType) ==
    /\ call[c].at = "idle"
    /\ call' = [call EXCEPT ![c].at = "insert",
                            ![c].row = [name |-> name, encrypted |-> secret,
                                        type |-> type, sourceType |-> sourceType]]
    /\ UNCHANGED <<table, sequence>>

createWallet(c, name) == Create(c, name, Empty, "MNEMONIC", "CREATE")

\* importWalletByPrivateKey, importWalletByMnemonic, importWalletByKeystore
importWallet(c, name, secret) ==
    \E type \in Type : Create(c, name, secret, type, "IMPORT")

\* What a mistake in the entity or the conflict strategy would do: a conflict on
\* the name; no deletion of what conflicts; no AUTOINCREMENT, so that the next id
\* is the largest in use plus one; a row that goes without its id.
SameName(row) == {r \in table : r.name = row.name}
KeepsBoth(row) == {}

\* INSERT OR REPLACE: the rows the new one conflicts with are deleted
Replaced(row) == {r \in table : r.encrypted = row.encrypted}

LargestPlusOne(row) ==
    LET ids == {0} \cup {r.id : r \in table \ Replaced(row)}
    IN  1 + CHOOSE n \in ids : \A i \in ids : i <= n

\* @PrimaryKey(autoGenerate = true) is AUTOINCREMENT: an id is never reused
GeneratedId(row) == sequence + 1

Saved(row, id) == [id |-> id, name |-> row.name, encrypted |-> row.encrypted,
                   type |-> row.type, sourceType |-> row.sourceType]

Insert(c) ==
    LET row == call[c].row
        id == GeneratedId(row)
    IN  /\ call[c].at = "insert"
        /\ table' = (table \ Replaced(row)) \cup {Saved(row, id)}
        /\ sequence' = IF id > sequence THEN id ELSE sequence
        /\ call' = [call EXCEPT ![c].at = "find", ![c].id = id]

\* findById(walletId), and Wallet.from on what it finds
Find(c) ==
    /\ call[c].at = "find"
    /\ \E r \in table :
          /\ r.id = call[c].id
          /\ call' = [call EXCEPT ![c].at = "returned", ![c].wallet = r]
    /\ UNCHANGED <<table, sequence>>

\* A findById that waits for the row instead
WaitsForRow(c) ==
    /\ call[c].at = "find"
    /\ \A r \in table : r.id # call[c].id
    /\ UNCHANGED vars

\* findById answers null where its type says it cannot: Wallet.from throws
FindMissing(c) ==
    /\ call[c].at = "find"
    /\ \A r \in table : r.id # call[c].id
    /\ call' = [call EXCEPT ![c].at = "failed"]
    /\ UNCHANGED <<table, sequence>>

\* The caller is cancelled before the call is dispatched. Once it runs, nothing
\* in it suspends: cancelled or not, it does both statements.
Cancel(c) ==
    /\ call[c].at = "insert"
    /\ call' = [call EXCEPT ![c].at = "lost"]
    /\ UNCHANGED <<table, sequence>>

Running(c) == call[c].at \in {"insert", "find"}

\* The process ends: the calls are gone, the database stays as it is
Kill ==
    /\ \E c \in Calls : Running(c)
    /\ call' = [c \in Calls |-> IF Running(c) THEN [call[c] EXCEPT !.at = "lost"]
                                ELSE call[c]]
    /\ UNCHANGED <<table, sequence>>

Step(c) == Insert(c) \/ Find(c) \/ FindMissing(c)

Next ==
    \/ \E c \in Calls, name \in Name : createWallet(c, name)
    \/ \E c \in Calls, name \in Name, secret \in Secret : importWallet(c, name, secret)
    \/ \E c \in Calls : Step(c) \/ Cancel(c)
    \/ Kill

Spec == Init /\ [][Next]_vars /\ \A c \in Calls : WF_vars(Step(c))

-----------------------------------------------------------------------------

\* No two rows hold the same secret, whatever calls overlap: the UNIQUE index
\* on `encrypted'. This is also why two created wallets cannot both be stored.
OneRowPerSecret ==
    \A r1, r2 \in table : r1.encrypted = r2.encrypted => r1 = r2

\* A call that returns answers with the wallet it was asked to store, never
\* with one that took its place between the insertion and the read. It rests
\* on ids that are never given out again.
ReturnedAsAsked ==
    \A c \in Calls : call[c].at = "returned" =>
        call[c].wallet = Saved(call[c].row, call[c].id)

\* A call fails only when a later one stored the same secret before the first
\* had read its row back: the secret itself is in the table, under a newer id.
MissedOnlyIfReplaced ==
    \A c \in Calls : call[c].at = "failed" =>
        \E r \in table : r.encrypted = call[c].row.encrypted /\ r.id > call[c].id

\* A secret that was stored stays stored: created wallets may replace each
\* other and an import may replace an import, but never with another secret.
Store == INSTANCE SecretStore
            WITH Secret <- Secret \cup {Empty}, stored <- {r.encrypted : r \in table}
SecretsKept == Store!Spec

\* Every call that was made ends, one way or the other.
CallsEnd == \A c \in Calls : call[c].at = "insert" ~> ~Running(c)

=============================================================================
