----------------------- MODULE WalletRepositoryProofs -----------------------
(***************************************************************************)
(* Proofs about WalletRepository, for any set of calls, names and secrets.  *)
(*                                                                         *)
(* Everything follows from one inductive invariant. Ids grow: no row and   *)
(* no call has one above `sequence', so a row inserted now has an id no    *)
(* call is still waiting for. And a call between its two statements is     *)
(* either going to find its own row, or there is a newer row with its      *)
(* secret.                                                                 *)
(***************************************************************************)
EXTENDS WalletRepository, TLAPS

\* A call past a given step has the row it was asked to store, or its id too.
HasRow == \A c \in Calls : call[c].at \in {"insert", "find", "returned", "failed"} =>
            call[c].row \in Unsaved
HasId == \A c \in Calls : call[c].at \in {"find", "returned", "failed"} =>
            call[c].id \in 1..sequence

\* No row has an id that was not given out, and no two rows have the same one.
IdsGiven == \A r \in table : r.id \in 1..sequence
IdsOnce == \A r1, r2 \in table : r1.id = r2.id => r1 = r2

\* A call about to read finds its own row or none, and its secret in any case.
ReadsOwnRow == \A c \in Calls : call[c].at = "find" =>
    \A r \in table : r.id = call[c].id => r = Saved(call[c].row, call[c].id)
SecretPresent == \A c \in Calls : call[c].at = "find" =>
    \E r \in table : r.encrypted = call[c].row.encrypted /\ r.id >= call[c].id

IInv ==
    /\ TypeOK
    /\ HasRow /\ HasId
    /\ IdsGiven /\ IdsOnce
    /\ OneRowPerSecret
    /\ ReadsOwnRow /\ SecretPresent
    /\ ReturnedAsAsked /\ MissedOnlyIfReplaced

-----------------------------------------------------------------------------

\* The empty table with idle calls satisfies the invariant.
LEMMA InitInv == Init => IInv
BY DEF Init, IInv, TypeOK, Idle, Call, HasRow, HasId, IdsGiven, IdsOnce,
       OneRowPerSecret, ReadsOwnRow, SecretPresent, ReturnedAsAsked,
       MissedOnlyIfReplaced

\* Steps that leave the table alone and put a call where nothing is claimed of
\* it (it is lost, or has only got its row) preserve the invariant.
LEMMA QuietInv ==
    ASSUME IInv, UNCHANGED <<table, sequence>>, call' \in [Calls -> Call],
           \A d \in Calls : \/ call'[d] = call[d]
                            \/ call'[d].at = "lost"
                            \/ call'[d].at = "insert" /\ call'[d].row \in Unsaved
    PROVE  IInv'
<1>1. TypeOK'
  BY DEF IInv, TypeOK
<1>2. HasRow'
  BY DEF IInv, HasRow
<1>3. HasId'
  BY DEF IInv, HasId
<1>4. IdsGiven' /\ IdsOnce' /\ OneRowPerSecret'
  BY DEF IInv, IdsGiven, IdsOnce, OneRowPerSecret
<1>5. ReadsOwnRow'
  <2> SUFFICES ASSUME NEW d \in Calls, call'[d].at = "find", NEW r \in table,
                      r.id = call'[d].id
               PROVE  r = Saved(call'[d].row, call'[d].id)
    BY DEF ReadsOwnRow
  <2>1. call'[d] = call[d]
    OBVIOUS
  <2> QED
    BY <2>1 DEF IInv, ReadsOwnRow
<1>6. SecretPresent'
  BY DEF IInv, SecretPresent
<1>7. ReturnedAsAsked'
  <2> SUFFICES ASSUME NEW d \in Calls, call'[d].at = "returned"
               PROVE  call'[d].wallet = Saved(call'[d].row, call'[d].id)
    BY DEF ReturnedAsAsked
  <2>1. call'[d] = call[d]
    OBVIOUS
  <2> QED
    BY <2>1 DEF IInv, ReturnedAsAsked
<1>8. MissedOnlyIfReplaced'
  BY DEF IInv, MissedOnlyIfReplaced
<1> QED
  BY <1>1, <1>2, <1>3, <1>4, <1>5, <1>6, <1>7, <1>8 DEF IInv

\* A call that is made only gets its row.
LEMMA CreateInv ==
    ASSUME IInv, NEW c \in Calls, NEW name \in Name, NEW secret \in Secret \cup {Empty},
           NEW type \in Type, NEW sourceType \in SourceType,
           Create(c, name, secret, type, sourceType)
    PROVE  IInv'
<1> DEFINE row == [name |-> name, encrypted |-> secret, type |-> type,
                   sourceType |-> sourceType]
<1>1. row \in Unsaved
  BY DEF Unsaved
<1>2. call[c] \in Call /\ call \in [Calls -> Call]
  BY DEF IInv, TypeOK
<1>3. call' = [call EXCEPT ![c] = [call[c] EXCEPT !.at = "insert", !.row = row]]
  BY <1>2 DEF Create
<1> HIDE DEF row
<1>4. [call[c] EXCEPT !.at = "insert", !.row = row] \in Call
  BY <1>1, <1>2 DEF Call
<1>5. call'[c].at = "insert" /\ call'[c].row = row
  BY <1>2, <1>3 DEF Call
<1> QED
  BY <1>1, <1>2, <1>3, <1>4, <1>5, QuietInv DEF Create

\* A call that is cancelled, or whose process ends, is lost.
LEMMA LostInv ==
    ASSUME IInv, (\E c \in Calls : Cancel(c)) \/ Kill
    PROVE  IInv'
<1>1. call \in [Calls -> Call]
  BY DEF IInv, TypeOK
<1>2. \A d \in Calls : [call[d] EXCEPT !.at = "lost"] \in Call
  BY <1>1 DEF Call
<1>3. \A d \in Calls : [call[d] EXCEPT !.at = "lost"].at = "lost"
  BY <1>1 DEF Call
<1>4. CASE Kill
  <2>1. call' \in [Calls -> Call]
    BY <1>1, <1>2, <1>4 DEF Kill
  <2>2. \A d \in Calls : call'[d] = call[d] \/ call'[d].at = "lost"
    BY <1>1, <1>3, <1>4 DEF Kill
  <2> QED
    BY <1>4, <2>1, <2>2, QuietInv DEF Kill
<1>5. ASSUME NEW c \in Calls, Cancel(c) PROVE IInv'
  <2>1. call' = [call EXCEPT ![c] = [call[c] EXCEPT !.at = "lost"]]
    BY <1>1, <1>5 DEF Cancel
  <2>2. call' \in [Calls -> Call]
    BY <1>1, <1>2, <2>1
  <2>3. \A d \in Calls : call'[d] = call[d] \/ call'[d].at = "lost"
    BY <1>1, <1>3, <2>1
  <2> QED
    BY <1>5, <2>2, <2>3, QuietInv DEF Cancel
<1> QED
  BY <1>4, <1>5

\* A row that is inserted has an id above all others; the row it replaces, if
\* any, leaves its secret behind in the new one.
LEMMA InsertInv ==
    ASSUME IInv, NEW c \in Calls, Insert(c)
    PROVE  IInv'
<1> DEFINE row == call[c].row
           id == sequence + 1
           new == Saved(row, id)
<1>1. /\ call \in [Calls -> Call] /\ call[c] \in Call
      /\ table \subseteq WalletDO /\ sequence \in Nat /\ row \in Unsaved
  BY DEF IInv, TypeOK, Insert, HasRow
<1>2. id \in Nat /\ id > sequence /\ id \in 1..id
  BY <1>1
<1>3. new \in WalletDO /\ new.id = id /\ new.encrypted = row.encrypted
  BY <1>1, <1>2 DEF Saved, WalletDO, Unsaved
<1>4. /\ table' = (table \ Replaced(row)) \cup {new}
      /\ sequence' = id
      /\ call' = [call EXCEPT ![c] = [call[c] EXCEPT !.at = "find", !.id = id]]
  BY <1>1, <1>2 DEF Insert, GeneratedId
<1>5. [call[c] EXCEPT !.at = "find", !.id = id] \in Call
  BY <1>1, <1>2 DEF Call
<1>6. call'[c].at = "find" /\ call'[c].row = row /\ call'[c].id = id
  BY <1>1, <1>4 DEF Call
<1>7. \A d \in Calls : d # c => call'[d] = call[d]
  BY <1>1, <1>4
<1> HIDE DEF row, id, new
<1>8. /\ \A r \in table' : r = new \/ (r \in table /\ r.encrypted # row.encrypted)
      /\ \A r \in table : r \in table' \/ r.encrypted = row.encrypted
      /\ new \in table'
  BY <1>4 DEF Replaced
<1>9. \A r \in table : r.id \in Nat /\ r.id < id /\ r.id \in 1..id
  BY <1>1, <1>2 DEF IInv, IdsGiven
<1>10. TypeOK'
  BY <1>1, <1>2, <1>3, <1>4, <1>5 DEF TypeOK
<1>11. HasRow'
  BY <1>1, <1>6, <1>7 DEF IInv, HasRow
<1>12. HasId'
  <2> SUFFICES ASSUME NEW d \in Calls, d # c, call[d].id \in 1..sequence
               PROVE  call[d].id \in 1..id
    BY <1>2, <1>4, <1>6, <1>7 DEF IInv, HasId
  <2> QED
    BY <1>1, <1>2
<1>13. IdsGiven'
  BY <1>2, <1>3, <1>4, <1>8, <1>9 DEF IdsGiven
<1>14. IdsOnce'
  BY <1>2, <1>3, <1>8, <1>9 DEF IInv, IdsOnce
<1>15. OneRowPerSecret'
  BY <1>3, <1>8 DEF IInv, OneRowPerSecret
<1>16. ReadsOwnRow'
  <2> SUFFICES ASSUME NEW d \in Calls, call'[d].at = "find", NEW r \in table',
                      r.id = call'[d].id
               PROVE  r = Saved(call'[d].row, call'[d].id)
    BY DEF ReadsOwnRow
  <2>1. CASE d = c
    <3>1. r = new
      BY <1>2, <1>6, <1>8, <1>9, <2>1
    <3> QED
      BY <1>6, <2>1, <3>1 DEF new
  <2>2. CASE d # c
    <3>1. call'[d] = call[d] /\ call[d].id \in 1..sequence
      BY <1>7, <2>2 DEF IInv, HasId
    <3>2. r \in table
      BY <1>1, <1>2, <1>3, <1>8, <3>1
    <3> QED
      BY <3>1, <3>2 DEF IInv, ReadsOwnRow
  <2> QED
    BY <2>1, <2>2
<1>17. SecretPresent'
  <2> SUFFICES ASSUME NEW d \in Calls, call'[d].at = "find"
               PROVE  \E r \in table' : /\ r.encrypted = call'[d].row.encrypted
                                        /\ r.id >= call'[d].id
    BY DEF SecretPresent
  <2>1. CASE d = c
    BY <1>2, <1>3, <1>6, <1>8, <2>1
  <2>2. CASE d # c
    <3>1. call'[d] = call[d] /\ call[d].id \in 1..sequence
      BY <1>7, <2>2 DEF IInv, HasId
    <3>2. PICK r \in table : r.encrypted = call[d].row.encrypted /\ r.id >= call[d].id
      BY <3>1 DEF IInv, SecretPresent
    <3>3. CASE r \in table'
      BY <3>1, <3>2, <3>3
    <3>4. CASE r \notin table'
      BY <1>1, <1>2, <1>3, <1>8, <3>1, <3>2, <3>4
    <3> QED
      BY <3>3, <3>4
  <2> QED
    BY <2>1, <2>2
<1>18. ReturnedAsAsked'
  <2> SUFFICES ASSUME NEW d \in Calls, call'[d].at = "returned"
               PROVE  call'[d].wallet = Saved(call'[d].row, call'[d].id)
    BY DEF ReturnedAsAsked
  <2>1. call'[d] = call[d]
    BY <1>6, <1>7
  <2> QED
    BY <2>1 DEF IInv, ReturnedAsAsked
<1>19. MissedOnlyIfReplaced'
  <2> SUFFICES ASSUME NEW d \in Calls, call'[d].at = "failed"
               PROVE  \E r \in table' : /\ r.encrypted = call'[d].row.encrypted
                                        /\ r.id > call'[d].id
    BY DEF MissedOnlyIfReplaced
  <2>1. call'[d] = call[d] /\ call[d].id \in 1..sequence
    BY <1>6, <1>7 DEF IInv, HasId
  <2>2. PICK r \in table : r.encrypted = call[d].row.encrypted /\ r.id > call[d].id
    BY <2>1 DEF IInv, MissedOnlyIfReplaced
  <2>3. CASE r \in table'
    BY <2>1, <2>2, <2>3
  <2>4. CASE r \notin table'
    BY <1>1, <1>2, <1>3, <1>8, <2>1, <2>2, <2>4
  <2> QED
    BY <2>3, <2>4
<1> QED
  BY <1>10, <1>11, <1>12, <1>13, <1>14, <1>15, <1>16, <1>17, <1>18, <1>19 DEF IInv

\* What findById finds is the row of the call; when it finds none, a newer row
\* holds the secret, for the id of the call would be above that of any other.
LEMMA FindInv ==
    ASSUME IInv, NEW c \in Calls, Find(c) \/ FindMissing(c)
    PROVE  IInv'
<1>1. /\ call \in [Calls -> Call] /\ call[c] \in Call /\ call[c].at = "find"
      /\ table \subseteq WalletDO /\ UNCHANGED <<table, sequence>>
      /\ call[c].id \in 1..sequence /\ sequence \in Nat
  BY DEF IInv, TypeOK, Find, FindMissing, HasId
<1>2. PICK found \in [at : {"returned", "failed"}, wallet : WalletDO \cup {None}] :
         /\ call' = [call EXCEPT ![c] = [call[c] EXCEPT !.at = found.at,
                                                        !.wallet = found.wallet]]
         /\ found.at = "returned" =>
               /\ found.wallet \in table
               /\ found.wallet.id = call[c].id
         /\ found.at = "failed" => \A r \in table : r.id # call[c].id
  <2>1. CASE Find(c)
    <3>1. PICK r \in table :
             /\ r.id = call[c].id
             /\ call' = [call EXCEPT ![c].at = "returned", ![c].wallet = r]
      BY <2>1 DEF Find
    <3> DEFINE found == [at |-> "returned", wallet |-> r]
    <3>2. call' = [call EXCEPT ![c] = [call[c] EXCEPT !.at = "returned", !.wallet = r]]
      BY <1>1, <3>1
    <3>3. found \in [at : {"returned", "failed"}, wallet : WalletDO \cup {None}]
      BY <1>1
    <3>4. found.at = "returned" /\ found.wallet = r
      OBVIOUS
    <3> HIDE DEF found
    <3> QED
      BY <3>1, <3>2, <3>3, <3>4
  <2>2. CASE FindMissing(c)
    <3> DEFINE found == [at |-> "failed", wallet |-> call[c].wallet]
    <3>1. call' = [call EXCEPT ![c] = [call[c] EXCEPT !.at = "failed",
                                                     !.wallet = call[c].wallet]]
      BY <1>1, <2>2 DEF FindMissing, Call
    <3>2. found \in [at : {"returned", "failed"}, wallet : WalletDO \cup {None}]
      BY <1>1 DEF Call
    <3>3. found.at = "failed" /\ found.wallet = call[c].wallet
      OBVIOUS
    <3>4. \A r \in table : r.id # call[c].id
      BY <2>2 DEF FindMissing
    <3> HIDE DEF found
    <3> QED
      BY <3>1, <3>2, <3>3, <3>4
  <2> QED
    BY <2>1, <2>2
<1> DEFINE ended == [call[c] EXCEPT !.at = found.at, !.wallet = found.wallet]
<1>3. ended \in Call
  BY <1>1 DEF Call
<1>4. /\ ended.at = found.at /\ ended.wallet = found.wallet
      /\ ended.row = call[c].row /\ ended.id = call[c].id
  BY <1>1 DEF Call
<1>5. call'[c] = ended /\ \A d \in Calls : d # c => call'[d] = call[d]
  BY <1>1, <1>2
<1>6. TypeOK'
  BY <1>1, <1>2, <1>3 DEF IInv, TypeOK
<1> HIDE DEF ended
<1>7. call[c].row \in Unsaved
  BY <1>1 DEF IInv, HasRow
<1>8. HasRow'
  BY <1>4, <1>5, <1>7 DEF IInv, HasRow
<1>9. HasId'
  BY <1>1, <1>4, <1>5 DEF IInv, HasId
<1>10. IdsGiven' /\ IdsOnce' /\ OneRowPerSecret'
  BY <1>1 DEF IInv, IdsGiven, IdsOnce, OneRowPerSecret
<1>11. ended.at # "find"
  BY <1>4
<1>12. ReadsOwnRow'
  <2> SUFFICES ASSUME NEW d \in Calls, call'[d].at = "find", NEW r \in table,
                      r.id = call'[d].id
               PROVE  r = Saved(call'[d].row, call'[d].id)
    BY <1>1 DEF ReadsOwnRow
  <2>1. call'[d] = call[d]
    BY <1>5, <1>11
  <2> QED
    BY <2>1 DEF IInv, ReadsOwnRow
<1>13. SecretPresent'
  BY <1>1, <1>5, <1>11 DEF IInv, SecretPresent
<1>14. ReturnedAsAsked'
  <2> SUFFICES ASSUME NEW d \in Calls, call'[d].at = "returned"
               PROVE  call'[d].wallet = Saved(call'[d].row, call'[d].id)
    BY DEF ReturnedAsAsked
  <2>1. CASE d = c
    <3>1. found.wallet = Saved(call[c].row, call[c].id)
      BY <1>1, <1>2, <1>4, <1>5, <2>1 DEF IInv, ReadsOwnRow
    <3> QED
      BY <1>4, <1>5, <2>1, <3>1
  <2>2. CASE d # c
    <3>1. call'[d] = call[d]
      BY <1>5, <2>2
    <3> QED
      BY <3>1 DEF IInv, ReturnedAsAsked
  <2> QED
    BY <2>1, <2>2
<1>15. MissedOnlyIfReplaced'
  <2>1. PICK r \in table : r.encrypted = call[c].row.encrypted /\ r.id >= call[c].id
    BY <1>1 DEF IInv, SecretPresent
  <2>2. found.at = "failed" => r.id > call[c].id
    BY <1>1, <1>2, <2>1 DEF IInv, IdsGiven
  <2> QED
    BY <1>1, <1>4, <1>5, <2>1, <2>2 DEF IInv, MissedOnlyIfReplaced
<1> QED
  BY <1>6, <1>8, <1>9, <1>10, <1>12, <1>13, <1>14, <1>15 DEF IInv

\* Every step of the calls, of their callers and of the process preserves it.
LEMMA StepInv == IInv /\ [Next]_vars => IInv'
<1> SUFFICES ASSUME IInv, [Next]_vars PROVE IInv'
  OBVIOUS
<1>1. ASSUME NEW c \in Calls, NEW name \in Name, createWallet(c, name) PROVE IInv'
  BY <1>1, CreateInv DEF createWallet, Type, SourceType
<1>2. ASSUME NEW c \in Calls, NEW name \in Name, NEW secret \in Secret,
             importWallet(c, name, secret)
      PROVE  IInv'
  BY <1>2, CreateInv DEF importWallet, SourceType
<1>3. ASSUME NEW c \in Calls, Step(c) PROVE IInv'
  BY <1>3, InsertInv, FindInv DEF Step
<1>4. CASE (\E c \in Calls : Cancel(c)) \/ Kill
  BY <1>4, LostInv
<1>5. CASE UNCHANGED vars
  <2>1. call \in [Calls -> Call]
    BY DEF IInv, TypeOK
  <2> QED
    BY <1>5, <2>1, QuietInv DEF vars
<1> QED
  BY <1>1, <1>2, <1>3, <1>4, <1>5 DEF Next

-----------------------------------------------------------------------------

\* The invariant holds in every reachable state.
THEOREM Invariance == Spec => []IInv
BY InitInv, StepInv, PTL DEF Spec

\* Rows and calls always have their types.
THEOREM TypeCorrect == Spec => []TypeOK
<1>1. IInv => TypeOK
  BY DEF IInv
<1> QED
  BY <1>1, Invariance, PTL

\* However many calls overlap, two rows never hold the same secret.
THEOREM SecretsAreUnique == Spec => []OneRowPerSecret
<1>1. IInv => OneRowPerSecret
  BY DEF IInv
<1> QED
  BY <1>1, Invariance, PTL

\* A call that returns answers with the wallet it stored, although the row may
\* have been replaced between its insertion and its read.
THEOREM AnswersAreOwn == Spec => []ReturnedAsAsked
<1>1. IInv => ReturnedAsAsked
  BY DEF IInv
<1> QED
  BY <1>1, Invariance, PTL

\* A call that fails leaves its secret stored all the same, in a newer row.
THEOREM FailuresAreReplacements == Spec => []MissedOnlyIfReplaced
<1>1. IInv => MissedOnlyIfReplaced
  BY DEF IInv
<1> QED
  BY <1>1, Invariance, PTL

\* A step of the repository is a step of the abstract store or leaves it alone.
LEMMA StepStores == IInv /\ [Next]_vars => [Store!Next]_{r.encrypted : r \in table}
<1> SUFFICES ASSUME IInv, [Next]_vars
             PROVE  \/ Store!Next
                    \/ {r.encrypted : r \in table'} = {r.encrypted : r \in table}
  OBVIOUS
<1>1. CASE table' = table
  BY <1>1
<1>2. ASSUME NEW c \in Calls, Insert(c)
      PROVE  \E s \in Secret \cup {Empty} :
                {r.encrypted : r \in table'} = {r.encrypted : r \in table} \cup {s}
  <2> DEFINE row == call[c].row
             new == Saved(row, GeneratedId(row))
  <2>1. row.encrypted \in Secret \cup {Empty}
    BY <1>2 DEF IInv, HasRow, Insert, Unsaved
  <2>2. new.encrypted = row.encrypted
    BY DEF Saved
  <2>3. table' = (table \ Replaced(row)) \cup {new}
    BY <1>2 DEF Insert
  <2>4. {r.encrypted : r \in table'} = {r.encrypted : r \in table} \cup {row.encrypted}
    BY <2>2, <2>3 DEF Replaced
  <2> QED
    BY <2>1, <2>4
<1>3. (\E c \in Calls : Insert(c)) \/ table' = table
  BY DEF Next, createWallet, importWallet, Create, Step, Find, FindMissing, Cancel,
         Kill, vars
<1> QED
  BY <1>1, <1>2, <1>3 DEF Store!Next, Store!Store

\* The repository implements the store of secrets: no secret is ever lost.
THEOREM KeepsSecrets == Spec => SecretsKept
<1>1. Init => Store!Init
  BY DEF Init, Store!Init
<1> QED
  BY <1>1, StepStores, Invariance, PTL DEF Spec, SecretsKept, Store!Spec

=============================================================================
