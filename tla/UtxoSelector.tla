---------------------------- MODULE UtxoSelector ----------------------------
(***************************************************************************)
(* UnspentOutputSelector.select: which unspent outputs pay for a transfer, *)
(* what the recipient gets and what returns as change.                     *)
(*                                                                         *)
(* One action per step of the loop: a page is taken from the provider, an  *)
(* output of the page is added, the page ends; then the checks after the   *)
(* loop throw or return. The provider (IUnspentOutputProvider) is external: *)
(* nextUtxoList hands out the wallet's outputs page by page, in any order  *)
(* and any page size, and an empty list when none is left.                 *)
(***************************************************************************)
EXTENDS TransactionSize, Functions

CONSTANTS
    Utxo,       \* the wallet's unspent outputs
    Info,       \* Info[u], the UnspentOutput of u
    Request,    \* the argument lists select is called with, each with the
                \* unspentOutputsLimit of the selector it is called on
    NoLimit     \* the limit that is null

ASSUME UtxoAssumption == IsFiniteSet(Utxo) /\ Info \in [Utxo -> UnspentOutput]
ASSUME RequestAssumption ==
    Request \subseteq [amount : Int, feeRate : Nat, receiveType : ScriptType,
                       changeType : ScriptType, senderPay : BOOLEAN, dust : Nat,
                       limit : Nat \cup {NoLimit}]
ASSUME NoLimitAssumption == NoLimit \notin Nat

VARIABLES
    pc,         \* where select is
    req,        \* its arguments and limit
    unseen,     \* outputs the provider has not handed out yet
    page,       \* the rest of the page being scanned
    selected,   \* selectedUnspentOutputs
    total,      \* totalSelectedAmount
    recipient,  \* recipientAmount
    sent,       \* sentAmount
    outcome     \* what select returned or threw

vars == <<pc, req, unseen, page, selected, total, recipient, sent, outcome>>

Error == {"Dust", "EmptyOutputs", "InsufficientUnspentOutputs"}
Pending == [kind |-> "pending"]
Thrown(e) == [kind |-> "thrown", error |-> e]
\* SelectedUnspentOutputInfo, without and with a changeValue
Exact(s, r) == [kind |-> "exact", outputs |-> s, recipientValue |-> r]
WithChange(s, r, c) ==
    [kind |-> "change", outputs |-> s, recipientValue |-> r, changeValue |-> c]

Outcome ==
    {Pending}
      \cup [kind : {"thrown"}, error : Error]
      \cup [kind : {"exact"}, outputs : Seq(Utxo), recipientValue : Int]
      \cup [kind : {"change"}, outputs : Seq(Utxo), recipientValue : Int,
            changeValue : Int]

\* The types of the state.
TypeOK ==
    /\ pc \in {"idle", "next", "scan", "settle", "done"}
    /\ req \in Request
    /\ unseen \subseteq Utxo
    /\ page \in Seq(Utxo)
    /\ selected \in Seq(Utxo)
    /\ total \in Int
    /\ recipient \in Int
    /\ sent \in Int
    /\ outcome \in Outcome

-----------------------------------------------------------------------------
Outputs(s) == [i \in DOMAIN s |-> Info[s[i]]]

Values(s) == {Info[s[i]].value : i \in DOMAIN s}
Smallest(S) == CHOOSE v \in S : \A w \in S : v <= w

\* The fee of spending s to the recipient alone, and to recipient and change.
feeAmount(s) ==
    transactionSize(Outputs(s), outputSize(req.receiveType)) * req.feeRate
ForgetsChangeOutput(s) ==      \* mutant: sized without the change output
    transactionSize(Outputs(s), outputSize(req.receiveType)) * req.feeRate
changeOutputHavingTransactionFee(s) ==
    transactionSize(Outputs(s), outputSize(req.receiveType)
                                  + outputSize(req.changeType)) * req.feeRate

RecipientAmount(fee) == IF req.senderPay THEN req.amount ELSE req.amount - fee
SentAmount(fee) == IF req.senderPay THEN req.amount + fee ELSE req.amount

Init ==
    /\ pc = "idle"
    /\ req \in Request
    /\ unseen = Utxo
    /\ page = <<>>
    /\ selected = <<>>
    /\ total = 0
    /\ recipient = 0
    /\ sent = 0
    /\ outcome = Pending

Finish(o) ==
    /\ pc' = "done"
    /\ outcome' = o

SelectDust ==
    /\ pc = "idle"
    /\ req.amount <= req.dust
    /\ Finish(Thrown("Dust"))
    /\ UNCHANGED <<req, unseen, page, selected, total, recipient, sent>>

Select ==
    /\ pc = "idle"
    /\ req.amount > req.dust
    /\ pc' = "next"
    /\ UNCHANGED <<req, unseen, page, selected, total, recipient, sent, outcome>>

\* Pages the provider may answer with: distinct outputs not handed out before.
Pages(U) ==
    {p \in UNION {[1..n -> U] : n \in 1..Cardinality(U)} :
        \A i, j \in DOMAIN p : p[i] = p[j] => i = j}

nextUtxoList ==
    /\ pc = "next"
    /\ \E p \in Pages(unseen) :
        /\ page' = p
        /\ unseen' = unseen \ {p[i] : i \in DOMAIN p}
    /\ pc' = "scan"
    /\ UNCHANGED <<req, selected, total, recipient, sent, outcome>>

EmptyPageContinues ==          \* mutant: continue for break
    /\ pc = "next"
    /\ unseen = {}
    /\ UNCHANGED vars

nextUtxoListEmpty ==
    /\ pc = "next"
    /\ unseen = {}
    /\ pc' = "settle"
    /\ UNCHANGED <<req, unseen, page, selected, total, recipient, sent, outcome>>

\* Lines 72-82: the output is added; over the limit, the first output of the
\* list is removed and the smallest value is taken off the total.
NullLimitIsTwo(s) == Len(s) > 2     \* mutant: null taken for a default limit
Exceeds(s) == req.limit # NoLimit /\ Len(s) > req.limit
Kept(s) == IF Exceeds(s) THEN Tail(s) ELSE s
Excluded(s) == IF Exceeds(s) THEN Smallest(Values(s)) ELSE 0

\* The body of the for loop, for the next output of the page.
AddUnspentOutput ==
    /\ pc = "scan"
    /\ page # <<>>
    /\ LET added == Append(selected, Head(page))
           fee == feeAmount(Kept(added))
       IN  /\ selected' = Kept(added)
           /\ total' = total + Info[Head(page)].value - Excluded(added)
           /\ recipient' = RecipientAmount(fee)
           /\ sent' = SentAmount(fee)
    /\ IF sent' <= recipient'
       THEN IF recipient' >= req.dust
            THEN page' = <<>> /\ UNCHANGED <<pc, outcome>>
            ELSE Finish(Thrown("Dust")) /\ UNCHANGED page
       ELSE page' = Tail(page) /\ UNCHANGED <<pc, outcome>>
    /\ UNCHANGED <<req, unseen>>

EndOfPage ==
    /\ pc = "scan"
    /\ page = <<>>
    /\ pc' = IF total >= sent THEN "settle" ELSE "next"
    /\ UNCHANGED <<req, unseen, page, selected, total, recipient, sent, outcome>>

-----------------------------------------------------------------------------
\* After the loop, lines 116-155.
DustChange ==                  \* mutant: the + dust is dropped
    LET fee == changeOutputHavingTransactionFee(selected)
    IN  total >= RecipientAmount(fee) + fee
NeedsChange ==
    LET fee == changeOutputHavingTransactionFee(selected)
    IN  total >= RecipientAmount(fee) + fee + req.dust

Settled ==
    IF selected = <<>> THEN Thrown("EmptyOutputs")
    ELSE IF total < sent THEN Thrown("InsufficientUnspentOutputs")
    ELSE IF ~NeedsChange THEN Exact(selected, recipient)
    ELSE LET fee == changeOutputHavingTransactionFee(selected)
         IN  IF RecipientAmount(fee) <= req.dust
             THEN Thrown("Dust")
             ELSE WithChange(selected, RecipientAmount(fee),
                             total - SentAmount(fee))

Settle ==
    /\ pc = "settle"
    /\ Finish(Settled)
    /\ UNCHANGED <<req, unseen, page, selected, total, recipient, sent>>

\* The caller calls again, on this selector or another: the locals start afresh
\* and the provider is back at its first page.
SelectAgain ==
    /\ pc = "done"
    /\ pc' = "idle"
    /\ req' \in Request
    /\ unseen' = Utxo
    /\ page' = <<>>
    /\ selected' = <<>>
    /\ total' = 0
    /\ recipient' = 0
    /\ sent' = 0
    /\ outcome' = Pending

\* select is synchronous: once entered it runs until it returns or throws.
Step == \/ SelectDust \/ Select
        \/ nextUtxoList \/ nextUtxoListEmpty \/ AddUnspentOutput \/ EndOfPage
        \/ Settle

Next == Step \/ SelectAgain

Spec == Init /\ [][Next]_vars /\ WF_vars(Step)

-----------------------------------------------------------------------------
ValueOf(s) == SumFunction([i \in DOMAIN s |-> Info[s[i]].value])

\* No output was taken out of s for the limit: the list only ever grows to the
\* limit and stays there.
NoneExcluded(s) == req.limit = NoLimit \/ Len(s) < req.limit

\* The running total is the value of the outputs that are selected: the change
\* is computed from the total, so a difference is money created or lost. It
\* holds until an output is excluded for the limit, which is kept.
FundsMatch ==
    /\ req.limit # NoLimit => Len(selected) <= req.limit
    /\ NoneExcluded(selected) => total = ValueOf(selected)

\* Line 75 says of the exclusion that it deletes the smallest value: of the
\* outputs scanned under a limit those that stay are worth the most. (At fee rate
\* 0 the loop leaves the rest of a page unscanned.)
Scanned == {u \in Utxo \ unseen : \A i \in DOMAIN page : page[i] # u}
LargestAreKept ==
    (req.limit # NoLimit /\ req.feeRate > 0 /\ pc # "idle") =>
        \A u \in Scanned : \A i \in DOMAIN selected :
            (\A j \in DOMAIN selected : selected[j] # u) =>
                Info[u].value <= Info[selected[i]].value

\* What the loop leaves behind: the amounts belong to the outputs that are
\* selected now, not to an earlier, smaller selection.
AmountsCurrent ==
    (pc \in {"scan", "next", "settle"} /\ selected # <<>>) =>
        /\ recipient = RecipientAmount(feeAmount(selected))
        /\ sent = SentAmount(feeAmount(selected))

\* What select returns pays its own fee, as long as no output was excluded.
\* Without change, the outputs are worth recipient and fee, and what is left
\* over would not have paid for a change output above dust; with change, they
\* are worth recipient, change and fee, and neither the change nor the
\* recipient's value is dust.
PaidInFull ==
    (outcome.kind \in {"exact", "change"} /\ NoneExcluded(outcome.outputs)) =>
        LET worth == ValueOf(outcome.outputs)
            r == outcome.recipientValue
            fee == feeAmount(outcome.outputs)
            feeWithChange == changeOutputHavingTransactionFee(outcome.outputs)
        IN  /\ outcome.kind = "exact" =>
                /\ worth >= r + fee
                /\ IF req.senderPay THEN worth < r + feeWithChange + req.dust
                                    ELSE worth < r + fee + req.dust
            /\ outcome.kind = "change" =>
                /\ worth = r + outcome.changeValue + feeWithChange
                /\ outcome.changeValue >= req.dust
                /\ r > req.dust

\* A call returns or throws, whatever the size and order of the pages.
Terminates == (pc # "done") ~> (pc = "done")

-----------------------------------------------------------------------------
(***************************************************************************)
(* The selection as its caller sees it.                                    *)
(***************************************************************************)
Promise == INSTANCE CoinSelection
PromiseSpec == Promise!Spec
=============================================================================
