---------------------------- MODULE CoinSelection ----------------------------
(***************************************************************************)
(* What InputSetter may rely on when it calls IUnspentOutputSelector with a *)
(* positive fee rate: one step from the arguments to an outcome that is     *)
(* right for the whole wallet, however the provider cuts the wallet into    *)
(* pages. Where the number of outputs is limited nothing is promised but an *)
(* answer.                                                                 *)
(***************************************************************************)
EXTENDS TransactionSize, SequencesExt

CONSTANTS
    Utxo,       \* the wallet's unspent outputs
    Info,       \* Info[u], the UnspentOutput of u
    Request,    \* the argument lists
    NoLimit

VARIABLES
    req,        \* the arguments of the call
    outcome     \* "pending" until it is answered

Value(s) == SumFunction([i \in DOMAIN s |-> Info[s[i]].value])

\* What the network asks of a transaction that spends s into outputs of the
\* script types in the list ts.
Fee(s, ts) ==
    transactionSize([i \in DOMAIN s |-> Info[s[i]]],
                    SumFunction([i \in DOMAIN ts |-> outputSize(ts[i])]))
      * req.feeRate

Wallet == SetToSeq(Utxo)
Spendable(s) == Len(s) > 0 /\ IsInjective(s)

\* Inputs are worth exactly recipient, change and fee, or, without a change
\* output, recipient and at least the fee. The sender's choice decides who
\* bears the fee.
Paid ==
    \/ /\ outcome.kind = "change"
       /\ Spendable(outcome.outputs)
       /\ LET fee == Fee(outcome.outputs, <<req.receiveType, req.changeType>>)
          IN  /\ Value(outcome.outputs) = outcome.recipientValue + outcome.changeValue + fee
              /\ outcome.recipientValue = IF req.senderPay THEN req.amount
                                    ELSE req.amount - fee
       /\ outcome.changeValue >= req.dust
    \/ /\ outcome.kind = "exact"
       /\ Spendable(outcome.outputs)
       /\ LET fee == Fee(outcome.outputs, <<req.receiveType>>)
          IN  /\ Value(outcome.outputs) >= outcome.recipientValue + fee
              /\ outcome.recipientValue = IF req.senderPay THEN req.amount
                                    ELSE req.amount - fee

\* An error is thrown only for its reason, seen over the whole wallet.
Refused ==
    /\ outcome.kind = "thrown"
    /\ CASE outcome.error = "EmptyOutputs" -> Utxo = {}
         [] outcome.error = "InsufficientUnspentOutputs" ->
              Value(Wallet) < req.amount
                + (IF req.senderPay THEN Fee(Wallet, <<req.receiveType>>) ELSE 0)
         [] outcome.error = "Dust" ->
              \/ req.amount <= req.dust
              \/ /\ ~req.senderPay
                 /\ req.amount - Fee(Wallet, <<req.receiveType, req.changeType>>)
                      <= req.dust

Init == req \in Request /\ outcome = [kind |-> "pending"]

Answer ==
    /\ outcome.kind = "pending"
    /\ outcome'.kind # "pending"
    /\ (req.limit = NoLimit => Paid \/ Refused)'
    /\ UNCHANGED req

Ask ==
    /\ outcome.kind # "pending"
    /\ req' \in Request
    /\ outcome' = [kind |-> "pending"]

Next == Answer \/ Ask

Spec == Init /\ [][Next]_<<req, outcome>>
=============================================================================
