----------------------------- MODULE SecretStore -----------------------------
(***************************************************************************)
(* What the wallet table promises about the secrets entrusted to it: a     *)
(* secret that was stored stays stored, whatever is created, imported,     *)
(* abandoned or interrupted afterwards.                                    *)
(***************************************************************************)
CONSTANT Secret

VARIABLE stored     \* the secrets some row of the table holds

Init == stored = {}

Store == \E s \in Secret : stored' = stored \cup {s}

Next == Store

Spec == Init /\ [][Next]_stored

=============================================================================
