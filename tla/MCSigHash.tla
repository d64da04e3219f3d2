------------------------------ MODULE MCSigHash ------------------------------
(* SigHash with three outpoints; sequence 0 is EMPTY_TX_SEQUENCE, which the *)
(* serializers write for others when a type does not sign their sequences. *)
EXTENDS SigHash

MCOutPoint == <<"o1", "o2", "o3">>

=============================================================================
