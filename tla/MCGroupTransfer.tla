-------------------------- MODULE MCGroupTransfer --------------------------
(* Model values for checking GroupTransfer. *)
EXTENDS GroupTransfer

CONSTANTS t1, t2

OneTransfer == {t1}
TwoTransfers == {t1, t2}
=============================================================================
