-------------------------- MODULE MCTransferViews ---------------------------
(* TransferViews for TLC: a transfer is a model value.                     *)
EXTENDS TransferViews

=============================================================================
