--------------------------- MODULE MCSaveQueueUse ---------------------------
(* SaveQueueUse for TLC: values and callers are model values.              *)
EXTENDS SaveQueueUse

=============================================================================
