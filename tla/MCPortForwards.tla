---------------------------- MODULE MCPortForwards ----------------------------
(* PortForwards for TLC: its connections and settings are model values. *)
EXTENDS PortForwards

================================================================================
