---- MODULE MCTerminalOutput ----
(* Instances of TerminalOutput for TLC.  The unit is 64 KiB or, in the     *)
(* smaller instances, 128 KiB; reads are rounded to it.                    *)
EXTENDS TerminalOutput
============================
