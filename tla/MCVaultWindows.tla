--------------------------- MODULE MCVaultWindows ---------------------------
(* VaultWindows for TLC: windows and changes are model values.             *)
EXTENDS VaultWindows

=============================================================================
