----------------------------- MODULE MCSshSessions -----------------------------
(* SshSessions for TLC: its clients are model values.                      *)
EXTENDS SshSessions

================================================================================
