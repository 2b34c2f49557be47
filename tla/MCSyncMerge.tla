---- MODULE MCSyncMerge ----
(* Instance of SyncMergeCases for TLC: three digests tell apart the        *)
(* baseline's version and two edits of it, three times order them.         *)
EXTENDS SyncMergeCases
CONSTANTS k1, k2
MCHashes == 1..3
MCTimes == 1..3
MCNow == 4
MCBodies == 1..2
MCCredentials == {k1, k2}
============================
