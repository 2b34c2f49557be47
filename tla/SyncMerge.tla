----------------------------- MODULE SyncMerge -----------------------------
(***************************************************************************)
(* The three-way merge of the WebDAV sync: sync_backend/merge.rs           *)
(* (merge_sync_documents, reconcile_settings_credentials) and the records  *)
(* and tombstones it is fed with (sync_backend/records.rs).                *)
(*                                                                         *)
(* merge_sync_documents treats every id on its own, so the merge is stated *)
(* for one id.  A record is [hash, at]: the payload's digest and its       *)
(* updatedAt; a tombstone is [hash, at]: the digest of the deleted payload *)
(* and deletedAt.  An entry [rec, tomb, conflict] is what a document holds *)
(* under one id, with the flag that the id was reported as a conflict.     *)
(* Times are naturals.  The uploaded/downloaded/deleted counters, conflict *)
(* wording and the device list are display data and left out.              *)
(***************************************************************************)
EXTENDS Integers

CONSTANT None   \* no record, no tombstone, no credential

Resolutions == {"", "local", "remote"}   \* "": the user has decided nothing

Entry(rec, tomb) == [rec |-> rec, tomb |-> tomb, conflict |-> FALSE]

(* The side differs from the last synced version; without a baseline no    *)
(* side counts as changed.                                                 *)
Changed(rec, previous) == previous # None /\ rec.hash # previous.hash

-----------------------------------------------------------------------------
(* What a device feeds into the merge.                                     *)

(* updatedAt of a record whose payload carries no time of its own: the     *)
(* baseline's while the payload is unchanged, the time of the sync if not. *)
DerivedAt(hash, previous, now) ==
    IF previous # None /\ previous.hash = hash THEN previous.at ELSE now

\* Mutant: an old tombstone is stamped anew at every sync.
LocalTombstoneRestamped(localRec, previous, previousTomb, now) ==
    CASE localRec # None -> None
      [] localRec = None /\ previous # None -> [hash |-> previous.hash, at |-> now]
      [] OTHER -> IF previousTomb = None THEN None ELSE [previousTomb EXCEPT !.at = now]

(* create_local_tombstones: an id the vault lacks and the baseline lists   *)
(* was deleted, as far as this sync can tell, now.                         *)
LocalTombstone(localRec, previous, previousTomb, now) ==
    CASE localRec # None -> None
      [] localRec = None /\ previous # None -> [hash |-> previous.hash, at |-> now]
      [] OTHER -> previousTomb

-----------------------------------------------------------------------------
(* merge_sync_documents, first loop: a local tombstone.                    *)

TombstoneWins(rec, tomb) ==
    rec = None \/ rec.hash = tomb.hash \/ tomb.at >= rec.at

MergeTombstone(entry, localTomb, resolution) ==
    CASE localTomb = None -> entry
      [] localTomb # None /\ TombstoneWins(entry.rec, localTomb) ->
            [entry EXCEPT !.rec = None, !.tomb = localTomb]
      [] localTomb # None /\ ~TombstoneWins(entry.rec, localTomb) /\ resolution = "local" ->
            [rec |-> None, tomb |-> localTomb, conflict |-> TRUE]
      [] OTHER -> [entry EXCEPT !.conflict = TRUE]

-----------------------------------------------------------------------------
(* merge_sync_documents, second loop: a local record.                      *)

(* The document deletes what the device still has. *)
Covered(tomb, localRec) == tomb # None /\ tomb.at >= localRec.at

\* Mutant: a deletion elsewhere is undone by every device that has the record.
MergeCoveredRestores(entry, localRec, previous, resolution) ==
    [entry EXCEPT !.rec = localRec, !.tomb = None]

MergeCovered(entry, localRec, previous, resolution) ==
    LET changed == Changed(localRec, previous)
    IN  CASE ~changed \/ resolution = "remote" ->
                [entry EXCEPT !.rec = None, !.conflict = @ \/ changed]
          [] changed /\ resolution = "local" ->
                [rec |-> localRec, tomb |-> None, conflict |-> TRUE]
          [] OTHER -> [entry EXCEPT !.conflict = TRUE]

\* Mutant: two edits are settled by time alone.
MergeVersionsByTime(entry, localRec, previous, resolution) ==
    IF localRec.at >= entry.rec.at THEN [entry EXCEPT !.rec = localRec] ELSE entry

\* Mutant: this device's version always wins.
MergeVersionsLocalWins(entry, localRec, previous, resolution) == [entry EXCEPT !.rec = localRec]

\* Mutant: the document's version always wins.
MergeVersionsRemoteWins(entry, localRec, previous, resolution) == entry

(* Both sides have a version: the same one, two edits of a common one, or  *)
(* versions ordered by their time.                                         *)
MergeVersions(entry, localRec, previous, resolution) ==
    CASE entry.rec.hash = localRec.hash ->
            IF localRec.at > entry.rec.at THEN [entry EXCEPT !.rec = localRec] ELSE entry
      [] /\ entry.rec.hash # localRec.hash
         /\ Changed(localRec, previous) /\ Changed(entry.rec, previous) ->
            [entry EXCEPT !.rec = IF resolution = "local" THEN localRec ELSE @,
                          !.conflict = TRUE]
      [] OTHER ->
            IF localRec.at >= entry.rec.at THEN [entry EXCEPT !.rec = localRec] ELSE entry

MergeRecord(entry, localRec, previous, resolution) ==
    CASE localRec = None -> entry
      [] localRec # None /\ Covered(entry.tomb, localRec) ->
            MergeCovered(entry, localRec, previous, resolution)
      [] localRec # None /\ ~Covered(entry.tomb, localRec) /\ entry.rec = None ->
            [entry EXCEPT !.rec = localRec]
      [] OTHER -> MergeVersions(entry, localRec, previous, resolution)

Merge(entry, localRec, localTomb, previous, resolution) ==
    MergeRecord(MergeTombstone(entry, localTomb, resolution), localRec, previous, resolution)

-----------------------------------------------------------------------------
(* The settings record.  Its payload is [body, key]; the digest is taken   *)
(* of both, so the payload stands for its hash.                            *)

\* Mutant: the credential of the side that lost is not looked at.
AdoptedKeyOfWinner(merged, localRec, remoteRec) == merged.hash.key

Key(rec) == IF rec = None THEN None ELSE rec.hash.key
SettingsAt(rec) == IF rec = None THEN 0 ELSE rec.at

(* reconcile_settings_credentials: an empty credential of the merged       *)
(* settings is filled from the side that has one, the later side of two.   *)
AdoptedKey(merged, localRec, remoteRec) ==
    CASE merged.hash.key # None -> merged.hash.key
      [] merged.hash.key = None /\ Key(remoteRec) = None -> Key(localRec)
      [] merged.hash.key = None /\ Key(remoteRec) # None /\ Key(localRec) = None -> Key(remoteRec)
      [] OTHER -> IF SettingsAt(localRec) >= SettingsAt(remoteRec)
                  THEN Key(localRec) ELSE Key(remoteRec)

MergeSettings(remoteRec, localRec, previous, resolution) ==
    LET merged == MergeRecord(Entry(remoteRec, None), localRec, previous, resolution)
    IN  IF merged.rec = None
        THEN merged
        ELSE [merged EXCEPT !.rec.hash.key = AdoptedKey(merged.rec, localRec, remoteRec)]

-----------------------------------------------------------------------------
(* What the merge promises, for one id.                                    *)

(* The document deletes an id it still lists. *)
Clean(entry) == (entry.rec # None /\ entry.tomb # None) => entry.tomb.at < entry.rec.at

(* No decision, no conflict reported: an edit made here since the last     *)
(* sync is what the merged document holds, if the edit is stamped later    *)
(* than the version it replaced.                                           *)
KeepsLocalEdit(entry, localRec, previous, merged) ==
    (/\ localRec # None /\ Changed(localRec, previous)
     /\ (entry.rec # None /\ entry.rec.hash = previous.hash) => entry.rec.at <= localRec.at
     /\ ~merged.conflict)
        => merged.rec # None /\ merged.rec.hash = localRec.hash

(* And the other way round: this device still holds the version it synced  *)
(* last, another one wrote a later version; the merge keeps that.  (Beside *)
(* a tombstone it may not: see the README.)                                *)
KeepsRemoteEdit(entry, localRec, previous, merged) ==
    (/\ localRec # None /\ previous # None /\ localRec.hash = previous.hash
     /\ entry.rec # None /\ Changed(entry.rec, previous) /\ entry.rec.at > localRec.at
     /\ entry.tomb = None)
        => merged.rec = entry.rec

(* Nobody's deletion is undone: what this device has not touched since the *)
(* document's deletion is not put back.                                    *)
KeepsDeletion(entry, localRec, previous, merged) ==
    (/\ localRec # None /\ ~Changed(localRec, previous)
     /\ entry.rec = None /\ entry.tomb # None /\ entry.tomb.at >= localRec.at)
        => merged.rec = None /\ merged.tomb = entry.tomb

(* A credential that either side has is not lost. *)
KeepsKey(remoteRec, localRec, merged) ==
    (Key(remoteRec) # None \/ Key(localRec) # None)
        => \/ merged.rec = None
           \/ Key(merged.rec) # None
=============================================================================
