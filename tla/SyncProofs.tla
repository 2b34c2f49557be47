----------------------------- MODULE SyncProofs -----------------------------
(***************************************************************************)
(* What the merge of SyncMerge promises, for all digests, times and        *)
(* credentials: the properties of SyncMergeCases, which speak of one       *)
(* merge.  Then what WebDavSync promises, for any number of devices,       *)
(* records and syncs.                                                      *)
(***************************************************************************)
EXTENDS SyncMergeCases, WebDavSync, FiniteSetTheorems, TLAPS

(* Records that are not None, with any digests and integer times.          *)
IsRecordSet(R) ==
    /\ None \notin R
    /\ \A r \in R : r.at \in Int

(* A tombstone deletes the record beside it or is older than it.           *)
LEMMA TombstoneMergeIsClean ==
    ASSUME NEW R, IsRecordSet(R),
           NEW entry \in [rec : R \cup {None}, tomb : R \cup {None}, conflict : BOOLEAN],
           NEW localTomb \in R \cup {None},
           NEW resolution,
           Clean(entry)
    PROVE  /\ MergeTombstone(entry, localTomb, resolution)
                \in [rec : R \cup {None}, tomb : R \cup {None}, conflict : BOOLEAN]
           /\ Clean(MergeTombstone(entry, localTomb, resolution))
<1>1. CASE localTomb = None
  BY <1>1 DEF MergeTombstone
<1>2. CASE localTomb # None /\ TombstoneWins(entry.rec, localTomb)
  BY <1>2 DEF MergeTombstone, Clean
<1>3. CASE localTomb # None /\ ~TombstoneWins(entry.rec, localTomb) /\ resolution = "local"
  BY <1>3 DEF MergeTombstone, Clean
<1>4. CASE localTomb # None /\ ~TombstoneWins(entry.rec, localTomb) /\ resolution # "local"
  BY <1>4 DEF MergeTombstone, Clean
<1> QED BY <1>1, <1>2, <1>3, <1>4

(* Whatever the local record does, the entry stays clean.                  *)
LEMMA RecordMergeIsClean ==
    ASSUME NEW R, IsRecordSet(R),
           NEW entry \in [rec : R \cup {None}, tomb : R \cup {None}, conflict : BOOLEAN],
           NEW localRec \in R \cup {None},
           NEW previous \in R \cup {None},
           NEW resolution,
           Clean(entry)
    PROVE  /\ MergeRecord(entry, localRec, previous, resolution)
                \in [rec : R \cup {None}, tomb : R \cup {None}, conflict : BOOLEAN]
           /\ Clean(MergeRecord(entry, localRec, previous, resolution))
<1> DEFINE merged == MergeRecord(entry, localRec, previous, resolution)
<1>0. Changed(localRec, previous) \in BOOLEAN
  BY DEF Changed
<1>1. CASE localRec = None
  BY <1>1 DEF MergeRecord
<1>2. CASE localRec # None /\ Covered(entry.tomb, localRec)
  <2>1. merged = MergeCovered(entry, localRec, previous, resolution)
    BY <1>2 DEF MergeRecord
  <2>2. CASE ~Changed(localRec, previous) \/ resolution = "remote"
    <3>1. merged = [entry EXCEPT !.rec = None, !.conflict = @ \/ Changed(localRec, previous)]
      BY <2>1, <2>2 DEF MergeCovered
    <3>2. entry.conflict \/ Changed(localRec, previous) \in BOOLEAN
      BY <1>0
    <3> QED BY <3>1, <3>2 DEF Clean
  <2>3. CASE Changed(localRec, previous) /\ resolution = "local"
    <3>1. merged = [rec |-> localRec, tomb |-> None, conflict |-> TRUE]
      BY <2>1, <2>3 DEF MergeCovered
    <3> QED BY <3>1 DEF Clean
  <2>4. CASE Changed(localRec, previous) /\ resolution # "local" /\ resolution # "remote"
    <3>1. merged = [entry EXCEPT !.conflict = TRUE]
      BY <2>1, <2>4 DEF MergeCovered
    <3> QED BY <3>1 DEF Clean
  <2> QED BY <1>0, <2>2, <2>3, <2>4
<1>3. CASE localRec # None /\ ~Covered(entry.tomb, localRec) /\ entry.rec = None
  BY <1>3 DEF MergeRecord, Clean, Covered, IsRecordSet
<1>4. CASE localRec # None /\ ~Covered(entry.tomb, localRec) /\ entry.rec # None
  <2>1. merged = MergeVersions(entry, localRec, previous, resolution)
    BY <1>4 DEF MergeRecord
  <2>2. \/ merged = entry
        \/ merged = [entry EXCEPT !.rec = localRec]
        \/ merged = [entry EXCEPT !.rec = localRec, !.conflict = TRUE]
        \/ merged = [entry EXCEPT !.conflict = TRUE]
    BY <2>1 DEF MergeVersions
  <2>3. Clean([entry EXCEPT !.rec = localRec])
    BY <1>4 DEF Clean, Covered, IsRecordSet
  <2>4. Clean([entry EXCEPT !.rec = localRec, !.conflict = TRUE])
    BY <1>4 DEF Clean, Covered, IsRecordSet
  <2>5. Clean([entry EXCEPT !.conflict = TRUE])
    BY DEF Clean
  <2> QED BY <1>4, <2>2, <2>3, <2>4, <2>5
<1> QED BY <1>1, <1>2, <1>3, <1>4

(* The merge of a clean entry is clean.                                    *)
LEMMA MergeIsClean ==
    ASSUME NEW R, IsRecordSet(R),
           NEW entry \in [rec : R \cup {None}, tomb : R \cup {None}, conflict : BOOLEAN],
           NEW localRec \in R \cup {None},
           NEW localTomb \in R \cup {None},
           NEW previous \in R \cup {None},
           NEW resolution,
           Clean(entry)
    PROVE  /\ Merge(entry, localRec, localTomb, previous, resolution)
                \in [rec : R \cup {None}, tomb : R \cup {None}, conflict : BOOLEAN]
           /\ Clean(Merge(entry, localRec, localTomb, previous, resolution))
<1> DEFINE middle == MergeTombstone(entry, localTomb, resolution)
<1>1. /\ middle \in [rec : R \cup {None}, tomb : R \cup {None}, conflict : BOOLEAN]
      /\ Clean(middle)
  BY TombstoneMergeIsClean
<1> HIDE DEF middle
<1>2. /\ MergeRecord(middle, localRec, previous, resolution)
                \in [rec : R \cup {None}, tomb : R \cup {None}, conflict : BOOLEAN]
      /\ Clean(MergeRecord(middle, localRec, previous, resolution))
  BY <1>1, RecordMergeIsClean
<1> QED BY <1>2 DEF Merge, middle

-----------------------------------------------------------------------------
(* What is kept.                                                           *)

(* A device that has a record merges no tombstone of its own for it.       *)
LEMMA OwnRecordOnly ==
    ASSUME NEW entry, NEW localRec, NEW previous, NEW previousTomb, NEW now, NEW resolution,
           localRec # None
    PROVE  Merge(entry, localRec, LocalTombstone(localRec, previous, previousTomb, now),
                 previous, resolution)
             = MergeRecord(entry, localRec, previous, resolution)
<1>1. LocalTombstone(localRec, previous, previousTomb, now) = None
  BY DEF LocalTombstone
<1>2. MergeTombstone(entry, None, resolution) = entry
  BY DEF MergeTombstone
<1> QED BY <1>1, <1>2 DEF Merge

(* An edit is in the merged document, or a conflict is reported.           *)
LEMMA LocalEditMerged ==
    ASSUME NEW R, IsRecordSet(R),
           NEW entry \in [rec : R \cup {None}, tomb : R \cup {None}, conflict : BOOLEAN],
           NEW localRec \in R \cup {None},
           NEW previous \in R \cup {None}
    PROVE  KeepsLocalEdit(entry, localRec, previous,
                          MergeRecord(entry, localRec, previous, ""))
<1> DEFINE merged == MergeRecord(entry, localRec, previous, "")
<1> SUFFICES ASSUME localRec # None, Changed(localRec, previous),
                    (entry.rec # None /\ entry.rec.hash = previous.hash)
                        => entry.rec.at <= localRec.at,
                    ~merged.conflict
             PROVE  merged.rec # None /\ merged.rec.hash = localRec.hash
  BY DEF KeepsLocalEdit
<1>0. localRec \in R /\ localRec.at \in Int
  BY DEF IsRecordSet
<1>1. CASE Covered(entry.tomb, localRec)
  <2>1. merged = [entry EXCEPT !.conflict = TRUE]
    BY <1>1 DEF MergeRecord, MergeCovered
  <2> QED BY <2>1
<1>2. CASE ~Covered(entry.tomb, localRec) /\ entry.rec = None
  <2>1. merged = [entry EXCEPT !.rec = localRec]
    BY <1>2 DEF MergeRecord
  <2> QED BY <2>1
<1>3. CASE ~Covered(entry.tomb, localRec) /\ entry.rec # None
  <2>1. merged = MergeVersions(entry, localRec, previous, "")
    BY <1>3 DEF MergeRecord
  <2>2. CASE entry.rec.hash = localRec.hash
    BY <1>0, <1>3, <2>1, <2>2 DEF MergeVersions
  <2>3. CASE entry.rec.hash # localRec.hash /\ Changed(entry.rec, previous)
    <3>1. merged = [entry EXCEPT !.rec = entry.rec, !.conflict = TRUE]
      BY <2>1, <2>3 DEF MergeVersions
    <3> QED BY <3>1
  <2>4. CASE entry.rec.hash # localRec.hash /\ ~Changed(entry.rec, previous)
    <3>1. entry.rec.at <= localRec.at
      BY <1>3, <2>4 DEF Changed
    <3>2. entry.rec.at \in Int
      BY <1>3 DEF IsRecordSet
    <3>3. merged = [entry EXCEPT !.rec = localRec]
      BY <1>0, <2>1, <2>4, <3>1, <3>2 DEF MergeVersions
    <3> QED BY <3>3
  <2> QED BY <2>2, <2>3, <2>4
<1> QED BY <1>1, <1>2, <1>3

(* A newer version written elsewhere is in the merged document.            *)
LEMMA RemoteEditMerged ==
    ASSUME NEW R, IsRecordSet(R),
           NEW entry \in [rec : R \cup {None}, tomb : R \cup {None}, conflict : BOOLEAN],
           NEW localRec \in R \cup {None},
           NEW previous \in R \cup {None},
           NEW resolution
    PROVE  KeepsRemoteEdit(entry, localRec, previous,
                           MergeRecord(entry, localRec, previous, resolution))
<1> DEFINE merged == MergeRecord(entry, localRec, previous, resolution)
<1> SUFFICES ASSUME localRec # None, previous # None, localRec.hash = previous.hash,
                    entry.rec # None, Changed(entry.rec, previous),
                    entry.rec.at > localRec.at, entry.tomb = None
             PROVE  merged.rec = entry.rec
  BY DEF KeepsRemoteEdit
<1>1. localRec.at \in Int /\ entry.rec.at \in Int
  BY DEF IsRecordSet
<1>2. merged = MergeVersions(entry, localRec, previous, resolution)
  BY DEF MergeRecord, Covered
<1>3. entry.rec.hash # localRec.hash /\ ~Changed(localRec, previous)
  BY DEF Changed
<1>4. merged = entry
  BY <1>1, <1>2, <1>3 DEF MergeVersions
<1> QED BY <1>4

(* A deletion elsewhere reaches a device that left the record alone.       *)
LEMMA DeletionMerged ==
    ASSUME NEW R, IsRecordSet(R),
           NEW entry \in [rec : R \cup {None}, tomb : R \cup {None}, conflict : BOOLEAN],
           NEW localRec \in R \cup {None},
           NEW previous \in R \cup {None},
           NEW resolution
    PROVE  KeepsDeletion(entry, localRec, previous,
                         MergeRecord(entry, localRec, previous, resolution))
<1> DEFINE merged == MergeRecord(entry, localRec, previous, resolution)
<1> SUFFICES ASSUME localRec # None, ~Changed(localRec, previous),
                    entry.rec = None, entry.tomb # None, entry.tomb.at >= localRec.at
             PROVE  merged.rec = None /\ merged.tomb = entry.tomb
  BY DEF KeepsDeletion
<1>1. merged = [entry EXCEPT !.rec = None, !.conflict = @ \/ Changed(localRec, previous)]
  BY DEF MergeRecord, Covered, MergeCovered
<1> QED BY <1>1

(* reconcile_settings_credentials finds the credential of either side.     *)
LEMMA KeyAdopted ==
    ASSUME NEW merged, NEW localRec, NEW remoteRec,
           Key(remoteRec) # None \/ Key(localRec) # None
    PROVE  AdoptedKey(merged, localRec, remoteRec) # None
<1>1. CASE merged.hash.key # None
  BY <1>1 DEF AdoptedKey
<1>2. CASE merged.hash.key = None /\ Key(remoteRec) = None
  BY <1>2 DEF AdoptedKey
<1>3. CASE merged.hash.key = None /\ Key(remoteRec) # None /\ Key(localRec) = None
  BY <1>3 DEF AdoptedKey
<1>4. CASE merged.hash.key = None /\ Key(remoteRec) # None /\ Key(localRec) # None
  BY <1>4 DEF AdoptedKey
<1> QED BY <1>1, <1>2, <1>3, <1>4

(* No merge of settings loses a credential.                                *)
LEMMA KeyMerged ==
    ASSUME NEW remoteRec \in SettingsRecords \cup {None},
           NEW localRec \in SettingsRecords,
           NEW previous \in SettingsRecords \cup {None},
           NEW resolution
    PROVE  KeepsKey(remoteRec, localRec, MergeSettings(remoteRec, localRec, previous, resolution))
<1> DEFINE plain == MergeRecord(Entry(remoteRec, None), localRec, previous, resolution)
           merged == MergeSettings(remoteRec, localRec, previous, resolution)
           key == AdoptedKey(plain.rec, localRec, remoteRec)
<1>1. IsRecordSet(SettingsRecords)
  <2>1. None \notin SettingsRecords
    BY SyncMergeCasesAssumption DEF SettingsRecords, Payloads
  <2>2. \A r \in SettingsRecords : r.at \in Times
    BY DEF SettingsRecords
  <2>3. Times \subseteq Int
    BY SyncMergeCasesAssumption
  <2> QED BY <2>1, <2>2, <2>3 DEF IsRecordSet
<1>2. /\ Entry(remoteRec, None) \in [rec : SettingsRecords \cup {None},
                                     tomb : SettingsRecords \cup {None}, conflict : BOOLEAN]
      /\ Clean(Entry(remoteRec, None))
  BY DEF Entry, Clean
<1>3. plain \in [rec : SettingsRecords \cup {None},
                 tomb : SettingsRecords \cup {None}, conflict : BOOLEAN]
  BY <1>1, <1>2, RecordMergeIsClean
<1> SUFFICES ASSUME Key(remoteRec) # None \/ Key(localRec) # None
             PROVE  merged.rec = None \/ Key(merged.rec) # None
  BY DEF KeepsKey
<1>4. CASE plain.rec = None
  BY <1>4 DEF MergeSettings
<1>5. CASE plain.rec # None
  <2>1. plain.rec \in [hash : [body : Bodies, key : Credentials \cup {None}], at : Times]
    BY <1>3, <1>5 DEF SettingsRecords, Payloads
  <2>2. merged = [plain EXCEPT !.rec.hash.key = key]
    BY <1>5 DEF MergeSettings
  <2> HIDE DEF plain, key
  <2>3. merged.rec.hash.key = key
    BY <1>3, <2>1, <2>2
  <2>4. key # None
    BY KeyAdopted DEF key
  <2> QED BY <2>3, <2>4 DEF Key
<1> QED BY <1>4, <1>5

-----------------------------------------------------------------------------
(* The same of every case SyncMergeCases can be given.                     *)

CasesInv ==
    /\ input \in ContentInput \cup SettingsInput
    /\ stage # "given" =>
          output = IF input.kind = "content"
                   THEN ContentMerge(input)
                   ELSE MergeSettings(input.remote, input.localRec, input.previous, input.resolution)

LEMMA CasesInvariant == CaseSpec => []CasesInv
<1>1. CaseInit => CasesInv
  BY DEF CaseInit, CasesInv
<1>2. CasesInv /\ [CaseNext]_caseVars => CasesInv'
  <2> SUFFICES ASSUME CasesInv, [CaseNext]_caseVars
               PROVE  CasesInv'
    OBVIOUS
  <2>1. CASE MergeCase
    BY <2>1 DEF MergeCase, CasesInv, ContentMerge
  <2>2. CASE ResyncCase
    BY <2>2 DEF ResyncCase, CasesInv, ContentMerge
  <2>3. CASE UNCHANGED caseVars
    BY <2>3 DEF caseVars, CasesInv, ContentMerge
  <2> QED BY <2>1, <2>2, <2>3 DEF CaseNext
<1> QED BY <1>1, <1>2, PTL DEF CaseSpec

(* The records of a content case, the deletions found by its sync among    *)
(* them.                                                                   *)
Stamped == [hash : Hashes, at : Times \cup {Now}]

LEMMA StampsAreRecords ==
    /\ IsRecordSet(Stamped)
    /\ Records \subseteq Stamped
<1>1. None \notin Stamped
  BY SyncMergeCasesAssumption DEF Stamped
<1>2. \A r \in Stamped : r.at \in Times \cup {Now}
  BY DEF Stamped
<1>3. Times \cup {Now} \subseteq Int
  BY SyncMergeCasesAssumption
<1>4. Records \subseteq Stamped
  BY DEF Records, Stamped
<1> QED BY <1>1, <1>2, <1>3, <1>4 DEF IsRecordSet

(* What a content case gives to the merge.                                 *)
LEMMA ContentTypes ==
    ASSUME NEW c \in ContentInput
    PROVE  /\ c.remote \in [rec : Stamped \cup {None}, tomb : Stamped \cup {None}, conflict : BOOLEAN]
           /\ Clean(c.remote)
           /\ c.localRec \in Stamped \cup {None}
           /\ c.previous \in Stamped \cup {None}
           /\ c.previousTomb \in Stamped \cup {None}
<1>1. /\ c.remote \in Entries
      /\ c.localRec \in Records \cup {None}
      /\ c.previous \in Records \cup {None}
      /\ c.previousTomb \in Records \cup {None}
  BY DEF ContentInput
<1>2. /\ c.remote \in [rec : Records \cup {None}, tomb : Records \cup {None}, conflict : {FALSE}]
      /\ Clean(c.remote)
  BY <1>1 DEF Entries
<1>3. Records \cup {None} \subseteq Stamped \cup {None}
  BY StampsAreRecords
<1>4. c.remote \in [rec : Stamped \cup {None}, tomb : Stamped \cup {None}, conflict : BOOLEAN]
  BY <1>2, <1>3
<1> QED BY <1>1, <1>2, <1>3, <1>4

(* The tombstone a device finds carries a baseline's digest and this       *)
(* sync's time, or is one of the baseline's.                               *)
LEMMA FoundTombstone ==
    ASSUME NEW localRec \in Stamped \cup {None},
           NEW previous \in Stamped \cup {None},
           NEW previousTomb \in Stamped \cup {None}
    PROVE  LocalTombstone(localRec, previous, previousTomb, Now) \in Stamped \cup {None}
<1>1. CASE localRec # None
  BY <1>1 DEF LocalTombstone
<1>2. CASE localRec = None /\ previous # None
  BY <1>2 DEF LocalTombstone, Stamped
<1>3. CASE localRec = None /\ previous = None
  BY <1>3 DEF LocalTombstone
<1> QED BY <1>1, <1>2, <1>3

(* In every reachable state the invariant says what has been merged.       *)
LEMMA ContentOutput ==
    ASSUME CasesInv, Content
    PROVE  /\ input \in ContentInput
           /\ output = ContentMerge(input)
<1>1. input \notin SettingsInput
  BY DEF Content, SettingsInput
<1> QED BY <1>1 DEF CasesInv, Content

(* What a content case produces is a clean entry.                          *)
LEMMA CleanOutput ==
    ASSUME CasesInv, Content
    PROVE  /\ output \in [rec : Stamped \cup {None}, tomb : Stamped \cup {None}, conflict : BOOLEAN]
           /\ Clean(output)
<1> DEFINE tomb == LocalTombstone(input.localRec, input.previous, input.previousTomb, Now)
<1>1. input \in ContentInput /\ output = ContentMerge(input)
  BY ContentOutput
<1>2. tomb \in Stamped \cup {None}
  BY <1>1, ContentTypes, FoundTombstone
<1>3. output = Merge(input.remote, input.localRec, tomb, input.previous, input.resolution)
  BY <1>1 DEF ContentMerge
<1>4. /\ input.remote \in [rec : Stamped \cup {None}, tomb : Stamped \cup {None}, conflict : BOOLEAN]
      /\ Clean(input.remote)
      /\ input.localRec \in Stamped \cup {None}
      /\ input.previous \in Stamped \cup {None}
  BY <1>1, ContentTypes
<1> HIDE DEF tomb
<1> QED BY <1>2, <1>3, <1>4, StampsAreRecords, MergeIsClean

(* MergedIsClean of every reachable state: merge_sync_documents leaves no  *)
(* record beside a deletion as late as it.                                 *)
THEOREM MergesStayClean == CaseSpec => []MergedIsClean
<1>1. CasesInv => MergedIsClean
  BY CleanOutput DEF MergedIsClean
<1> QED BY <1>1, CasesInvariant, PTL

(* A device that has the record merges that record alone.                  *)
LEMMA RecordOutput ==
    ASSUME CasesInv, Content, input.localRec # None
    PROVE  output = MergeRecord(input.remote, input.localRec, input.previous, input.resolution)
BY ContentOutput, OwnRecordOnly DEF ContentMerge

(* LocalEditKept of every reachable state: with no decision and no         *)
(* conflict, an edit of this device is in the merged document.             *)
THEOREM LocalEditsAreKept == CaseSpec => []LocalEditKept
<1>1. CasesInv => LocalEditKept
  <2> SUFFICES ASSUME CasesInv, Content, Unresolved, input.localRec # None
               PROVE  KeepsLocalEdit(input.remote, input.localRec, input.previous, output)
    BY DEF LocalEditKept, KeepsLocalEdit
  <2>1. output = MergeRecord(input.remote, input.localRec, input.previous, "")
    BY RecordOutput DEF Unresolved
  <2> QED BY <2>1, ContentOutput, ContentTypes, StampsAreRecords, LocalEditMerged
<1> QED BY <1>1, CasesInvariant, PTL

(* RemoteEditKept of every reachable state: a later version from elsewhere *)
(* replaces the one this device synced and left alone.                     *)
THEOREM RemoteEditsAreKept == CaseSpec => []RemoteEditKept
<1>1. CasesInv => RemoteEditKept
  <2> SUFFICES ASSUME CasesInv, Content, input.localRec # None
               PROVE  KeepsRemoteEdit(input.remote, input.localRec, input.previous, output)
    BY DEF RemoteEditKept, KeepsRemoteEdit
  <2> QED BY RecordOutput, ContentOutput, ContentTypes, StampsAreRecords, RemoteEditMerged
<1> QED BY <1>1, CasesInvariant, PTL

(* DeletionKept of every reachable state: no device that only still has a  *)
(* record undoes its deletion.                                             *)
THEOREM DeletionsAreKept == CaseSpec => []DeletionKept
<1>1. CasesInv => DeletionKept
  <2> SUFFICES ASSUME CasesInv, Content, input.localRec # None
               PROVE  KeepsDeletion(input.remote, input.localRec, input.previous, output)
    BY DEF DeletionKept, KeepsDeletion
  <2> QED BY RecordOutput, ContentOutput, ContentTypes, StampsAreRecords, DeletionMerged
<1> QED BY <1>1, CasesInvariant, PTL

(* CredentialKept of every reachable state: the credential that one side   *)
(* of a settings merge has is in the merged settings.                      *)
THEOREM CredentialsAreKept == CaseSpec => []CredentialKept
<1>1. CasesInv => CredentialKept
  <2> SUFFICES ASSUME CasesInv, stage # "given", input.kind = "settings"
               PROVE  KeepsKey(input.remote, input.localRec, output)
    BY DEF CredentialKept
  <2>1. input \in SettingsInput
    BY DEF CasesInv, ContentInput
  <2>2. output = MergeSettings(input.remote, input.localRec, input.previous, input.resolution)
    BY DEF CasesInv
  <2>3. /\ input.remote \in SettingsRecords \cup {None}
        /\ input.localRec \in SettingsRecords
        /\ input.previous \in SettingsRecords \cup {None}
    BY <2>1 DEF SettingsInput
  <2> QED BY <2>2, <2>3, KeyMerged
<1> QED BY <1>1, CasesInvariant, PTL

-----------------------------------------------------------------------------
(* A second sync.                                                          *)

(* A clean entry merged with the record and the deletion it holds itself   *)
(* stays as it is.                                                         *)
LEMMA MergeWithItself ==
    ASSUME NEW R, IsRecordSet(R),
           NEW entry \in [rec : R \cup {None}, tomb : R \cup {None}, conflict : BOOLEAN],
           NEW now, Clean(entry)
    PROVE  Merge(entry, entry.rec, LocalTombstone(entry.rec, entry.rec, entry.tomb, now),
                 entry.rec, "") = entry
<1>1. CASE entry.rec # None
  <2>1. entry.rec.at \in Int /\ (entry.tomb # None => entry.tomb.at \in Int)
    BY <1>1 DEF IsRecordSet
  <2>2. ~Covered(entry.tomb, entry.rec)
    BY <1>1, <2>1 DEF Covered, Clean
  <2>3. MergeRecord(entry, entry.rec, entry.rec, "") = MergeVersions(entry, entry.rec, entry.rec, "")
    BY <1>1, <2>2 DEF MergeRecord
  <2>4. MergeVersions(entry, entry.rec, entry.rec, "") = entry
    BY <2>1 DEF MergeVersions
  <2>5. LocalTombstone(entry.rec, entry.rec, entry.tomb, now) = None
    BY <1>1 DEF LocalTombstone
  <2>6. MergeTombstone(entry, None, "") = entry
    BY DEF MergeTombstone
  <2> QED BY <2>3, <2>4, <2>5, <2>6 DEF Merge
<1>2. CASE entry.rec = None
  <2>1. LocalTombstone(entry.rec, entry.rec, entry.tomb, now) = entry.tomb
    BY <1>2 DEF LocalTombstone
  <2>2. MergeTombstone(entry, entry.tomb, "") = entry
    <3>1. CASE entry.tomb = None
      BY <3>1 DEF MergeTombstone
    <3>2. CASE entry.tomb # None
      <4>1. MergeTombstone(entry, entry.tomb, "") = [entry EXCEPT !.rec = None, !.tomb = entry.tomb]
        BY <1>2, <3>2 DEF MergeTombstone, TombstoneWins
      <4> QED BY <1>2, <4>1
    <3> QED BY <3>1, <3>2
  <2>3. MergeRecord(entry, entry.rec, entry.rec, "") = entry
    BY <1>2 DEF MergeRecord
  <2> QED BY <2>1, <2>2, <2>3 DEF Merge
<1> QED BY <1>1, <1>2

ResyncInv ==
    stage = "resynced" =>
        /\ input.kind = "content"
        /\ again = Merge([output EXCEPT !.conflict = FALSE], output.rec,
                         LocalTombstone(output.rec, output.rec, output.tomb, Now + 1),
                         output.rec, "")

LEMMA ResyncInvariant == CaseSpec => []ResyncInv
<1>1. CaseInit => ResyncInv
  BY DEF CaseInit, ResyncInv
<1>2. ResyncInv /\ [CaseNext]_caseVars => ResyncInv'
  BY DEF ResyncInv, CaseNext, MergeCase, ResyncCase, caseVars
<1> QED BY <1>1, <1>2, PTL DEF CaseSpec

(* ResyncIsQuiet of every reachable state: a device that syncs again, with *)
(* nothing changed in between, changes nothing and reports no conflict.    *)
THEOREM ResyncsAreQuiet == CaseSpec => []ResyncIsQuiet
<1>1. CasesInv /\ ResyncInv => ResyncIsQuiet
  <2> SUFFICES ASSUME CasesInv, ResyncInv, stage = "resynced"
               PROVE  again = [output EXCEPT !.conflict = FALSE]
    BY DEF ResyncIsQuiet
  <2> DEFINE entry == [output EXCEPT !.conflict = FALSE]
  <2>1. Content
    BY DEF Content, ResyncInv
  <2>2. /\ entry \in [rec : Stamped \cup {None}, tomb : Stamped \cup {None}, conflict : BOOLEAN]
        /\ entry.rec = output.rec /\ entry.tomb = output.tomb
        /\ Clean(entry)
    BY <2>1, CleanOutput DEF Clean
  <2>3. again = Merge(entry, entry.rec, LocalTombstone(entry.rec, entry.rec, entry.tomb, Now + 1),
                      entry.rec, "")
    BY <2>2 DEF ResyncInv
  <2> HIDE DEF entry
  <2>4. again = entry
    BY <2>2, <2>3, StampsAreRecords, MergeWithItself
  <2> QED BY <2>4 DEF entry
<1> QED BY <1>1, CasesInvariant, ResyncInvariant, PTL

-----------------------------------------------------------------------------
(* The protocol: types, and documents that delete nothing they list.       *)

CleanDocument(doc) == \A i \in Ids : Clean(Entry(doc.recs[i], doc.tombs[i]))

(* A sync that has read the clock has read an edit's time or a later one.  *)
TimesAreSet ==
    /\ clock >= 1
    /\ \A d \in Devices : pc[d] \notin {"idle", "inputs"} => sync[d].now >= 1

(* No document, neither the server's nor one a sync holds, lists a record  *)
(* beside a deletion of it that is as late.                                *)
DocumentsAreClean ==
    /\ CleanDocument(server.doc)
    /\ \A d \in Devices : /\ CleanDocument(sync[d].local)
                          /\ CleanDocument(sync[d].remote)
                          /\ CleanDocument(sync[d].doc)

SyncInv == TypeOK /\ TimesAreSet /\ DocumentsAreClean

StampSet == [hash : Stamps, at : Stamps]

LEMMA StampSetIsRecordSet == clock \in Nat => IsRecordSet(StampSet)
<1> SUFFICES ASSUME clock \in Nat PROVE IsRecordSet(StampSet)
  OBVIOUS
<1>1. Stamps \subseteq Nat
  BY DEF Stamps
<1>2. StampSet \subseteq [hash : Nat, at : Nat]
  BY <1>1 DEF StampSet
<1>3. None \notin StampSet
  BY <1>2, WebDavSyncAssumption
<1>4. \A r \in StampSet : r.at \in Nat
  BY <1>1 DEF StampSet
<1> QED BY <1>3, <1>4 DEF IsRecordSet

(* Time only adds stamps. *)
LEMMA StampsGrow ==
    ASSUME clock \in Nat, clock' \in Nat, clock <= clock'
    PROVE  /\ Stamps \subseteq Stamps'
           /\ StampedRecords \subseteq StampedRecords'
           /\ Documents \subseteq Documents'
           /\ Baselines \subseteq Baselines'
           /\ SyncRecords \subseteq SyncRecords'
<1>1. Stamps \subseteq Stamps'
  BY DEF Stamps
<1>2. [hash : Stamps, at : Stamps] \cup {None} \subseteq ([hash : Stamps, at : Stamps] \cup {None})'
  BY <1>1
<1>3. StampedRecords \subseteq StampedRecords'
  BY <1>2 DEF StampedRecords
<1>4. Documents \subseteq Documents' /\ Baselines \subseteq Baselines'
  BY <1>3 DEF Documents, Baselines
<1>5. 0..clock \subseteq 0..clock'
  OBVIOUS
<1>6. SyncRecords \subseteq SyncRecords'
  BY <1>4, <1>5 DEF SyncRecords
<1> QED BY <1>1, <1>3, <1>4, <1>6

LEMMA StampsStay ==
    ASSUME clock' = clock
    PROVE  /\ Stamps' = Stamps
           /\ StampedRecords' = StampedRecords
           /\ Documents' = Documents
           /\ Baselines' = Baselines
           /\ SyncRecords' = SyncRecords
BY DEF Stamps, StampedRecords, Documents, Baselines, SyncRecords

(* What create_local_sync_inputs makes of a vault and a baseline.          *)
LEMMA LocalInputsTyped ==
    ASSUME TypeOK, NEW d \in Devices, NEW now \in Stamps
    PROVE  /\ LocalInputs(d, now) \in Documents
           /\ CleanDocument(LocalInputs(d, now))
<1> DEFINE inputs == LocalInputs(d, now)
<1>1. /\ vault[d] \in StampedRecords
      /\ baseline[d].recs \in StampedRecords
      /\ baseline[d].tombs \in StampedRecords
  BY DEF TypeOK, Baselines
<1>2. ASSUME NEW i \in Ids
      PROVE  /\ LocalRecord(d, i, now) \in StampSet \cup {None}
             /\ LocalTombstone(vault[d][i], baseline[d].recs[i], baseline[d].tombs[i], now)
                  \in StampSet \cup {None}
             /\ vault[d][i] # None =>
                  LocalTombstone(vault[d][i], baseline[d].recs[i], baseline[d].tombs[i], now) = None
             /\ vault[d][i] = None => LocalRecord(d, i, now) = None
  <2>1. /\ vault[d][i] \in StampSet \cup {None}
        /\ baseline[d].recs[i] \in StampSet \cup {None}
        /\ baseline[d].tombs[i] \in StampSet \cup {None}
    BY <1>1 DEF StampedRecords, StampSet
  <2>2. LocalRecord(d, i, now) \in StampSet \cup {None}
    BY <2>1 DEF LocalRecord, DerivedAt, StampSet
  <2>3. LocalTombstone(vault[d][i], baseline[d].recs[i], baseline[d].tombs[i], now)
          \in StampSet \cup {None}
    BY <2>1 DEF LocalTombstone, StampSet
  <2>4. /\ vault[d][i] # None =>
              LocalTombstone(vault[d][i], baseline[d].recs[i], baseline[d].tombs[i], now) = None
        /\ vault[d][i] = None => LocalRecord(d, i, now) = None
    BY DEF LocalRecord, LocalTombstone
  <2> QED BY <2>2, <2>3, <2>4
<1>3. inputs.recs \in StampedRecords /\ inputs.tombs \in StampedRecords
  BY <1>2 DEF LocalInputs, StampedRecords, StampSet
<1>4. inputs = [recs |-> inputs.recs, tombs |-> inputs.tombs]
  BY DEF LocalInputs
<1>5. inputs \in Documents
  BY <1>3, <1>4 DEF Documents
<1>6. CleanDocument(inputs)
  <2> SUFFICES ASSUME NEW i \in Ids PROVE Clean(Entry(inputs.recs[i], inputs.tombs[i]))
    BY DEF CleanDocument
  <2>1. inputs.recs[i] = None \/ inputs.tombs[i] = None
    BY <1>2 DEF LocalInputs
  <2> QED BY <2>1 DEF Clean, Entry
<1> QED BY <1>5, <1>6

(* What the merge makes of two documents and a baseline.                   *)
LEMMA MergedDocumentTyped ==
    ASSUME TypeOK, DocumentsAreClean, NEW d \in Devices, sync[d].now \in Stamps
    PROVE  /\ MergedDocument(d, sync[d]) \in Documents
           /\ CleanDocument(MergedDocument(d, sync[d]))
<1> DEFINE s == sync[d]
           merged == MergedDocument(d, s)
<1>0. IsRecordSet(StampSet)
  BY StampSetIsRecordSet DEF TypeOK
<1>1. /\ s.remote \in Documents /\ s.local \in Documents
      /\ baseline[d].recs \in StampedRecords
      /\ CleanDocument(s.remote)
      /\ s.now \in Stamps
  BY DEF TypeOK, Baselines, SyncRecords, DocumentsAreClean
<1> HIDE DEF s
<1>2. ASSUME NEW i \in Ids
      PROVE  /\ MergedEntry(d, s, i) \in [rec : StampSet \cup {None}, tomb : StampSet \cup {None},
                                          conflict : BOOLEAN]
             /\ Clean(MergedEntry(d, s, i))
  <2>1. /\ s.remote.recs[i] \in StampSet \cup {None}
        /\ s.remote.tombs[i] \in StampSet \cup {None}
        /\ s.local.recs[i] \in StampSet \cup {None}
        /\ s.local.tombs[i] \in StampSet \cup {None}
        /\ baseline[d].recs[i] \in StampSet \cup {None}
    BY <1>1 DEF Documents, StampedRecords, StampSet
  <2>2. EffectiveTombstone(s, i) \in StampSet \cup {None}
    BY <1>1, <2>1 DEF EffectiveTombstone, StampSet
  <2>3. /\ Entry(s.remote.recs[i], s.remote.tombs[i])
              \in [rec : StampSet \cup {None}, tomb : StampSet \cup {None}, conflict : BOOLEAN]
        /\ Clean(Entry(s.remote.recs[i], s.remote.tombs[i]))
    BY <1>1, <2>1 DEF Entry, CleanDocument
  <2> QED BY <1>0, <2>1, <2>2, <2>3, MergeIsClean DEF MergedEntry
<1>3. merged.recs \in StampedRecords /\ merged.tombs \in StampedRecords
  BY <1>2 DEF MergedDocument, StampedRecords, StampSet
<1>4. merged = [recs |-> merged.recs, tombs |-> merged.tombs]
  BY DEF MergedDocument
<1>5. merged \in Documents
  BY <1>3, <1>4 DEF Documents
<1>6. CleanDocument(merged)
  <2> SUFFICES ASSUME NEW i \in Ids PROVE Clean(Entry(merged.recs[i], merged.tombs[i]))
    BY DEF CleanDocument
  <2>1. merged.recs[i] = MergedEntry(d, s, i).rec /\ merged.tombs[i] = MergedEntry(d, s, i).tomb
    BY DEF MergedDocument
  <2> QED BY <1>2, <2>1 DEF Clean, Entry
<1> QED BY <1>5, <1>6 DEF s

LEMMA BoundsAreNatural ==
    /\ LossLimit \in Nat /\ HalvingLimit \in Nat
    /\ MaxPreconditionRetries \in Nat /\ MaxLocalRefreshes \in Nat
    /\ MaxClock \in Nat /\ MaxClock >= 1 /\ MaxSyncs \in Nat /\ MaxAborts \in Nat
BY WebDavSyncAssumption

LEMMA EmptyTyped ==
    ASSUME clock \in Nat
    PROVE  /\ NoRecords \in StampedRecords
           /\ EmptyDocument \in Documents /\ CleanDocument(EmptyDocument)
           /\ NoBaseline \in Baselines
           /\ NoSync \in SyncRecords
<1>1. NoRecords \in StampedRecords
  BY DEF NoRecords, StampedRecords
<1>2. EmptyDocument \in Documents /\ NoBaseline \in Baselines
  BY <1>1 DEF EmptyDocument, Documents, NoBaseline, Baselines
<1>3. CleanDocument(EmptyDocument)
  BY DEF CleanDocument, EmptyDocument, NoRecords, Clean, Entry
<1>4. NoSync \in SyncRecords
  <2>1. NoDecision \in Decisions \cup {NoDecision}
    OBVIOUS
  <2> HIDE DEF NoDecision
  <2> QED BY <1>2, <2>1, BoundsAreNatural DEF NoSync, SyncRecords
<1> QED BY <1>1, <1>2, <1>3, <1>4

LEMMA SharedTyped ==
    ASSUME clock = 1
    PROVE  /\ SharedRecords \in StampedRecords
           /\ SharedDocument \in Documents /\ CleanDocument(SharedDocument)
           /\ [recs |-> SharedRecords, tombs |-> NoRecords, etag |-> Etag(1)] \in Baselines
<1>1. SharedRecords \in StampedRecords
  BY DEF SharedRecords, StampedRecords, Stamps
<1>2. NoRecords \in StampedRecords
  BY EmptyTyped
<1>3. Etag(1) \in Nat
  BY DEF Etag
<1>4. SharedDocument \in Documents
  BY <1>1, <1>2 DEF SharedDocument, Documents
<1>5. CleanDocument(SharedDocument)
  BY DEF CleanDocument, SharedDocument, NoRecords, Clean, Entry
<1> QED BY <1>1, <1>2, <1>3, <1>4, <1>5 DEF Baselines

LEMMA InitSync == Init => SyncInv
<1> SUFFICES ASSUME Init PROVE SyncInv
  OBVIOUS
<1> USE BoundsAreNatural
<1>1. clock = 1 /\ syncs = 0 /\ aborts = 0
  BY DEF Init
<1>2. /\ sync = [d \in Devices |-> NoSync] /\ pc = [d \in Devices |-> "idle"]
      /\ outcome = [d \in Devices |-> "none"]
  BY DEF Init
<1>3. /\ NoSync \in SyncRecords /\ NoRecords \in StampedRecords
      /\ EmptyDocument \in Documents /\ CleanDocument(EmptyDocument)
      /\ NoBaseline \in Baselines
  BY <1>1, EmptyTyped
<1>4. /\ vault \in [Devices -> StampedRecords]
      /\ baseline \in [Devices -> Baselines]
      /\ server \in [doc : Documents, writes : Nat]
      /\ used \subseteq Ids
      /\ CleanDocument(server.doc)
  <2>1. /\ SharedRecords \in StampedRecords
        /\ SharedDocument \in Documents /\ CleanDocument(SharedDocument)
        /\ [recs |-> SharedRecords, tombs |-> NoRecords, etag |-> Etag(1)] \in Baselines
    BY <1>1, SharedTyped
  <2>2. Shared \subseteq Ids
    BY WebDavSyncAssumption
  <2>3. CASE vault = [d \in Devices |-> NoRecords]
             /\ baseline = [d \in Devices |-> NoBaseline]
             /\ server = [doc |-> EmptyDocument, writes |-> 0] /\ used = {}
    BY <1>3, <2>3
  <2>4. CASE /\ vault = [d \in Devices |-> SharedRecords]
             /\ baseline = [d \in Devices |->
                   [recs |-> SharedRecords, tombs |-> NoRecords, etag |-> Etag(1)]]
             /\ server = [doc |-> SharedDocument, writes |-> 1]
             /\ used = Shared
    BY <2>1, <2>2, <2>4
  <2> QED BY <2>3, <2>4 DEF Init
<1>5. sync \in [Devices -> SyncRecords]
  BY <1>2, <1>3
<1>6. TypeOK
  BY <1>1, <1>2, <1>4, <1>5 DEF TypeOK
<1>7. TimesAreSet
  BY <1>1, <1>2 DEF TimesAreSet
<1>8. \A d \in Devices : /\ CleanDocument(sync[d].local)
                         /\ CleanDocument(sync[d].remote)
                         /\ CleanDocument(sync[d].doc)
  BY <1>2, <1>3 DEF NoSync
<1>9. DocumentsAreClean
  BY <1>4, <1>8 DEF DocumentsAreClean
<1> QED BY <1>6, <1>7, <1>9 DEF SyncInv

(* The user's actions. *)
LEMMA WriteSync ==
    ASSUME SyncInv, NEW d \in Devices, NEW i \in Ids, Write(d, i), used' \subseteq Ids
    PROVE  SyncInv'
<1> USE DEF SyncInv
<1>1. clock \in Nat /\ clock + 1 <= MaxClock /\ clock' = clock + 1
  BY BoundsAreNatural DEF TypeOK, Write
<1>2. /\ Stamps \subseteq Stamps' /\ StampedRecords \subseteq StampedRecords'
      /\ Documents \subseteq Documents' /\ Baselines \subseteq Baselines'
      /\ SyncRecords \subseteq SyncRecords'
  BY <1>1, StampsGrow
<1>3. UNCHANGED <<baseline, server, pc, sync, outcome, syncs, aborts>>
  BY DEF Write
<1>4. vault' \in [Devices -> StampedRecords']
  <2>1. [hash |-> clock + 1, at |-> clock + 1] \in [hash : Stamps', at : Stamps']
    BY <1>1 DEF Stamps
  <2>2. vault \in [Devices -> StampedRecords']
    BY <1>2 DEF TypeOK
  <2>3. [vault[d] EXCEPT ![i] = [hash |-> clock + 1, at |-> clock + 1]] \in StampedRecords'
    BY <2>1, <2>2 DEF StampedRecords
  <2>4. vault' = [vault EXCEPT ![d] = [vault[d] EXCEPT ![i] = [hash |-> clock + 1, at |-> clock + 1]]]
    BY DEF Write
  <2> QED BY <2>2, <2>3, <2>4
<1>5. clock' \in 0..MaxClock
  BY <1>1, BoundsAreNatural
<1>6. /\ baseline' \in [Devices -> Baselines']
      /\ server' \in [doc : Documents', writes : Nat]
      /\ sync' \in [Devices -> SyncRecords']
  BY <1>2, <1>3 DEF TypeOK
<1>7. /\ pc' = pc /\ outcome' = outcome /\ syncs' = syncs /\ aborts' = aborts
  BY <1>3
<1>8. TypeOK'
  BY <1>4, <1>5, <1>6, <1>7 DEF TypeOK
<1>9. TimesAreSet'
  BY <1>1, <1>3 DEF TimesAreSet
<1>10. DocumentsAreClean'
  BY <1>3 DEF DocumentsAreClean, CleanDocument, Clean, Entry
<1> QED BY <1>8, <1>9, <1>10

LEMMA DeleteSync ==
    ASSUME SyncInv, NEW d \in Devices, NEW i \in Ids, Delete(d, i)
    PROVE  SyncInv'
<1> USE DEF SyncInv
<1>1. clock' = clock
  BY DEF Delete
<1>2. /\ StampedRecords' = StampedRecords /\ Documents' = Documents
      /\ Baselines' = Baselines /\ SyncRecords' = SyncRecords
  BY <1>1, StampsStay
<1>3. UNCHANGED <<baseline, server, clock, used, pc, sync, outcome, syncs, aborts>>
  BY DEF Delete
<1>4. vault' \in [Devices -> StampedRecords]
  <2>1. [vault[d] EXCEPT ![i] = None] \in StampedRecords
    BY DEF TypeOK, StampedRecords
  <2>2. vault' = [vault EXCEPT ![d] = [vault[d] EXCEPT ![i] = None]]
    BY DEF Delete
  <2> QED BY <2>1, <2>2 DEF TypeOK
<1>5. TypeOK'
  BY <1>2, <1>3, <1>4 DEF TypeOK
<1>6. TimesAreSet'
  BY <1>3 DEF TimesAreSet
<1>7. DocumentsAreClean'
  BY <1>3 DEF DocumentsAreClean, CleanDocument, Clean, Entry
<1> QED BY <1>5, <1>6, <1>7

(* A step of d's sync that leaves behind the record r, at p.               *)
SyncStepTo(d, r, p, o) ==
    /\ clock' = clock /\ used' = used
    /\ syncs' \in 0..MaxSyncs /\ aborts' \in 0..MaxAborts
    /\ r \in SyncRecords
    /\ p \in {"idle", "inputs", "fetch", "decide", "put", "verify", "recheck", "apply", "commit"}
    /\ o \in {"none", "running", "ok", "pending", "error"}
    /\ sync' = [sync EXCEPT ![d] = r]
    /\ pc' = [pc EXCEPT ![d] = p]
    /\ outcome' = [outcome EXCEPT ![d] = o]
    /\ vault' \in [Devices -> StampedRecords]
    /\ baseline' \in [Devices -> Baselines]
    /\ server' \in [doc : Documents, writes : Nat]
    /\ CleanDocument(server'.doc)
    /\ p \notin {"idle", "inputs"} => r.now >= 1
    /\ CleanDocument(r.local) /\ CleanDocument(r.remote) /\ CleanDocument(r.doc)

LEMMA SyncStep ==
    ASSUME SyncInv, NEW d \in Devices, NEW r, NEW p, NEW o, SyncStepTo(d, r, p, o)
    PROVE  SyncInv'
<1> USE DEF SyncStepTo
<1> USE DEF SyncInv
<1>1. /\ StampedRecords' = StampedRecords /\ Documents' = Documents
      /\ Baselines' = Baselines /\ SyncRecords' = SyncRecords
  BY StampsStay
<1>2. /\ sync' \in [Devices -> SyncRecords]
      /\ pc' \in [Devices -> {"idle", "inputs", "fetch", "decide", "put", "verify",
                              "recheck", "apply", "commit"}]
      /\ outcome' \in [Devices -> {"none", "running", "ok", "pending", "error"}]
  BY DEF TypeOK
<1>3. TypeOK'
  BY <1>1, <1>2 DEF TypeOK
<1>4. TimesAreSet'
  BY DEF TimesAreSet, TypeOK
<1>5. \A e \in Devices : CleanDocument(sync'[e].local) /\ CleanDocument(sync'[e].remote)
                           /\ CleanDocument(sync'[e].doc)
  <2> TAKE e \in Devices
  <2>1. CASE e = d
    <3>1. sync'[e] = r
      BY <2>1 DEF TypeOK
    <3> QED BY <3>1
  <2>2. CASE e # d
    <3>1. sync'[e] = sync[e]
      BY <2>2 DEF TypeOK
    <3> QED BY <3>1 DEF DocumentsAreClean
  <2> QED BY <2>1, <2>2
<1>6. \A doc : CleanDocument(doc) <=> CleanDocument(doc)'
  BY DEF CleanDocument
<1>7. DocumentsAreClean'
  BY <1>5 DEF DocumentsAreClean, CleanDocument
<1> QED BY <1>3, <1>4, <1>7

(* The sync of d as it stands. *)
LEMMA SyncState ==
    ASSUME SyncInv, NEW d \in Devices
    PROVE  /\ sync[d] \in SyncRecords
           /\ CleanDocument(sync[d].local) /\ CleanDocument(sync[d].remote)
           /\ CleanDocument(sync[d].doc)
           /\ pc[d] \notin {"idle", "inputs"} => sync[d].now >= 1
           /\ vault \in [Devices -> StampedRecords] /\ baseline \in [Devices -> Baselines]
           /\ server \in [doc : Documents, writes : Nat] /\ CleanDocument(server.doc)
           /\ clock \in Nat /\ clock >= 1
           /\ syncs \in 0..MaxSyncs /\ aborts \in 0..MaxAborts
           /\ outcome = [outcome EXCEPT ![d] = outcome[d]]
           /\ outcome[d] \in {"none", "running", "ok", "pending", "error"}
<1>1. outcome \in [Devices -> {"none", "running", "ok", "pending", "error"}]
  BY DEF SyncInv, TypeOK
<1>2. outcome = [outcome EXCEPT ![d] = outcome[d]]
  BY <1>1
<1> QED BY <1>1, <1>2, BoundsAreNatural DEF SyncInv, TypeOK, TimesAreSet, DocumentsAreClean

LEMMA BeginSync ==
    ASSUME SyncInv, NEW d \in Devices, Begin(d)
    PROVE  SyncInv'
<1>1. PICK decision \in Decisions : sync' = [sync EXCEPT ![d] = [NoSync EXCEPT !.decision = decision]]
  BY DEF Begin
<1> DEFINE r == [NoSync EXCEPT !.decision = decision]
<1>2. /\ NoSync \in SyncRecords /\ EmptyDocument \in Documents /\ CleanDocument(EmptyDocument)
  BY EmptyTyped, SyncState
<1>3. r \in SyncRecords
  <2> HIDE DEF NoSync
  <2> QED BY <1>2 DEF SyncRecords
<1>4. CleanDocument(r.local) /\ CleanDocument(r.remote) /\ CleanDocument(r.doc)
  BY <1>2 DEF NoSync
<1>5. syncs' \in 0..MaxSyncs
  <2>1. syncs \in 0..MaxSyncs /\ syncs < MaxSyncs /\ syncs' = syncs + 1
    BY SyncState DEF Begin
  <2> QED BY <2>1, BoundsAreNatural
<1> HIDE DEF r
<1>6. /\ pc' = [pc EXCEPT ![d] = "inputs"] /\ outcome' = [outcome EXCEPT ![d] = "running"]
      /\ sync' = [sync EXCEPT ![d] = r]
      /\ UNCHANGED <<vault, baseline, server, clock, used, aborts>>
  BY <1>1 DEF Begin, fileVars, r
<1>10. SyncStepTo(d, r, "inputs", "running")
  BY <1>3, <1>4, <1>5, <1>6, SyncState DEF SyncStepTo
<1> QED BY <1>10, SyncStep

LEMMA ReturnSync ==
    ASSUME SyncInv, NEW d \in Devices, NEW result, result \in {"ok", "pending", "error"},
           Return(d, result),
           UNCHANGED <<vault, server, clock, used, syncs>>,
           baseline' \in [Devices -> Baselines], aborts' \in 0..MaxAborts
    PROVE  SyncInv'
<1>1. /\ NoSync \in SyncRecords /\ CleanDocument(EmptyDocument)
  BY EmptyTyped, SyncState
<1>2. CleanDocument(NoSync.local) /\ CleanDocument(NoSync.remote) /\ CleanDocument(NoSync.doc)
  BY <1>1 DEF NoSync
<1>10. SyncStepTo(d, NoSync, "idle", result)
  BY <1>1, <1>2, SyncState DEF SyncStepTo, Return
<1> QED BY <1>10, SyncStep

LEMMA ReadSync ==
    ASSUME SyncInv, NEW d \in Devices, Inputs(d) \/ Fetch(d)
    PROVE  SyncInv'
<1>0. /\ sync[d] \in SyncRecords
      /\ server.doc \in Documents /\ CleanDocument(server.doc) /\ server.writes \in Nat
      /\ clock \in Nat /\ clock >= 1
  BY SyncState
<1>1. CASE Inputs(d)
  <2> DEFINE local == LocalInputs(d, clock)
             r == [sync[d] EXCEPT !.now = clock, !.local = local]
  <2>1. LocalInputs(d, clock) \in Documents /\ CleanDocument(LocalInputs(d, clock))
    BY <1>0, LocalInputsTyped DEF SyncInv, Stamps
  <2> HIDE DEF local
  <2>2. r \in SyncRecords
    <3>1. clock \in 0..clock /\ local \in Documents
      BY <1>0, <2>1 DEF local
    <3> QED BY <1>0, <3>1 DEF SyncRecords
  <2>3. /\ r.now = clock /\ r.local = local
        /\ r.remote = sync[d].remote /\ r.doc = sync[d].doc
    BY <1>0 DEF SyncRecords
  <2>4. sync' = [sync EXCEPT ![d] = r]
    BY <1>1 DEF Inputs, local
  <2> HIDE DEF r
  <2>5. PICK p \in {"decide", "fetch"} : pc' = [pc EXCEPT ![d] = p]
    BY <1>1 DEF Inputs
  <2>6. UNCHANGED <<vault, baseline, server, clock, used, outcome, syncs, aborts>>
    BY <1>1 DEF Inputs, fileVars
  <2>10. SyncStepTo(d, r, p, outcome[d])
    BY <1>0, <2>1, <2>2, <2>3, <2>4, <2>5, <2>6, SyncState DEF SyncStepTo, local
  <2> QED BY <2>10, SyncStep
<1>2. CASE Fetch(d)
  <2> DEFINE exists == server.writes > 0
             r == [sync[d] EXCEPT !.remote = server.doc, !.etag = Etag(server.writes),
                                  !.exists = exists]
  <2>1. Etag(server.writes) \in Nat /\ exists \in BOOLEAN
    BY <1>0 DEF Etag
  <2> HIDE DEF exists
  <2>2. r \in SyncRecords
    BY <1>0, <2>1 DEF SyncRecords
  <2>3. /\ r.now = sync[d].now /\ r.local = sync[d].local
        /\ r.remote = server.doc /\ r.doc = sync[d].doc
    BY <1>0 DEF SyncRecords
  <2>4. sync' = [sync EXCEPT ![d] = r]
    BY <1>2 DEF Fetch, exists
  <2> HIDE DEF r
  <2>5. /\ pc' = [pc EXCEPT ![d] = "decide"] /\ pc[d] = "fetch"
        /\ UNCHANGED <<vault, baseline, server, clock, used, outcome, syncs, aborts>>
    BY <1>2 DEF Fetch, fileVars
  <2>10. SyncStepTo(d, r, "decide", outcome[d])
    BY <1>0, <2>2, <2>3, <2>4, <2>5, SyncState DEF SyncStepTo
  <2> QED BY <2>10, SyncStep
<1> QED BY <1>1, <1>2

LEMMA DecideSync ==
    ASSUME SyncInv, NEW d \in Devices, TakeInitial(d) \/ MergeDocuments(d)
    PROVE  SyncInv'
<1>0. /\ sync[d] \in SyncRecords /\ clock \in Nat
      /\ CleanDocument(sync[d].local) /\ CleanDocument(sync[d].remote)
  BY SyncState
<1>1. pc[d] = "decide"
  BY DEF TakeInitial, MergeDocuments, Merging
<1>2. sync[d].now \in Stamps
  BY <1>0, <1>1, SyncState DEF Stamps, SyncRecords
<1>3. MergedDocument(d, sync[d]) \in Documents /\ CleanDocument(MergedDocument(d, sync[d]))
  BY <1>2, MergedDocumentTyped DEF SyncInv
<1>4. UNCHANGED <<vault, baseline, server, clock, used, outcome, syncs, aborts>>
  BY DEF TakeInitial, MergeDocuments, fileVars
<1>5. \E doc \in Documents, initial \in BOOLEAN, p \in {"put", "apply"} :
         /\ CleanDocument(doc)
         /\ sync' = [sync EXCEPT ![d] = [sync[d] EXCEPT !.initial = initial, !.doc = doc]]
         /\ pc' = [pc EXCEPT ![d] = p]
  <2>1. CASE TakeInitial(d)
    <3>1. sync[d].local \in Documents /\ sync[d].remote \in Documents
      BY <1>0 DEF SyncRecords
    <3> QED BY <1>0, <2>1, <3>1 DEF TakeInitial
  <2>2. CASE MergeDocuments(d)
    <3>1. sync' = [sync EXCEPT ![d] = [sync[d] EXCEPT !.initial = sync[d].initial,
                                                      !.doc = MergedDocument(d, sync[d])]]
      <4>1. [sync[d] EXCEPT !.initial = sync[d].initial, !.doc = MergedDocument(d, sync[d])]
              = [sync[d] EXCEPT !.doc = MergedDocument(d, sync[d])]
        BY <1>0 DEF SyncRecords
      <4> QED BY <2>2, <4>1 DEF MergeDocuments
    <3>2. sync[d].initial \in BOOLEAN
      BY <1>0 DEF SyncRecords
    <3>3. pc' = [pc EXCEPT ![d] = "put"]
      BY <2>2 DEF MergeDocuments
    <3> QED BY <1>3, <3>1, <3>2, <3>3
  <2> QED BY <2>1, <2>2
<1>6. PICK doc \in Documents, initial \in BOOLEAN, p \in {"put", "apply"} :
         /\ CleanDocument(doc)
         /\ sync' = [sync EXCEPT ![d] = [sync[d] EXCEPT !.initial = initial, !.doc = doc]]
         /\ pc' = [pc EXCEPT ![d] = p]
  BY <1>5
<1> DEFINE r == [sync[d] EXCEPT !.initial = initial, !.doc = doc]
<1>7. r \in SyncRecords
  BY <1>0 DEF SyncRecords
<1>8. /\ r.now = sync[d].now /\ r.local = sync[d].local
      /\ r.remote = sync[d].remote /\ r.doc = doc
  BY <1>0 DEF SyncRecords
<1>9. sync' = [sync EXCEPT ![d] = r]
  BY <1>6
<1> HIDE DEF r
<1>10. SyncStepTo(d, r, p, outcome[d])
  BY <1>0, <1>1, <1>4, <1>6, <1>7, <1>8, <1>9, SyncState DEF SyncStepTo
<1> QED BY <1>10, SyncStep

LEMMA PutSync ==
    ASSUME SyncInv, NEW d \in Devices, Put(d)
    PROVE  SyncInv'
<1>0. /\ sync[d] \in SyncRecords /\ server.writes \in Nat
      /\ CleanDocument(sync[d].doc)
  BY SyncState
<1> DEFINE r == [sync[d] EXCEPT !.etag = server.writes + 1]
<1>1. r \in SyncRecords
  BY <1>0 DEF SyncRecords
<1>2. /\ r.now = sync[d].now /\ r.local = sync[d].local
      /\ r.remote = sync[d].remote /\ r.doc = sync[d].doc
  BY <1>0 DEF SyncRecords
<1>3. sync' = [sync EXCEPT ![d] = r]
  BY DEF Put
<1> HIDE DEF r
<1>4. /\ pc[d] = "put" /\ pc' = [pc EXCEPT ![d] = "verify"]
      /\ server' = [doc |-> sync[d].doc, writes |-> server.writes + 1]
      /\ UNCHANGED <<vault, baseline, clock, used, outcome, syncs, aborts>>
  BY DEF Put
<1>5. server' \in [doc : Documents, writes : Nat] /\ server'.doc = sync[d].doc
  BY <1>0, <1>4 DEF SyncRecords
<1>10. SyncStepTo(d, r, "verify", outcome[d])
  BY <1>0, <1>1, <1>2, <1>3, <1>4, <1>5, SyncState DEF SyncStepTo
<1> QED BY <1>10, SyncStep

LEMMA RefusedSync ==
    ASSUME SyncInv, NEW d \in Devices, PutRefused(d)
    PROVE  SyncInv'
<1>0. sync[d] \in SyncRecords
  BY SyncState
<1>1. /\ pc[d] = "put" /\ UNCHANGED <<vault, baseline, server, clock, used, syncs, aborts>>
  BY DEF PutRefused, fileVars
<1>2. CASE Return(d, "error")
  BY <1>1, <1>2, ReturnSync, SyncState
<1>3. CASE ~Return(d, "error")
  <2> DEFINE n == sync[d].retries + 1
             r == [sync[d] EXCEPT !.retries = n, !.initial = FALSE, !.override = FALSE, !.etag = 0]
  <2>1. sync[d].retries < MaxPreconditionRetries /\ outcome' = outcome
    BY <1>3 DEF PutRefused
  <2>2. n \in 0..MaxPreconditionRetries
    BY <1>0, <2>1, BoundsAreNatural DEF SyncRecords
  <2>3. sync' = [sync EXCEPT ![d] = r] /\ pc' = [pc EXCEPT ![d] = "inputs"]
    BY <1>3 DEF PutRefused
  <2> HIDE DEF n
  <2>4. r \in SyncRecords
    BY <1>0, <2>2 DEF SyncRecords
  <2>5. /\ r.now = sync[d].now /\ r.local = sync[d].local
        /\ r.remote = sync[d].remote /\ r.doc = sync[d].doc
    BY <1>0 DEF SyncRecords
  <2> HIDE DEF r
  <2>10. SyncStepTo(d, r, "inputs", outcome[d])
    BY <1>1, <2>1, <2>3, <2>4, <2>5, SyncState DEF SyncStepTo
  <2> QED BY <2>10, SyncStep
<1> QED BY <1>2, <1>3

LEMMA VerifySync ==
    ASSUME SyncInv, NEW d \in Devices, Verify(d)
    PROVE  SyncInv'
<1>0. sync[d] \in SyncRecords /\ server.writes \in Nat
  BY SyncState
<1>1. /\ pc[d] = "verify" /\ UNCHANGED <<vault, baseline, server, clock, used, syncs, aborts>>
  BY DEF Verify, fileVars
<1>2. CASE Return(d, "error")
  BY <1>1, <1>2, ReturnSync, SyncState
<1>3. CASE ~Return(d, "error")
  <2> DEFINE r == [sync[d] EXCEPT !.etag = Etag(server.writes)]
  <2>1. PICK p \in {"apply", "recheck"} : pc' = [pc EXCEPT ![d] = p]
    BY <1>3 DEF Verify
  <2>2. sync' = [sync EXCEPT ![d] = r] /\ outcome' = outcome
    BY <1>3 DEF Verify
  <2>3. Etag(server.writes) \in Nat
    BY <1>0 DEF Etag
  <2>4. r \in SyncRecords
    BY <1>0, <2>3 DEF SyncRecords
  <2>5. /\ r.now = sync[d].now /\ r.local = sync[d].local
        /\ r.remote = sync[d].remote /\ r.doc = sync[d].doc
    BY <1>0 DEF SyncRecords
  <2> HIDE DEF r
  <2>10. SyncStepTo(d, r, p, outcome[d])
    BY <1>1, <2>1, <2>2, <2>4, <2>5, SyncState DEF SyncStepTo
  <2> QED BY <2>10, SyncStep
<1> QED BY <1>2, <1>3

LEMMA RecheckSync ==
    ASSUME SyncInv, NEW d \in Devices, Recheck(d)
    PROVE  SyncInv'
<1>0. sync[d] \in SyncRecords
  BY SyncState
<1>1. /\ pc[d] = "recheck" /\ UNCHANGED <<vault, baseline, server, clock, used, syncs, aborts>>
  BY DEF Recheck, fileVars
<1>2. CASE Return(d, "error")
  BY <1>1, <1>2, ReturnSync, SyncState
<1>3. CASE sync' = sync /\ pc' = [pc EXCEPT ![d] = "apply"] /\ outcome' = outcome
  <2>1. sync' = [sync EXCEPT ![d] = sync[d]]
    BY <1>3 DEF SyncInv, TypeOK
  <2>10. SyncStepTo(d, sync[d], "apply", outcome[d])
    BY <1>1, <1>3, <2>1, SyncState DEF SyncStepTo
  <2> QED BY <2>10, SyncStep
<1>4. CASE /\ sync[d].refreshes < MaxLocalRefreshes
           /\ sync' = [sync EXCEPT ![d].refreshes = @ + 1, ![d].override = TRUE,
                                   ![d].remote = sync[d].doc, ![d].exists = TRUE]
           /\ pc' = [pc EXCEPT ![d] = "inputs"] /\ outcome' = outcome
  <2> DEFINE n == sync[d].refreshes + 1
             r == [sync[d] EXCEPT !.refreshes = n, !.override = TRUE,
                                  !.remote = sync[d].doc, !.exists = TRUE]
  <2>1. n \in 0..MaxLocalRefreshes
    BY <1>0, <1>4, BoundsAreNatural DEF SyncRecords
  <2>2. sync' = [sync EXCEPT ![d] = r]
    BY <1>4
  <2> HIDE DEF n
  <2>3. r \in SyncRecords
    BY <1>0, <2>1 DEF SyncRecords
  <2>4. /\ r.now = sync[d].now /\ r.local = sync[d].local
        /\ r.remote = sync[d].doc /\ r.doc = sync[d].doc
    BY <1>0 DEF SyncRecords
  <2> HIDE DEF r
  <2>10. SyncStepTo(d, r, "inputs", outcome[d])
    BY <1>1, <1>4, <2>2, <2>3, <2>4, SyncState DEF SyncStepTo
  <2> QED BY <2>10, SyncStep
<1> QED BY <1>2, <1>3, <1>4 DEF Recheck

LEMMA ApplySync ==
    ASSUME SyncInv, NEW d \in Devices, Apply(d)
    PROVE  SyncInv'
<1>1. /\ pc[d] = "apply" /\ pc' = [pc EXCEPT ![d] = "commit"]
      /\ vault' = [vault EXCEPT ![d] = sync[d].doc.recs]
      /\ UNCHANGED <<baseline, server, clock, used, sync, outcome, syncs, aborts>>
  BY DEF Apply
<1>2. sync[d] \in SyncRecords
  BY SyncState
<1>3. vault' \in [Devices -> StampedRecords]
  BY <1>1, <1>2, SyncState DEF SyncRecords, Documents
<1>4. sync' = [sync EXCEPT ![d] = sync[d]]
  BY <1>1 DEF SyncInv, TypeOK
<1>10. SyncStepTo(d, sync[d], "commit", outcome[d])
  BY <1>1, <1>2, <1>3, <1>4, SyncState DEF SyncStepTo
<1> QED BY <1>10, SyncStep

LEMMA CommitSync ==
    ASSUME SyncInv, NEW d \in Devices, Commit(d)
    PROVE  SyncInv'
<1>1. /\ baseline' = [baseline EXCEPT ![d] = StateFromDocument(sync[d].doc, sync[d].etag)]
      /\ Return(d, "ok")
      /\ UNCHANGED <<vault, server, clock, used, syncs, aborts>>
  BY DEF Commit
<1>2. StateFromDocument(sync[d].doc, sync[d].etag) \in Baselines
  BY SyncState DEF SyncRecords, Documents, StateFromDocument, Baselines
<1>3. baseline' \in [Devices -> Baselines]
  BY <1>1, <1>2, SyncState
<1> QED BY <1>1, <1>3, ReturnSync, SyncState

LEMMA AbortSync ==
    ASSUME SyncInv, NEW d \in Devices, Abort(d)
    PROVE  SyncInv'
<1>1. /\ Return(d, "error") /\ UNCHANGED <<vault, baseline, server, clock, used, syncs>>
  BY DEF Abort, fileVars
<1>2. aborts' \in 0..MaxAborts
  BY SyncState, BoundsAreNatural DEF Abort
<1> QED BY <1>1, <1>2, ReturnSync, SyncState

LEMMA AskSync ==
    ASSUME SyncInv, NEW d \in Devices, AskEmpty(d) \/ AskInitial(d) \/ AskMerge(d)
    PROVE  SyncInv'
<1>1. Return(d, "pending") /\ UNCHANGED <<vault, baseline, server, clock, used, syncs, aborts>>
  BY DEF AskEmpty, AskInitial, AskMerge, fileVars
<1> QED BY <1>1, ReturnSync, SyncState

(* The types of the protocol's state, and with them that neither the       *)
(* server nor any sync ever holds a document that deletes what it lists.   *)
LEMMA SyncInvariant == Spec => []SyncInv
<1>1. Init => SyncInv
  BY InitSync
<1>2. SyncInv /\ [Next]_vars => SyncInv'
  <2> SUFFICES ASSUME SyncInv, [Next]_vars PROVE SyncInv'
    OBVIOUS
  <2>1. CASE Next
    <3> SUFFICES ASSUME NEW d \in Devices,
                        \/ \E i \in Ids : User(d, i)
                        \/ Begin(d) \/ Step(d) \/ Abort(d)
                 PROVE  SyncInv'
      BY <2>1 DEF Next
    <3>1. ASSUME NEW i \in Ids, User(d, i) PROVE SyncInv'
      <4>1. CASE Edit(d, i) \/ Add(d, i) \/ ImportKey(d, i)
        <5>1. Write(d, i)
          BY <4>1 DEF Edit, Add, ImportKey
        <5>2. used' \subseteq Ids
          <6>1. used \subseteq Ids
            BY DEF SyncInv, TypeOK
          <6> QED BY <4>1, <6>1 DEF Edit, Add, ImportKey
        <5> QED BY <5>1, <5>2, WriteSync
      <4>2. CASE Delete(d, i)
        BY <4>2, DeleteSync
      <4> QED BY <3>1, <4>1, <4>2 DEF User
    <3>2. CASE Begin(d)
      BY <3>2, BeginSync
    <3>3. CASE Step(d)
      BY <3>3, ReadSync, DecideSync, AskSync, PutSync, RefusedSync, VerifySync, RecheckSync,
         ApplySync, CommitSync DEF Step
    <3>4. CASE Abort(d)
      BY <3>4, AbortSync
    <3> QED BY <3>1, <3>2, <3>3, <3>4
  <2>2. CASE UNCHANGED vars
    <3>1. /\ UNCHANGED <<vault, baseline, server, clock, used, pc, sync, outcome, syncs, aborts>>
      BY <2>2 DEF vars
    <3>2. /\ StampedRecords' = StampedRecords /\ Documents' = Documents
          /\ Baselines' = Baselines /\ SyncRecords' = SyncRecords
      BY <3>1, StampsStay
    <3> QED BY <3>1, <3>2 DEF SyncInv, TypeOK, TimesAreSet, DocumentsAreClean, CleanDocument, Clean, Entry
  <2> QED BY <2>1, <2>2
<1> QED BY <1>1, <1>2, PTL DEF Spec

(* TypeOK of every reachable state, for any devices, ids and decisions.    *)
THEOREM SyncTypeCorrect == Spec => []TypeOK
<1>1. SyncInv => TypeOK
  BY DEF SyncInv
<1> QED BY <1>1, SyncInvariant, PTL

(* DocumentsAreClean of every reachable state: however syncs interleave,   *)
(* fail and are repeated, the server never stores a record beside a        *)
(* deletion of it that is as late (merge_sync_documents).                  *)
THEOREM DocumentsStayClean == Spec => []DocumentsAreClean
<1>1. SyncInv => DocumentsAreClean
  BY DEF SyncInv
<1> QED BY <1>1, SyncInvariant, PTL

(* The syncs and files of the other devices are as they were.              *)
LEMMA OthersRest ==
    ASSUME SyncInv, NEW d \in Devices, Begin(d) \/ Step(d) \/ Abort(d),
           NEW e \in Devices, e # d
    PROVE  /\ sync'[e] = sync[e] /\ pc'[e] = pc[e] /\ outcome'[e] = outcome[e]
           /\ vault'[e] = vault[e] /\ baseline'[e] = baseline[e]
<1>0. /\ sync \in [Devices -> SyncRecords] /\ vault \in [Devices -> StampedRecords]
      /\ baseline \in [Devices -> Baselines]
      /\ pc = [x \in Devices |-> pc[x]] /\ outcome = [x \in Devices |-> outcome[x]]
  BY DEF SyncInv, TypeOK
<1>1. CASE Begin(d) \/ Abort(d)
  BY <1>0, <1>1 DEF Begin, Abort, Return, fileVars
<1>2. CASE Inputs(d) \/ Fetch(d)
  BY <1>0, <1>2 DEF Inputs, Fetch, fileVars
<1>3. CASE AskEmpty(d) \/ AskInitial(d) \/ AskMerge(d)
  BY <1>0, <1>3 DEF AskEmpty, AskInitial, AskMerge, Return, fileVars
<1>4. CASE TakeInitial(d) \/ MergeDocuments(d)
  BY <1>0, <1>4 DEF TakeInitial, MergeDocuments, fileVars
<1>5. CASE Put(d) \/ Verify(d)
  BY <1>0, <1>5 DEF Put, Verify, Return, fileVars
<1>6. CASE PutRefused(d)
  BY <1>0, <1>6 DEF PutRefused, Return, fileVars
<1>7. CASE Recheck(d)
  BY <1>0, <1>7 DEF Recheck, Return, fileVars
<1>8. CASE Apply(d) \/ Commit(d)
  BY <1>0, <1>8 DEF Apply, Commit, Return, fileVars
<1> QED BY <1>1, <1>2, <1>3, <1>4, <1>5, <1>6, <1>7, <1>8 DEF Step

(* A user changes a vault and nothing of a sync.                           *)
LEMMA UserLeavesSyncs ==
    ASSUME NEW d \in Devices, NEW i \in Ids, User(d, i)
    PROVE  UNCHANGED <<baseline, server, pc, sync, outcome>>
BY DEF User, Edit, Add, ImportKey, Delete, Write

(* A step that returns ends the sync.                                      *)
LEMMA ReturnEnds ==
    ASSUME SyncInv, NEW d \in Devices, NEW result, Return(d, result)
    PROVE  sync'[d] = NoSync /\ pc'[d] = "idle" /\ outcome'[d] = result
BY DEF SyncInv, TypeOK, Return

-----------------------------------------------------------------------------
(* The baseline is what the server confirmed.                              *)

(* The server counts its writes: an ETag d keeps is of a write that was    *)
(* made, and while it is the last one the server's document is the one d   *)
(* read, sent or stored with it.                                           *)
EtagsAreTrue(d) ==
    /\ baseline[d].etag <= server.writes /\ sync[d].etag <= server.writes
    /\ (baseline[d].etag # 0 /\ baseline[d].etag = server.writes)
          => baseline[d].recs = server.doc.recs /\ baseline[d].tombs = server.doc.tombs
    /\ (sync[d].etag # 0 /\ sync[d].etag = server.writes)
          => /\ pc[d] \in {"inputs", "decide", "put"} => sync[d].remote = server.doc
             /\ pc[d] \in {"verify", "recheck", "apply", "commit"} => sync[d].doc = server.doc

EtagInv == \A d \in Devices : EtagsAreTrue(d)

LEMMA InitEtags == Init => EtagInv
<1> SUFFICES ASSUME Init, NEW d \in Devices PROVE EtagsAreTrue(d)
  BY DEF EtagInv
<1>1. sync[d] = NoSync /\ pc[d] = "idle"
  BY DEF Init
<1>2. NoSync.etag = 0 /\ NoBaseline.etag = 0
  BY DEF NoSync, NoBaseline
<1>3. CASE baseline = [x \in Devices |-> NoBaseline] /\ server = [doc |-> EmptyDocument, writes |-> 0]
  BY <1>1, <1>2, <1>3 DEF EtagsAreTrue
<1>4. CASE /\ baseline = [x \in Devices |->
                 [recs |-> SharedRecords, tombs |-> NoRecords, etag |-> Etag(1)]]
           /\ server = [doc |-> SharedDocument, writes |-> 1]
  BY <1>1, <1>2, <1>4 DEF EtagsAreTrue, Etag, SharedDocument
<1> QED BY <1>3, <1>4 DEF Init

(* What d knows of the server stays true if nobody writes, and says        *)
(* nothing any more if another device does.                                *)
LEMMA EtagsOfOthers ==
    ASSUME SyncInv, NEW d \in Devices, EtagsAreTrue(d),
           sync'[d] = sync[d], pc'[d] = pc[d], baseline'[d] = baseline[d],
           server' = server \/ server'.writes = server.writes + 1
    PROVE  EtagsAreTrue(d)'
<1>1. server.writes \in Nat /\ sync[d].etag \in Nat /\ baseline[d].etag \in Nat
  BY SyncState DEF SyncRecords, Baselines
<1>2. CASE server' = server
  BY <1>2 DEF EtagsAreTrue
<1>3. CASE server'.writes = server.writes + 1
  BY <1>1, <1>3 DEF EtagsAreTrue
<1> QED BY <1>2, <1>3

LEMMA EtagsOfDevice ==
    ASSUME SyncInv, NEW d \in Devices, EtagsAreTrue(d), Begin(d) \/ Step(d) \/ Abort(d)
    PROVE  /\ EtagsAreTrue(d)'
           /\ server' = server \/ server'.writes = server.writes + 1
<1>0. /\ sync[d] \in SyncRecords /\ sync \in [Devices -> SyncRecords]
      /\ baseline \in [Devices -> Baselines]
      /\ pc = [x \in Devices |-> pc[x]]
      /\ server.writes \in Nat /\ sync[d].etag \in Nat /\ baseline[d].etag \in Nat
  BY SyncState DEF SyncRecords, Baselines, SyncInv, TypeOK
<1>1. NoSync.etag = 0
  BY DEF NoSync
<1>2. ASSUME NEW result, Return(d, result), server' = server, baseline' = baseline
      PROVE  EtagsAreTrue(d)'
  BY <1>0, <1>1, <1>2, ReturnEnds DEF EtagsAreTrue
<1>3. CASE Begin(d)
  <2>1. PICK decision : sync' = [sync EXCEPT ![d] = [NoSync EXCEPT !.decision = decision]]
    BY <1>3 DEF Begin
  <2>2. sync'[d].etag = 0
    BY <1>0, <2>1 DEF NoSync
  <2>3. server' = server /\ baseline' = baseline
    BY <1>3 DEF Begin, fileVars
  <2> QED BY <1>0, <2>2, <2>3 DEF EtagsAreTrue
<1>4. CASE Abort(d) \/ AskEmpty(d) \/ AskInitial(d) \/ AskMerge(d)
  BY <1>2, <1>4 DEF Abort, AskEmpty, AskInitial, AskMerge, fileVars
<1>5. CASE Inputs(d)
  <2>1. /\ sync'[d].etag = sync[d].etag /\ sync'[d].remote = sync[d].remote
        /\ pc[d] = "inputs" /\ pc'[d] \in {"decide", "fetch"}
        /\ server' = server /\ baseline' = baseline
    BY <1>0, <1>5 DEF Inputs, fileVars, SyncRecords
  <2> QED BY <1>0, <2>1 DEF EtagsAreTrue
<1>6. CASE Fetch(d)
  <2>1. /\ sync'[d].etag = Etag(server.writes) /\ sync'[d].remote = server.doc
        /\ pc'[d] = "decide" /\ server' = server /\ baseline' = baseline
    BY <1>0, <1>6 DEF Fetch, fileVars, SyncRecords
  <2> QED BY <1>0, <2>1 DEF EtagsAreTrue, Etag
<1>7. CASE TakeInitial(d) \/ MergeDocuments(d)
  <2>1. /\ sync'[d].etag = sync[d].etag /\ sync'[d].remote = sync[d].remote
        /\ pc[d] = "decide"
        /\ pc'[d] = "put" \/ (pc'[d] = "apply" /\ sync'[d].doc = sync[d].remote)
        /\ server' = server /\ baseline' = baseline
    BY <1>0, <1>7 DEF TakeInitial, MergeDocuments, Merging, fileVars, SyncRecords
  <2> QED BY <1>0, <2>1 DEF EtagsAreTrue
<1>8. CASE Put(d)
  <2>1. /\ sync'[d].etag = server.writes + 1 /\ sync'[d].doc = sync[d].doc
        /\ pc'[d] = "verify" /\ server'.doc = sync[d].doc
        /\ server'.writes = server.writes + 1 /\ baseline' = baseline
    BY <1>0, <1>8 DEF Put, SyncRecords
  <2> QED BY <1>0, <2>1 DEF EtagsAreTrue
<1>9. CASE PutRefused(d)
  <2>1. server' = server /\ baseline' = baseline
    BY <1>9 DEF PutRefused, fileVars
  <2>2. CASE Return(d, "error")
    BY <1>2, <2>1, <2>2
  <2>3. CASE ~Return(d, "error")
    <3>1. sync'[d].etag = 0
      BY <1>0, <1>9, <2>3 DEF PutRefused, SyncRecords
    <3> QED BY <1>0, <2>1, <3>1 DEF EtagsAreTrue
  <2> QED BY <2>1, <2>2, <2>3
<1>10. CASE Verify(d)
  <2>1. server' = server /\ baseline' = baseline
    BY <1>10 DEF Verify, fileVars
  <2>2. CASE Return(d, "error")
    BY <1>2, <2>1, <2>2
  <2>3. CASE ~Return(d, "error")
    <3>1. /\ sync'[d].etag = Etag(server.writes) /\ sync'[d].doc = sync[d].doc
          /\ pc[d] = "verify" /\ pc'[d] \in {"apply", "recheck"}
          /\ sync[d].etag = server.writes
      BY <1>0, <1>10, <2>3 DEF Verify, ReadsBack, SyncRecords
    <3> QED BY <1>0, <2>1, <3>1 DEF EtagsAreTrue, Etag
  <2> QED BY <2>1, <2>2, <2>3
<1>11. CASE Recheck(d)
  <2>1. server' = server /\ baseline' = baseline /\ pc[d] = "recheck"
    BY <1>11 DEF Recheck, fileVars
  <2>2. CASE Return(d, "error")
    BY <1>2, <2>1, <2>2
  <2>3. CASE sync' = sync /\ pc'[d] = "apply"
    BY <1>0, <2>1, <2>3 DEF EtagsAreTrue
  <2>4. CASE /\ sync' = [sync EXCEPT ![d].refreshes = @ + 1, ![d].override = TRUE,
                                     ![d].remote = sync[d].doc, ![d].exists = TRUE]
             /\ pc' = [pc EXCEPT ![d] = "inputs"]
    <3>1. /\ sync'[d].etag = sync[d].etag /\ sync'[d].remote = sync[d].doc /\ pc'[d] = "inputs"
      BY <1>0, <2>4 DEF SyncRecords
    <3> QED BY <1>0, <2>1, <3>1 DEF EtagsAreTrue
  <2> QED BY <1>0, <1>11, <2>1, <2>2, <2>3, <2>4 DEF Recheck
<1>12. CASE Apply(d)
  <2>1. server' = server /\ baseline' = baseline /\ sync' = sync /\ pc[d] = "apply" /\ pc'[d] = "commit"
    BY <1>0, <1>12 DEF Apply
  <2> QED BY <1>0, <2>1 DEF EtagsAreTrue
<1>13. CASE Commit(d)
  <2>1. /\ server' = server /\ pc[d] = "commit" /\ sync'[d].etag = 0 /\ pc'[d] = "idle"
        /\ baseline'[d].etag = sync[d].etag
        /\ baseline'[d].recs = sync[d].doc.recs /\ baseline'[d].tombs = sync[d].doc.tombs
    BY <1>0, <1>1, <1>13, ReturnEnds DEF Commit, StateFromDocument
  <2> QED BY <1>0, <2>1 DEF EtagsAreTrue
<1> QED BY <1>3, <1>4, <1>5, <1>6, <1>7, <1>8, <1>9, <1>10, <1>11, <1>12, <1>13
        DEF Step, Abort, Begin, AskEmpty, AskInitial, AskMerge, fileVars, Inputs, Fetch, TakeInitial, MergeDocuments,
            Put, PutRefused, Verify, Recheck, Apply, Commit

LEMMA EtagInvariant == Spec => []EtagInv
<1>1. Init => EtagInv
  BY InitEtags
<1>2. SyncInv /\ EtagInv /\ [Next]_vars => EtagInv'
  <2> SUFFICES ASSUME SyncInv, EtagInv, [Next]_vars, NEW e \in Devices PROVE EtagsAreTrue(e)'
    BY DEF EtagInv
  <2>1. EtagsAreTrue(e)
    BY DEF EtagInv
  <2>2. CASE UNCHANGED vars
    BY <2>1, <2>2 DEF vars, EtagsAreTrue
  <2>3. ASSUME NEW d \in Devices, NEW i \in Ids, User(d, i) PROVE EtagsAreTrue(e)'
    BY <2>1, <2>3, UserLeavesSyncs, EtagsOfOthers
  <2>4. ASSUME NEW d \in Devices, Begin(d) \/ Step(d) \/ Abort(d) PROVE EtagsAreTrue(e)'
    <3>1. EtagsAreTrue(d)' /\ (server' = server \/ server'.writes = server.writes + 1)
      BY <2>4, EtagsOfDevice DEF EtagInv
    <3>2. CASE e = d
      BY <3>1, <3>2
    <3>3. CASE e # d
      BY <2>1, <2>4, <3>1, <3>3, OthersRest, EtagsOfOthers
    <3> QED BY <3>2, <3>3
  <2> QED BY <2>2, <2>3, <2>4 DEF Next
<1> QED BY <1>1, <1>2, SyncInvariant, PTL DEF Spec

(* BaselineIsConfirmed, for any number of devices, with or without ETags,  *)
(* and whatever fails: a device stores as its baseline only what the       *)
(* server held under the ETag stored with it.                              *)
THEOREM BaselinesAreConfirmed == Spec => []BaselineIsConfirmed
<1>1. EtagInv => BaselineIsConfirmed
  BY DEF EtagInv, EtagsAreTrue, BaselineIsConfirmed
<1> QED BY <1>1, EtagInvariant, PTL

-----------------------------------------------------------------------------
(* What a device has on record does not shrink unasked.                    *)

LEMMA CountIsNatural ==
    ASSUME NEW recs
    PROVE  /\ Count(recs) \in Nat
           /\ Count(recs) = 0 <=> \A i \in Ids : recs[i] = None
<1> DEFINE present == {i \in Ids : recs[i] # None}
<1>1. IsFiniteSet(present)
  BY WebDavSyncAssumption, FS_Subset
<1>2. Cardinality(present) \in Nat /\ (Cardinality(present) = 0 <=> present = {})
  BY <1>1, FS_CardinalityType, FS_EmptySet
<1>3. present = {} <=> \A i \in Ids : recs[i] = None
  OBVIOUS
<1> QED BY <1>2, <1>3 DEF Count

(* Measured from more records, a loss is no smaller.                       *)
LEMMA SuspicionGrows ==
    ASSUME NEW before \in Nat, NEW more \in Nat, before <= more, NEW after \in Nat,
           Suspicious(before, after)
    PROVE  Suspicious(more, after)
<1>1. before \div 2 <= more \div 2
  OBVIOUS
<1>2. before \div 2 \in Nat /\ more \div 2 \in Nat
  OBVIOUS
<1> QED BY <1>1, <1>2, BoundsAreNatural DEF Suspicious

LEMMA NothingShrinks == ASSUME NEW after \in Nat PROVE ~Suspicious(0, after)
BY DEF Suspicious

LEMMA LargestIsLargest ==
    ASSUME NEW a \in Nat, NEW b \in Nat
    PROVE  Largest(a, b) \in Nat /\ a <= Largest(a, b) /\ b <= Largest(a, b)
BY DEF Largest

Unasked(d) == sync[d].decision.shrink = "" /\ sync[d].decision.empty = ""

(* What d is about to store was compared with its baseline.                *)
LossIsKnown(d) ==
    (pc[d] \in {"put", "verify", "recheck", "apply", "commit"} /\ Unasked(d))
        => ~Suspicious(Count(baseline[d].recs), Count(sync[d].doc.recs))

ShrinkInv == \A d \in Devices : LossIsKnown(d)

LEMMA LossOfOthers ==
    ASSUME NEW d \in Devices, LossIsKnown(d),
           sync'[d] = sync[d], pc'[d] = pc[d], baseline'[d] = baseline[d]
    PROVE  LossIsKnown(d)'
BY DEF LossIsKnown, Unasked, Count, Suspicious

(* A step that sends or keeps the document it decided on.                  *)
LEMMA LossStays ==
    ASSUME NEW d \in Devices, LossIsKnown(d), baseline'[d] = baseline[d],
           pc[d] \in {"put", "verify", "recheck", "apply", "commit"},
           sync'[d].doc = sync[d].doc, sync'[d].decision = sync[d].decision
    PROVE  LossIsKnown(d)'
BY DEF LossIsKnown, Unasked, Count, Suspicious

LEMMA LossOfDevice ==
    ASSUME SyncInv, NEW d \in Devices, LossIsKnown(d), Begin(d) \/ Step(d) \/ Abort(d)
    PROVE  LossIsKnown(d)'
<1>0. /\ sync[d] \in SyncRecords /\ sync \in [Devices -> SyncRecords]
      /\ baseline \in [Devices -> Baselines]
      /\ pc = [x \in Devices |-> pc[x]]
  BY SyncState DEF SyncInv, TypeOK
<1>1. ASSUME pc'[d] \notin {"put", "verify", "recheck", "apply", "commit"} PROVE LossIsKnown(d)'
  BY <1>1 DEF LossIsKnown
<1>2. ASSUME NEW result, Return(d, result) PROVE LossIsKnown(d)'
  BY <1>1, <1>2, ReturnEnds
<1>3. CASE Begin(d) \/ Abort(d)
  BY <1>0, <1>1, <1>2, <1>3 DEF Begin, Abort
<1>4. CASE Inputs(d) \/ Fetch(d)
  BY <1>0, <1>1, <1>4 DEF Inputs, Fetch
<1>5. CASE AskEmpty(d) \/ AskInitial(d) \/ AskMerge(d)
  BY <1>2, <1>5 DEF AskEmpty, AskInitial, AskMerge
<1>6. CASE TakeInitial(d)
  <2>1. baseline[d] = NoBaseline /\ baseline' = baseline
    BY <1>6 DEF TakeInitial, InitialDivergence, HasBaseline, fileVars
  <2>2. Count(baseline'[d].recs) = 0
    BY <2>1, CountIsNatural DEF NoBaseline, NoRecords
  <2>3. Count(sync'[d].doc.recs) \in Nat
    BY CountIsNatural
  <2>4. ~Suspicious(Count(baseline'[d].recs), Count(sync'[d].doc.recs))
    BY <2>2, <2>3, NothingShrinks
  <2> QED BY <2>4 DEF LossIsKnown, Count, Suspicious
<1>7. CASE MergeDocuments(d)
  <2> DEFINE merged == MergedDocument(d, sync[d])
  <2>1. /\ sync'[d].doc = merged /\ sync'[d].decision = sync[d].decision
        /\ baseline' = baseline
    BY <1>0, <1>7 DEF MergeDocuments, fileVars, SyncRecords
  <2> SUFFICES ASSUME Unasked(d)
               PROVE  ~Suspicious(Count(baseline[d].recs), Count(merged.recs))
    BY <2>1 DEF LossIsKnown, Unasked, Count, Suspicious
  <2>2. ~Shrinks(d, sync[d])
    BY <1>7 DEF MergeDocuments, Guarded, Unasked
  <2> DEFINE known == Count(baseline[d].recs)
             largest == Largest(Count(sync[d].local.recs), Count(sync[d].remote.recs))
             after == Count(merged.recs)
  <2>3. known \in Nat /\ largest \in Nat /\ after \in Nat
    BY CountIsNatural, LargestIsLargest
  <2>4. ~Suspicious(Largest(known, largest), after)
    BY <2>2 DEF Shrinks
  <2> HIDE DEF merged, known, largest, after
  <2>5. Largest(known, largest) \in Nat /\ known <= Largest(known, largest)
    BY <2>3, LargestIsLargest
  <2>6. ~Suspicious(known, after)
    BY <2>3, <2>4, <2>5, SuspicionGrows
  <2> QED BY <2>6 DEF known, after
<1>8. CASE Put(d) \/ Apply(d)
  <2>1. /\ sync'[d].doc = sync[d].doc /\ sync'[d].decision = sync[d].decision
        /\ baseline' = baseline /\ pc[d] \in {"put", "apply"}
    BY <1>0, <1>8 DEF Put, Apply, SyncRecords
  <2> QED BY <2>1, LossStays
<1>9. CASE PutRefused(d)
  <2>1. Return(d, "error") \/ pc' = [pc EXCEPT ![d] = "inputs"]
    BY <1>9 DEF PutRefused
  <2> QED BY <1>0, <1>1, <1>2, <2>1
<1>10. CASE Verify(d)
  <2>1. CASE Return(d, "error")
    BY <1>2, <2>1
  <2>2. CASE ~Return(d, "error")
    <3>1. /\ sync'[d].doc = sync[d].doc /\ sync'[d].decision = sync[d].decision
          /\ baseline' = baseline /\ pc[d] = "verify"
      BY <1>0, <1>10, <2>2 DEF Verify, fileVars, SyncRecords
    <3> QED BY <3>1, LossStays
  <2> QED BY <2>1, <2>2
<1>11. CASE Recheck(d)
  <2>1. CASE Return(d, "error")
    BY <1>2, <2>1
  <2>2. CASE pc' = [pc EXCEPT ![d] = "inputs"]
    BY <1>0, <1>1, <2>2
  <2>3. CASE sync' = sync
    <3>1. baseline' = baseline /\ pc[d] = "recheck"
      BY <1>11 DEF Recheck, fileVars
    <3> QED BY <2>3, <3>1, LossStays
  <2> QED BY <1>11, <2>1, <2>2, <2>3 DEF Recheck
<1>12. CASE Commit(d)
  BY <1>2, <1>12 DEF Commit
<1> QED BY <1>3, <1>4, <1>5, <1>6, <1>7, <1>8, <1>9, <1>10, <1>11, <1>12 DEF Step

LEMMA ShrinkInvariant == Spec => []ShrinkInv
<1>1. Init => ShrinkInv
  BY DEF Init, ShrinkInv, LossIsKnown
<1>2. SyncInv /\ ShrinkInv /\ [Next]_vars => ShrinkInv'
  <2> SUFFICES ASSUME SyncInv, ShrinkInv, [Next]_vars, NEW e \in Devices PROVE LossIsKnown(e)'
    BY DEF ShrinkInv
  <2>1. LossIsKnown(e)
    BY DEF ShrinkInv
  <2>2. CASE UNCHANGED vars
    BY <2>1, <2>2, LossOfOthers DEF vars
  <2>3. ASSUME NEW d \in Devices, NEW i \in Ids, User(d, i) PROVE LossIsKnown(e)'
    BY <2>1, <2>3, UserLeavesSyncs, LossOfOthers
  <2>4. ASSUME NEW d \in Devices, Begin(d) \/ Step(d) \/ Abort(d) PROVE LossIsKnown(e)'
    <3>1. CASE e = d
      BY <2>1, <2>4, <3>1, LossOfDevice
    <3>2. CASE e # d
      BY <2>1, <2>4, <3>2, OthersRest, LossOfOthers
    <3> QED BY <3>1, <3>2
  <2> QED BY <2>2, <2>3, <2>4 DEF Next
<1> QED BY <1>1, <1>2, SyncInvariant, PTL DEF Spec

(* Only Commit reports a sync as done. *)
LEMMA DoneByCommit ==
    ASSUME SyncInv, [Next]_vars, NEW d \in Devices,
           pc[d] = "commit", pc'[d] = "idle", outcome'[d] = "ok"
    PROVE  Commit(d)
<1>1. ~UNCHANGED vars
  BY DEF vars
<1>2. ASSUME NEW e \in Devices, NEW i \in Ids, User(e, i) PROVE FALSE
  BY <1>2, UserLeavesSyncs
<1>3. PICK e \in Devices : Begin(e) \/ Step(e) \/ Abort(e)
  BY <1>1, <1>2 DEF Next
<1>4. e = d
  BY <1>3, OthersRest
<1>5. ~Begin(d) /\ ~Abort(d)
  <2>1. ~Begin(d)
    BY DEF Begin
  <2>2. ASSUME Abort(d) PROVE FALSE
    BY <2>2, ReturnEnds DEF Abort
  <2> QED BY <2>1, <2>2
<1>6. Step(d)
  BY <1>3, <1>4, <1>5
<1> QED BY <1>6 DEF Step, Inputs, Fetch, AskEmpty, AskInitial, TakeInitial, AskMerge, MergeDocuments,
        Merging, Put, PutRefused, Verify, Recheck, Apply

(* NoSilentShrink of every step, for any limits: what a device has on      *)
(* record shrinks by a suspicious amount only where the user agreed.       *)
THEOREM NothingShrinksSilently == Spec => NoSilentShrink
<1>1. SyncInv /\ ShrinkInv /\ [Next]_vars =>
        [\A d \in Devices :
           (pc[d] = "commit" /\ pc'[d] = "idle" /\ outcome'[d] = "ok"
              /\ sync[d].decision.shrink = "" /\ sync[d].decision.empty = "")
              => ~Suspicious(Count(baseline[d].recs), Count(baseline'[d].recs))]_vars
  <2> SUFFICES ASSUME SyncInv, ShrinkInv, [Next]_vars, NEW d \in Devices,
                      pc[d] = "commit", pc'[d] = "idle", outcome'[d] = "ok", Unasked(d)
               PROVE  ~Suspicious(Count(baseline[d].recs), Count(baseline'[d].recs))
    BY DEF Unasked
  <2>1. Commit(d)
    BY DoneByCommit
  <2>2. baseline'[d].recs = sync[d].doc.recs
    BY <2>1, SyncState DEF Commit, StateFromDocument
  <2>3. LossIsKnown(d)
    BY DEF ShrinkInv
  <2> QED BY <2>2, <2>3 DEF LossIsKnown
<1> QED BY <1>1, SyncInvariant, ShrinkInvariant, PTL DEF Spec, NoSilentShrink

-----------------------------------------------------------------------------
(* An edit on this device is not overwritten.                              *)

NotOlder(rec, old) == rec # None /\ old # None => rec.hash >= old.hash

(* Without hosts that lack a time of their own, a record's time is its     *)
(* version; and only ids that were given out have records.                 *)
Written(recs) == \A i \in Ids : recs[i] # None => i \in used /\ recs[i].at = recs[i].hash

WrittenInv ==
    /\ Written(server.doc.recs)
    /\ \A d \in Devices :
          /\ Written(vault[d]) /\ Written(baseline[d].recs)
          /\ Written(sync[d].local.recs) /\ Written(sync[d].remote.recs)
          /\ Written(sync[d].doc.recs)

(* Where i stands on d: the vault is not behind the baseline, what the     *)
(* sync read is what the vault holds, and what it decided on keeps what    *)
(* was not synced yet.                                                     *)
EditIsSafe(d, i) ==
    /\ NotOlder(vault[d][i], baseline[d].recs[i])
    /\ pc[d] \in {"fetch", "decide"} =>
          /\ baseline[d].recs[i] # None => sync[d].local.recs[i] = vault[d][i]
          /\ sync[d].local.recs[i] # None => sync[d].local.tombs[i] = None
          /\ (sync[d].local.recs[i] = None /\ baseline[d].recs[i] # None)
                => sync[d].local.tombs[i] # None
    /\ pc[d] \in {"put", "verify", "recheck", "apply", "commit"} =>
          NotOlder(sync[d].doc.recs[i], baseline[d].recs[i])
    /\ (pc[d] \in {"put", "verify", "recheck", "apply"} /\ Unsynced(d, i)) =>
          sync[d].doc.recs[i] # None /\ sync[d].doc.recs[i].hash = vault[d][i].hash
    /\ pc[d] = "commit" => NotOlder(vault[d][i], sync[d].doc.recs[i])

(* The user never decides for the server's side. *)
OwnSide(decision) == decision.conflict # "remote" /\ decision.empty # "restoreRemote"

EditInv ==
    /\ WrittenInv
    /\ \A d \in Devices : pc[d] # "idle" => OwnSide(sync[d].decision)
    /\ \A d \in Devices, i \in Ids : EditIsSafe(d, i)

(* The merge of one id, of which this device has the version it read from  *)
(* its vault, or the tombstone of a version it deleted.                    *)
LEMMA MergeKeepsEdits ==
    ASSUME clock \in Nat,
           NEW entry \in [rec : StampSet \cup {None}, tomb : StampSet \cup {None}, conflict : BOOLEAN],
           NEW localRec \in StampSet \cup {None},
           NEW localTomb \in StampSet \cup {None},
           NEW previous \in StampSet \cup {None},
           NEW resolution, resolution # "remote",
           localRec # None => localRec.at = localRec.hash /\ localTomb = None,
           entry.rec # None => entry.rec.at = entry.rec.hash,
           NotOlder(localRec, previous),
           (localRec = None /\ previous # None) => localTomb # None,
           Merge(entry, localRec, localTomb, previous, resolution).conflict => resolution = "local"
    PROVE  LET rec == Merge(entry, localRec, localTomb, previous, resolution).rec
           IN  /\ rec \in {entry.rec, localRec, None}
               /\ NotOlder(rec, previous)
               /\ (localRec # None /\ Changed(localRec, previous)) =>
                     rec # None /\ rec.hash = localRec.hash
<1> DEFINE merged == Merge(entry, localRec, localTomb, previous, resolution)
<1>0. /\ \A r \in StampSet : r.hash \in Nat /\ r.at \in Nat
      /\ None \notin StampSet
  <2>1. \A r \in StampSet : r.hash \in Nat /\ r.at \in Nat
    BY DEF StampSet, Stamps
  <2> QED BY <2>1, StampSetIsRecordSet DEF IsRecordSet
<1>1. CASE localRec = None
  <2>1. merged = MergeTombstone(entry, localTomb, resolution)
    BY <1>1 DEF Merge, MergeRecord
  <2>2. CASE localTomb = None
    <3>1. merged = entry /\ previous = None
      BY <1>1, <2>1, <2>2 DEF MergeTombstone
    <3> QED BY <1>1, <3>1 DEF NotOlder
  <2>3. CASE localTomb # None
    <3>1. merged.rec = None
      <4>1. CASE TombstoneWins(entry.rec, localTomb)
        BY <2>1, <2>3, <4>1 DEF MergeTombstone
      <4>2. CASE ~TombstoneWins(entry.rec, localTomb) /\ resolution = "local"
        BY <2>1, <2>3, <4>2 DEF MergeTombstone
      <4>3. CASE ~TombstoneWins(entry.rec, localTomb) /\ resolution # "local"
        <5>1. merged = [entry EXCEPT !.conflict = TRUE]
          BY <2>1, <2>3, <4>3 DEF MergeTombstone
        <5> QED BY <4>3, <5>1
      <4> QED BY <4>1, <4>2, <4>3
    <3> QED BY <1>1, <3>1 DEF NotOlder
  <2> QED BY <2>2, <2>3
<1>2. CASE localRec # None
  <2>1. merged = MergeRecord(entry, localRec, previous, resolution)
    BY <1>2 DEF Merge, MergeTombstone
  <2>2. localRec \in StampSet /\ localRec.hash \in Nat /\ localRec.at = localRec.hash
    BY <1>0, <1>2
  <2>3. CASE Covered(entry.tomb, localRec)
    <3>1. merged = MergeCovered(entry, localRec, previous, resolution)
      BY <1>2, <2>1, <2>3 DEF MergeRecord
    <3>2. CASE ~Changed(localRec, previous)
      <4>1. merged.rec = None
        BY <3>1, <3>2 DEF MergeCovered
      <4> QED BY <3>2, <4>1 DEF NotOlder
    <3>3. CASE Changed(localRec, previous) /\ resolution = "local"
      <4>1. merged.rec = localRec
        BY <3>1, <3>3 DEF MergeCovered
      <4> QED BY <1>2, <4>1
    <3>4. CASE Changed(localRec, previous) /\ resolution # "local"
      <4>1. merged = [entry EXCEPT !.conflict = TRUE]
        BY <3>1, <3>4 DEF MergeCovered
      <4> QED BY <3>4, <4>1
    <3> QED BY <3>2, <3>3, <3>4
  <2>4. CASE ~Covered(entry.tomb, localRec) /\ entry.rec = None
    <3>1. merged.rec = localRec
      BY <1>2, <2>1, <2>4 DEF MergeRecord
    <3> QED BY <1>2, <3>1
  <2>5. CASE ~Covered(entry.tomb, localRec) /\ entry.rec # None
    <3>1. merged = MergeVersions(entry, localRec, previous, resolution)
      BY <1>2, <2>1, <2>5 DEF MergeRecord
    <3>2. entry.rec \in StampSet /\ entry.rec.hash \in Nat /\ entry.rec.at = entry.rec.hash
      BY <1>0, <2>5
    <3>3. previous # None => previous.hash \in Nat /\ localRec.hash >= previous.hash
      BY <1>0, <1>2 DEF NotOlder
    <3>4. CASE entry.rec.hash = localRec.hash
      <4>1. merged.rec \in {entry.rec, localRec}
        BY <3>1, <3>4 DEF MergeVersions
      <4> QED BY <1>2, <2>5, <3>3, <3>4, <4>1 DEF NotOlder
    <3>5. CASE /\ entry.rec.hash # localRec.hash
               /\ Changed(localRec, previous) /\ Changed(entry.rec, previous)
      <4>1. merged = [entry EXCEPT !.rec = IF resolution = "local" THEN localRec ELSE @,
                                   !.conflict = TRUE]
        BY <3>1, <3>5 DEF MergeVersions
      <4>2. resolution = "local"
        BY <4>1
      <4>3. merged.rec = localRec
        BY <4>1, <4>2
      <4> QED BY <1>2, <4>3
    <3>6. CASE /\ entry.rec.hash # localRec.hash
               /\ ~(Changed(localRec, previous) /\ Changed(entry.rec, previous))
      <4>1. merged = IF localRec.at >= entry.rec.at THEN [entry EXCEPT !.rec = localRec] ELSE entry
        BY <3>1, <3>6 DEF MergeVersions
      <4>2. CASE localRec.at >= entry.rec.at
        <5>1. merged.rec = localRec
          BY <4>1, <4>2
        <5> QED BY <1>2, <5>1
      <4>3. CASE ~(localRec.at >= entry.rec.at)
        <5>1. merged.rec = entry.rec /\ entry.rec.hash > localRec.hash
          BY <2>2, <3>2, <4>1, <4>3
        <5>2. ~Changed(localRec, previous)
          BY <2>2, <3>2, <3>3, <3>6, <5>1 DEF Changed
        <5>3. NotOlder(merged.rec, previous)
          BY <2>2, <3>2, <3>3, <5>1 DEF NotOlder
        <5> QED BY <5>1, <5>2, <5>3
      <4> QED BY <4>2, <4>3
    <3> QED BY <3>4, <3>5, <3>6
  <2> QED BY <2>3, <2>4, <2>5
<1> QED BY <1>1, <1>2

(* The same of every id of the document a sync decides on.                 *)
LEMMA DecidedKeepsEdits ==
    ASSUME SyncInv, EditInv, NEW d \in Devices, MergeDocuments(d), NEW i \in Ids
    PROVE  LET rec == MergedDocument(d, sync[d]).recs[i]
           IN  /\ rec \in {sync[d].remote.recs[i], sync[d].local.recs[i], None}
               /\ NotOlder(rec, baseline[d].recs[i])
               /\ Unsynced(d, i) => rec # None /\ rec.hash = vault[d][i].hash
<1> DEFINE s == sync[d]
           entry == Entry(s.remote.recs[i], s.remote.tombs[i])
           localRec == s.local.recs[i]
           localTomb == EffectiveTombstone(s, i)
           previous == baseline[d].recs[i]
           resolution == s.decision.conflict
           merged == Merge(entry, localRec, localTomb, previous, resolution)
<1>1. pc[d] = "decide" /\ ~Guarded(d)
  BY DEF MergeDocuments, Merging
<1>2. /\ s \in SyncRecords /\ clock \in Nat /\ baseline[d].recs \in StampedRecords
      /\ s.now >= 1 /\ s.now \in Stamps
  BY <1>1, SyncState DEF Baselines, SyncRecords, Stamps
<1>3. /\ s.remote.recs[i] \in StampSet \cup {None} /\ s.remote.tombs[i] \in StampSet \cup {None}
      /\ localRec \in StampSet \cup {None} /\ s.local.tombs[i] \in StampSet \cup {None}
      /\ previous \in StampSet \cup {None}
  BY <1>2 DEF SyncRecords, Documents, StampedRecords, StampSet
<1>4. localTomb \in StampSet \cup {None}
  BY <1>2, <1>3 DEF EffectiveTombstone, StampSet
<1>5. entry \in [rec : StampSet \cup {None}, tomb : StampSet \cup {None}, conflict : BOOLEAN]
      /\ entry.rec = s.remote.recs[i]
  BY <1>3 DEF Entry
<1>6. resolution \in {"", "local"} /\ s.decision.empty # "restoreRemote"
  <2>1. s.decision \in Decisions \cup {NoDecision}
    BY <1>2 DEF SyncRecords
  <2>2. NoDecision.conflict = ""
    BY DEF NoDecision
  <2>3. resolution \in Resolutions
    BY <2>1, <2>2, WebDavSyncAssumption DEF Resolutions
  <2>4. OwnSide(s.decision)
    BY <1>1 DEF EditInv
  <2> QED BY <2>3, <2>4 DEF Resolutions, OwnSide
<1>7. EditIsSafe(d, i)
  BY DEF EditInv
<1>8. /\ entry.rec # None => entry.rec.at = entry.rec.hash
      /\ localRec # None => localRec.at = localRec.hash
  BY <1>5 DEF EditInv, WrittenInv, Written
<1>9. localRec # None => localTomb = None
  <2> SUFFICES ASSUME localRec # None PROVE localTomb = None
    OBVIOUS
  <2>1. ~EmptyApplies(s)
    BY CountIsNatural DEF EmptyApplies, LocalEmpty
  <2>2. s.local.tombs[i] = None
    BY <1>1, <1>7 DEF EditIsSafe
  <2> QED BY <2>1, <2>2 DEF EffectiveTombstone
<1>10. (localRec = None /\ previous # None) => localTomb # None
  <2> SUFFICES ASSUME localRec = None, previous # None PROVE localTomb # None
    OBVIOUS
  <2>1. s.local.tombs[i] # None
    BY <1>1, <1>7 DEF EditIsSafe
  <2>2. [hash |-> s.remote.recs[i].hash, at |-> s.now] # None \/ s.remote.recs[i] = None
    <3> SUFFICES ASSUME s.remote.recs[i] # None
                 PROVE  [hash |-> s.remote.recs[i].hash, at |-> s.now] \in StampSet
      BY <1>2, StampSetIsRecordSet DEF IsRecordSet
    <3> QED BY <1>2, <1>3 DEF StampSet
  <2> QED BY <1>6, <2>1, <2>2 DEF EffectiveTombstone
<1>11. NotOlder(localRec, previous)
  BY <1>1, <1>7 DEF EditIsSafe, NotOlder
<1>12. MergedEntry(d, s, i) = merged /\ MergedDocument(d, s).recs[i] = merged.rec
  BY DEF MergedEntry, MergedDocument
<1>13. merged.conflict => resolution = "local"
  <2>1. merged.conflict => HasConflict(d, s)
    BY <1>12 DEF HasConflict
  <2> QED BY <1>1, <1>6, <2>1 DEF Guarded
<1>14. Unsynced(d, i) => localRec = vault[d][i] /\ localRec # None /\ Changed(localRec, previous)
  BY <1>1, <1>7 DEF Unsynced, EditIsSafe, Changed
<1> HIDE DEF s, entry, localRec, localTomb, previous, resolution
<1>15. /\ resolution # "remote"
       /\ localRec # None => localRec.at = localRec.hash /\ localTomb = None
       /\ localRec \in StampSet \cup {None} /\ localTomb \in StampSet \cup {None}
       /\ previous \in StampSet \cup {None}
  BY <1>3, <1>4, <1>6, <1>8, <1>9
<1>16. /\ merged.rec \in {entry.rec, localRec, None}
       /\ NotOlder(merged.rec, previous)
       /\ (localRec # None /\ Changed(localRec, previous)) =>
             merged.rec # None /\ merged.rec.hash = localRec.hash
  BY <1>2, <1>5, <1>8, <1>10, <1>11, <1>13, <1>15, MergeKeepsEdits
<1> QED BY <1>5, <1>12, <1>14, <1>16 DEF s, localRec, previous

LEMMA WrittenStays ==
    ASSUME NEW recs, Written(recs), used \subseteq used'
    PROVE  Written(recs)'
BY DEF Written

(* What lists only written records goes on doing so. *)
LEMMA WrittenStep ==
    ASSUME SyncInv, EditInv, used' = used, NEW d \in Devices, Begin(d) \/ Step(d) \/ Abort(d),
           KnownHosts = {}
    PROVE  WrittenInv'
<1>0. /\ sync[d] \in SyncRecords /\ sync \in [Devices -> SyncRecords]
      /\ baseline \in [Devices -> Baselines] /\ vault \in [Devices -> StampedRecords]
      /\ Written(server.doc.recs) /\ Written(vault[d]) /\ Written(baseline[d].recs)
      /\ Written(sync[d].local.recs) /\ Written(sync[d].remote.recs) /\ Written(sync[d].doc.recs)
  BY SyncState DEF SyncInv, TypeOK, EditInv, WrittenInv
<1>1. \A recs : Written(recs)' <=> Written(recs)
  BY DEF Written
<1> SUFFICES /\ Written(server'.doc.recs)
             /\ Written(vault'[d]) /\ Written(baseline'[d].recs)
             /\ Written(sync'[d].local.recs) /\ Written(sync'[d].remote.recs)
             /\ Written(sync'[d].doc.recs)
  <2>1. \A e \in Devices : e # d =>
           /\ Written(vault'[e]) /\ Written(baseline'[e].recs)
           /\ Written(sync'[e].local.recs) /\ Written(sync'[e].remote.recs)
           /\ Written(sync'[e].doc.recs)
    BY OthersRest DEF EditInv, WrittenInv
  <2> QED BY <2>1 DEF WrittenInv, Written
<1>2. Written(NoRecords)
  BY DEF Written, NoRecords
<1>3. ASSUME NEW result, Return(d, result)
      PROVE  /\ Written(sync'[d].local.recs) /\ Written(sync'[d].remote.recs)
             /\ Written(sync'[d].doc.recs)
  BY <1>2, <1>3, ReturnEnds DEF NoSync, EmptyDocument
<1>4. CASE Begin(d)
  <2>1. PICK decision : sync' = [sync EXCEPT ![d] = [NoSync EXCEPT !.decision = decision]]
    BY <1>4 DEF Begin
  <2>2. /\ sync'[d].local = EmptyDocument /\ sync'[d].remote = EmptyDocument
        /\ sync'[d].doc = EmptyDocument
    BY <1>0, <2>1 DEF NoSync
  <2>3. UNCHANGED <<vault, baseline, server>>
    BY <1>4 DEF Begin, fileVars
  <2> QED BY <1>0, <1>2, <2>2, <2>3 DEF EmptyDocument
<1>5. CASE Abort(d) \/ AskEmpty(d) \/ AskInitial(d) \/ AskMerge(d)
  BY <1>0, <1>3, <1>5 DEF Abort, AskEmpty, AskInitial, AskMerge, fileVars
<1>6. CASE Inputs(d)
  <2>1. LocalInputs(d, clock).recs = vault[d]
    <3>1. \A i \in Ids : LocalRecord(d, i, clock) = vault[d][i]
      BY DEF LocalRecord
    <3> QED BY <1>0, <3>1 DEF LocalInputs, StampedRecords
  <2>2. /\ sync'[d].local = LocalInputs(d, clock) /\ sync'[d].remote = sync[d].remote
        /\ sync'[d].doc = sync[d].doc
    BY <1>0, <1>6 DEF Inputs, SyncRecords
  <2> QED BY <1>0, <1>6, <2>1, <2>2 DEF Inputs, fileVars
<1>7. CASE Fetch(d)
  <2>1. /\ sync'[d].local = sync[d].local /\ sync'[d].remote = server.doc
        /\ sync'[d].doc = sync[d].doc
    BY <1>0, <1>7 DEF Fetch, SyncRecords
  <2> QED BY <1>0, <1>7, <2>1 DEF Fetch, fileVars
<1>8. CASE TakeInitial(d)
  <2>1. /\ sync'[d].local = sync[d].local /\ sync'[d].remote = sync[d].remote
        /\ sync'[d].doc \in {sync[d].local, sync[d].remote}
    BY <1>0, <1>8 DEF TakeInitial, SyncRecords
  <2> QED BY <1>0, <1>8, <2>1 DEF TakeInitial, fileVars
<1>9. CASE MergeDocuments(d)
  <2>1. /\ sync'[d].local = sync[d].local /\ sync'[d].remote = sync[d].remote
        /\ sync'[d].doc = MergedDocument(d, sync[d])
    BY <1>0, <1>9 DEF MergeDocuments, SyncRecords
  <2>2. Written(MergedDocument(d, sync[d]).recs)
    <3> SUFFICES ASSUME NEW i \in Ids, MergedDocument(d, sync[d]).recs[i] # None
                 PROVE  LET rec == MergedDocument(d, sync[d]).recs[i]
                        IN  i \in used /\ rec.at = rec.hash
      BY DEF Written
    <3>1. MergedDocument(d, sync[d]).recs[i] \in {sync[d].remote.recs[i], sync[d].local.recs[i]}
      BY <1>9, DecidedKeepsEdits
    <3> QED BY <1>0, <3>1 DEF Written
  <2> QED BY <1>0, <1>9, <2>1, <2>2 DEF MergeDocuments, fileVars
<1>10. CASE Put(d)
  <2>1. /\ sync'[d].local = sync[d].local /\ sync'[d].remote = sync[d].remote
        /\ sync'[d].doc = sync[d].doc
    BY <1>0, <1>10 DEF Put, SyncRecords
  <2> QED BY <1>0, <1>10, <2>1 DEF Put
<1>11. CASE PutRefused(d) \/ Verify(d) \/ Recheck(d)
  <2>1. server' = server /\ vault' = vault /\ baseline' = baseline
    BY <1>11 DEF PutRefused, Verify, Recheck, fileVars
  <2>2. CASE Return(d, "error")
    BY <1>0, <1>3, <2>1, <2>2
  <2>3. CASE ~Return(d, "error")
    <3>1. /\ sync'[d].local = sync[d].local /\ sync'[d].doc = sync[d].doc
          /\ sync'[d].remote \in {sync[d].remote, sync[d].doc}
      <4>1. CASE PutRefused(d)
        BY <1>0, <2>3, <4>1 DEF PutRefused, SyncRecords
      <4>2. CASE Verify(d)
        BY <1>0, <2>3, <4>2 DEF Verify, SyncRecords
      <4>3. CASE Recheck(d)
        BY <1>0, <2>3, <4>3 DEF Recheck, SyncRecords
      <4> QED BY <1>11, <4>1, <4>2, <4>3
    <3> QED BY <1>0, <2>1, <3>1
  <2> QED BY <2>2, <2>3
<1>12. CASE Apply(d)
  <2>1. server' = server /\ vault'[d] = sync[d].doc.recs /\ baseline' = baseline /\ sync' = sync
    BY <1>0, <1>12 DEF Apply
  <2> QED BY <1>0, <2>1
<1>13. CASE Commit(d)
  <2>1. server' = server /\ vault' = vault /\ baseline'[d].recs = sync[d].doc.recs
    BY <1>0, <1>13 DEF Commit, StateFromDocument
  <2> QED BY <1>0, <1>3, <1>13, <2>1 DEF Commit
<1> QED BY <1>4, <1>5, <1>6, <1>7, <1>8, <1>9, <1>10, <1>11, <1>12, <1>13 DEF Step

(* What d holds under i stays safe while nothing of d changes. *)
LEMMA SafeOfOthers ==
    ASSUME NEW d \in Devices, NEW i \in Ids, EditIsSafe(d, i), vault'[d][i] = vault[d][i],
           baseline'[d] = baseline[d], sync'[d] = sync[d], pc'[d] = pc[d]
    PROVE  EditIsSafe(d, i)'
BY DEF EditIsSafe, NotOlder, Unsynced, Changed

LEMMA SafeWrite ==
    ASSUME SyncInv, EditInv, NEW d \in Devices, NEW i \in Ids, Write(d, i),
           pc[d] = "idle" \/ i \notin used
    PROVE  EditIsSafe(d, i)'
<1>0. /\ vault \in [Devices -> StampedRecords] /\ sync[d] \in SyncRecords
      /\ baseline[d] \in Baselines /\ clock \in Nat
      /\ Written(vault[d]) /\ Written(baseline[d].recs)
  BY SyncState DEF EditInv, WrittenInv
<1>1. /\ vault'[d][i] = [hash |-> clock + 1, at |-> clock + 1]
      /\ baseline' = baseline /\ sync' = sync /\ pc' = pc
  BY <1>0 DEF Write, StampedRecords
<1>2. /\ baseline[d].recs[i] \in StampSet \cup {None}
      /\ sync[d].doc.recs[i] \in StampSet \cup {None}
  BY <1>0 DEF Baselines, SyncRecords, Documents, StampedRecords, StampSet
<1>3. \A r \in StampSet : r.hash \in Nat /\ r.hash <= clock
  BY <1>0 DEF StampSet, Stamps
<1>4. /\ NotOlder(vault'[d][i], baseline[d].recs[i])
      /\ NotOlder(vault'[d][i], sync[d].doc.recs[i])
  BY <1>0, <1>1, <1>2, <1>3 DEF NotOlder
<1>5. pc[d] # "idle" => baseline[d].recs[i] = None
  BY <1>0 DEF Written
<1>6. EditIsSafe(d, i)
  BY DEF EditInv
<1> QED BY <1>1, <1>4, <1>5, <1>6 DEF EditIsSafe, NotOlder, Unsynced, Changed

LEMMA SafeDelete ==
    ASSUME SyncInv, NEW d \in Devices, NEW i \in Ids, Delete(d, i)
    PROVE  EditIsSafe(d, i)'
<1>1. vault'[d][i] = None /\ pc'[d] = "idle"
  <2>1. vault \in [Devices -> StampedRecords]
    BY SyncState
  <2> QED BY <2>1 DEF Delete, StampedRecords
<1> QED BY <1>1 DEF EditIsSafe, NotOlder, Unsynced

LEMMA SafeUser ==
    ASSUME SyncInv, EditInv, NEW d \in Devices, NEW i \in Ids, User(d, i),
           NEW e \in Devices, NEW j \in Ids
    PROVE  EditIsSafe(e, j)'
<1>1. EditIsSafe(e, j)
  BY DEF EditInv
<1>2. CASE e = d /\ j = i
  <2>1. CASE Delete(d, i)
    BY <1>2, <2>1, SafeDelete
  <2>2. CASE Edit(d, i) \/ Add(d, i) \/ ImportKey(d, i)
    BY <1>2, <2>2, SafeWrite DEF Edit, Add, ImportKey
  <2> QED BY <2>1, <2>2 DEF User
<1>3. CASE ~(e = d /\ j = i)
  <2>1. vault \in [Devices -> StampedRecords] /\ vault[d] \in StampedRecords
    BY SyncState
  <2>2. vault'[e][j] = vault[e][j]
    BY <1>3, <2>1 DEF User, Edit, Add, ImportKey, Delete, Write, StampedRecords
  <2> QED BY <1>1, <2>2, UserLeavesSyncs, SafeOfOthers
<1> QED BY <1>2, <1>3

LEMMA SafeStep ==
    ASSUME SyncInv, EditInv, NEW d \in Devices, Begin(d) \/ Step(d) \/ Abort(d), NEW i \in Ids,
           KnownHosts = {}
    PROVE  EditIsSafe(d, i)'
<1>0. /\ sync[d] \in SyncRecords /\ sync \in [Devices -> SyncRecords]
      /\ baseline \in [Devices -> Baselines] /\ vault \in [Devices -> StampedRecords]
      /\ pc = [x \in Devices |-> pc[x]]
  BY SyncState DEF SyncInv, TypeOK
<1>1. EditIsSafe(d, i)
  BY DEF EditInv
<1>2. ASSUME pc'[d] \notin {"fetch", "decide", "put", "verify", "recheck", "apply", "commit"},
             vault'[d] = vault[d], baseline'[d] = baseline[d]
      PROVE  EditIsSafe(d, i)'
  BY <1>1, <1>2 DEF EditIsSafe, NotOlder
<1>3. ASSUME NEW result, Return(d, result), vault' = vault, baseline' = baseline
      PROVE  EditIsSafe(d, i)'
  BY <1>2, <1>3, ReturnEnds
<1>4. CASE Begin(d) \/ Abort(d)
  BY <1>0, <1>2, <1>3, <1>4 DEF Begin, Abort, fileVars
<1>5. CASE AskEmpty(d) \/ AskInitial(d) \/ AskMerge(d)
  BY <1>3, <1>5 DEF AskEmpty, AskInitial, AskMerge, fileVars
<1>6. CASE Inputs(d)
  <2> DEFINE local == LocalInputs(d, clock)
  <2>1. /\ sync'[d].local = local /\ pc'[d] \in {"fetch", "decide"}
        /\ vault' = vault /\ baseline' = baseline
    BY <1>0, <1>6 DEF Inputs, fileVars, SyncRecords
  <2>2. local.recs[i] = vault[d][i]
    BY DEF LocalInputs, LocalRecord
  <2>3. local.tombs[i] = LocalTombstone(vault[d][i], baseline[d].recs[i], baseline[d].tombs[i], clock)
    BY DEF LocalInputs
  <2>4. vault[d][i] # None => local.tombs[i] = None
    BY <2>3 DEF LocalTombstone
  <2>5. (vault[d][i] = None /\ baseline[d].recs[i] # None) => local.tombs[i] # None
    <3> SUFFICES ASSUME vault[d][i] = None, baseline[d].recs[i] # None
                 PROVE  local.tombs[i] # None
      OBVIOUS
    <3>1. local.tombs[i] = [hash |-> baseline[d].recs[i].hash, at |-> clock]
      BY <2>3 DEF LocalTombstone
    <3>2. baseline[d].recs[i] \in StampSet /\ clock \in Stamps /\ clock \in Nat
      BY <1>0, SyncState DEF Baselines, StampedRecords, StampSet, Stamps
    <3>3. local.tombs[i] \in StampSet
      BY <3>1, <3>2 DEF StampSet
    <3> QED BY <3>2, <3>3, StampSetIsRecordSet DEF IsRecordSet
  <2> HIDE DEF local
  <2> QED BY <1>1, <2>1, <2>2, <2>4, <2>5 DEF EditIsSafe, NotOlder
<1>7. CASE Fetch(d)
  <2>1. /\ sync'[d].local = sync[d].local /\ pc[d] = "fetch" /\ pc'[d] = "decide"
        /\ vault' = vault /\ baseline' = baseline
    BY <1>0, <1>7 DEF Fetch, fileVars, SyncRecords
  <2> QED BY <1>1, <2>1 DEF EditIsSafe, NotOlder
<1>8. CASE TakeInitial(d)
  <2>1. baseline[d].recs[i] = None /\ vault' = vault /\ baseline' = baseline /\ pc'[d] \in {"put", "apply"}
    BY <1>0, <1>8 DEF TakeInitial, InitialDivergence, HasBaseline, NoBaseline, NoRecords, fileVars
  <2> QED BY <1>1, <2>1 DEF EditIsSafe, NotOlder, Unsynced, Changed
<1>9. CASE MergeDocuments(d)
  <2> DEFINE rec == MergedDocument(d, sync[d]).recs[i]
  <2>1. /\ sync'[d].doc.recs[i] = rec /\ pc'[d] = "put"
        /\ vault' = vault /\ baseline' = baseline
    BY <1>0, <1>9 DEF MergeDocuments, fileVars, SyncRecords
  <2>2. /\ NotOlder(rec, baseline[d].recs[i])
        /\ Unsynced(d, i) => rec # None /\ rec.hash = vault[d][i].hash
    BY <1>9, DecidedKeepsEdits
  <2> HIDE DEF rec
  <2> QED BY <1>1, <2>1, <2>2 DEF EditIsSafe, NotOlder, Unsynced, Changed
<1>10. ASSUME sync'[d].doc = sync[d].doc, vault' = vault, baseline' = baseline,
              pc[d] \in {"put", "verify", "recheck", "apply"},
              pc'[d] \in {"put", "verify", "recheck", "apply"}
       PROVE  EditIsSafe(d, i)'
  BY <1>1, <1>10 DEF EditIsSafe, NotOlder, Unsynced, Changed
<1>11. CASE Put(d)
  <2>1. /\ sync'[d].doc = sync[d].doc /\ vault' = vault /\ baseline' = baseline
        /\ pc[d] = "put" /\ pc'[d] = "verify"
    BY <1>0, <1>11 DEF Put, SyncRecords
  <2> QED BY <1>10, <2>1
<1>12. CASE PutRefused(d)
  <2>1. vault' = vault /\ baseline' = baseline
    BY <1>12 DEF PutRefused, fileVars
  <2>2. Return(d, "error") \/ pc'[d] = "inputs"
    BY <1>0, <1>12 DEF PutRefused
  <2> QED BY <1>2, <1>3, <2>1, <2>2
<1>13. CASE Verify(d)
  <2>1. vault' = vault /\ baseline' = baseline
    BY <1>13 DEF Verify, fileVars
  <2>2. CASE Return(d, "error")
    BY <1>3, <2>1, <2>2
  <2>3. CASE ~Return(d, "error")
    <3>1. sync'[d].doc = sync[d].doc /\ pc[d] = "verify" /\ pc'[d] \in {"apply", "recheck"}
      BY <1>0, <1>13, <2>3 DEF Verify, SyncRecords
    <3> QED BY <1>10, <2>1, <3>1
  <2> QED BY <2>2, <2>3
<1>14. CASE Recheck(d)
  <2>1. vault' = vault /\ baseline' = baseline /\ pc[d] = "recheck"
    BY <1>14 DEF Recheck, fileVars
  <2>2. CASE Return(d, "error")
    BY <1>3, <2>1, <2>2
  <2>3. CASE pc' = [pc EXCEPT ![d] = "inputs"]
    BY <1>0, <1>2, <2>1, <2>3
  <2>4. CASE sync' = sync /\ pc' = [pc EXCEPT ![d] = "apply"]
    BY <1>0, <1>10, <2>1, <2>4
  <2> QED BY <1>14, <2>2, <2>3, <2>4 DEF Recheck
<1>15. CASE Apply(d)
  <2>1. /\ vault'[d] = sync[d].doc.recs /\ baseline' = baseline /\ sync' = sync
        /\ pc[d] = "apply" /\ pc'[d] = "commit"
    BY <1>0, <1>15 DEF Apply
  <2>2. sync[d].doc.recs[i] # None => sync[d].doc.recs[i].hash \in Nat
    BY <1>0 DEF SyncRecords, Documents, StampedRecords, Stamps
  <2> QED BY <1>1, <2>1, <2>2 DEF EditIsSafe, NotOlder, Unsynced, Changed
<1>16. CASE Commit(d)
  <2>1. /\ vault' = vault /\ baseline'[d].recs = sync[d].doc.recs
        /\ pc[d] = "commit" /\ pc'[d] = "idle"
    BY <1>0, <1>16, ReturnEnds DEF Commit, StateFromDocument
  <2> QED BY <1>1, <2>1 DEF EditIsSafe, NotOlder
<1> QED BY <1>4, <1>5, <1>6, <1>7, <1>8, <1>9, <1>11, <1>12, <1>13, <1>14, <1>15, <1>16 DEF Step

(* The user's decision stays that of the sync. *)
LEMMA DecisionStep ==
    ASSUME SyncInv, NEW d \in Devices, Begin(d) \/ Step(d) \/ Abort(d)
    PROVE  \/ pc'[d] = "idle"
           \/ pc[d] = "idle" /\ sync'[d].decision \in Decisions
           \/ pc[d] # "idle" /\ sync'[d].decision = sync[d].decision
<1>0. sync[d] \in SyncRecords /\ sync \in [Devices -> SyncRecords]
  BY SyncState DEF SyncInv, TypeOK
<1>1. CASE Begin(d)
  BY <1>0, <1>1 DEF Begin, NoSync
<1>2. ASSUME NEW result, Return(d, result) PROVE pc'[d] = "idle"
  BY <1>2, ReturnEnds
<1>3. CASE Abort(d) \/ AskEmpty(d) \/ AskInitial(d) \/ AskMerge(d) \/ Commit(d)
  BY <1>2, <1>3 DEF Abort, AskEmpty, AskInitial, AskMerge, Commit
<1>4. CASE Inputs(d) \/ Fetch(d) \/ TakeInitial(d) \/ MergeDocuments(d) \/ Put(d) \/ Apply(d)
  BY <1>0, <1>4 DEF Inputs, Fetch, TakeInitial, MergeDocuments, Merging, Put, Apply, SyncRecords
<1>5. CASE (PutRefused(d) \/ Verify(d) \/ Recheck(d)) /\ ~Return(d, "error")
  BY <1>0, <1>5 DEF PutRefused, Verify, Recheck, SyncRecords
<1> QED BY <1>1, <1>2, <1>3, <1>4, <1>5 DEF Step

(* No user of the instance is asked to take the server's side.             *)
OwnSideOnly == KnownHosts = {} /\ \A decision \in Decisions : OwnSide(decision)

LEMMA EditInvariant == OwnSideOnly => (Spec => []EditInv)
<1> SUFFICES ASSUME OwnSideOnly PROVE Spec => []EditInv
  OBVIOUS
<1>1. Init => EditInv
  <2> SUFFICES ASSUME Init PROVE EditInv
    OBVIOUS
  <2>1. /\ pc = [d \in Devices |-> "idle"] /\ sync = [d \in Devices |-> NoSync]
    BY DEF Init
  <2>2. Written(NoRecords) /\ (Shared \subseteq used => Written(SharedRecords))
    BY DEF Written, NoRecords, SharedRecords
  <2>3. \A d \in Devices : /\ Written(sync[d].local.recs) /\ Written(sync[d].remote.recs)
                           /\ Written(sync[d].doc.recs)
    BY <2>1, <2>2 DEF NoSync, EmptyDocument
  <2>4. CASE /\ vault = [d \in Devices |-> NoRecords]
             /\ baseline = [d \in Devices |-> NoBaseline]
             /\ server = [doc |-> EmptyDocument, writes |-> 0]
    <3>1. WrittenInv
      BY <2>2, <2>3, <2>4 DEF WrittenInv, NoBaseline, EmptyDocument
    <3>2. \A d \in Devices, i \in Ids : EditIsSafe(d, i)
      BY <2>1, <2>4 DEF EditIsSafe, NotOlder, NoRecords
    <3> QED BY <2>1, <3>1, <3>2 DEF EditInv
  <2>5. CASE /\ vault = [d \in Devices |-> SharedRecords]
             /\ baseline = [d \in Devices |->
                   [recs |-> SharedRecords, tombs |-> NoRecords, etag |-> Etag(1)]]
             /\ server = [doc |-> SharedDocument, writes |-> 1]
             /\ used = Shared
    <3>1. WrittenInv
      BY <2>2, <2>3, <2>5 DEF WrittenInv, SharedDocument
    <3>2. \A d \in Devices, i \in Ids : EditIsSafe(d, i)
      BY <2>1, <2>5 DEF EditIsSafe, NotOlder, SharedRecords
    <3> QED BY <2>1, <3>1, <3>2 DEF EditInv
  <2> QED BY <2>4, <2>5 DEF Init
<1>2. SyncInv /\ EditInv /\ [Next]_vars => EditInv'
  <2> SUFFICES ASSUME SyncInv, EditInv, [Next]_vars PROVE EditInv'
    OBVIOUS
  <2>1. CASE UNCHANGED vars
    BY <2>1 DEF vars, EditInv, WrittenInv, Written, EditIsSafe, NotOlder, Unsynced, Changed
  <2>2. ASSUME NEW d \in Devices, NEW i \in Ids, User(d, i) PROVE EditInv'
    <3>1. \A e \in Devices, j \in Ids : EditIsSafe(e, j)'
      BY <2>2, SafeUser
    <3>2. UNCHANGED <<baseline, server, pc, sync>>
      BY <2>2, UserLeavesSyncs
    <3>3. \A e \in Devices : pc'[e] # "idle" => OwnSide(sync'[e].decision)
      BY <3>2 DEF EditInv
    <3>4. /\ vault \in [Devices -> StampedRecords] /\ \A e \in Devices : Written(vault[e])
          /\ clock \in Nat
      BY <2>2, SyncState DEF EditInv, WrittenInv
    <3>5. used \subseteq used'
      BY <2>2 DEF User, Edit, Add, ImportKey, Delete
    <3>6. CASE Write(d, i) /\ i \in used'
      <4>1. vault' = [vault EXCEPT ![d][i] = [hash |-> clock + 1, at |-> clock + 1]]
        BY <3>6 DEF Write
      <4>2. \A e \in Devices, j \in Ids :
               vault'[e][j] = IF e = d /\ j = i THEN [hash |-> clock + 1, at |-> clock + 1]
                              ELSE vault[e][j]
        BY <3>4, <4>1 DEF StampedRecords
      <4>3. \A e \in Devices : Written(vault[e])'
        BY <3>4, <3>5, <3>6, <4>2 DEF Written
      <4>4. WrittenInv'
        BY <3>2, <3>5, <4>3 DEF EditInv, WrittenInv, Written
      <4> QED BY <3>1, <3>3, <4>4 DEF EditInv
    <3>7. CASE Delete(d, i)
      <4>1. \A e \in Devices, j \in Ids : vault'[e][j] \in {vault[e][j], None}
        BY <3>4, <3>7 DEF Delete, StampedRecords
      <4>2. \A e \in Devices : Written(vault[e])'
        BY <3>4, <3>5, <4>1 DEF Written
      <4>3. WrittenInv'
        BY <3>2, <3>5, <4>2 DEF EditInv, WrittenInv, Written
      <4> QED BY <3>1, <3>3, <4>3 DEF EditInv
    <3>8. Write(d, i) => i \in used'
      BY <2>2, <3>4 DEF User, Edit, Add, ImportKey, Delete, Written
    <3> QED BY <2>2, <3>6, <3>7, <3>8 DEF User, Edit, Add, ImportKey
  <2>3. ASSUME NEW d \in Devices, Begin(d) \/ Step(d) \/ Abort(d) PROVE EditInv'
    <3>1. used' = used
      BY <2>3 DEF Begin, Step, Abort, Inputs, Fetch, AskEmpty, AskInitial, AskMerge, TakeInitial,
                  MergeDocuments, Put, PutRefused, Verify, Recheck, Apply, Commit
    <3>2. WrittenInv'
      BY <2>3, <3>1, WrittenStep DEF OwnSideOnly
    <3>3. ASSUME NEW e \in Devices, NEW i \in Ids PROVE EditIsSafe(e, i)'
      <4>1. EditIsSafe(e, i)
        BY DEF EditInv
      <4>2. CASE e = d
        BY <2>3, <4>2, SafeStep DEF OwnSideOnly
      <4>3. CASE e # d
        BY <2>3, <4>1, <4>3, OthersRest, SafeOfOthers
      <4> QED BY <4>2, <4>3
    <3>4. ASSUME NEW e \in Devices, pc'[e] # "idle" PROVE OwnSide(sync'[e].decision)
      <4>1. CASE e = d
        BY <2>3, <3>4, <4>1, DecisionStep DEF OwnSideOnly, EditInv
      <4>2. CASE e # d
        BY <2>3, <3>4, <4>2, OthersRest DEF EditInv
      <4> QED BY <4>1, <4>2
    <3> QED BY <3>2, <3>3, <3>4 DEF EditInv
  <2> QED BY <2>1, <2>2, <2>3 DEF Next
<1> QED BY <1>1, <1>2, SyncInvariant, PTL DEF Spec

(* LocalEditsSurvive of every step, if users never decide for the server's *)
(* side and no record lacks a time of its own: what a sync writes into the *)
(* vault keeps every edit of this device that was not synced yet.          *)
THEOREM LocalEditsSurviveSyncs == OwnSideOnly => (Spec => LocalEditsSurvive)
<1> SUFFICES ASSUME OwnSideOnly PROVE Spec => LocalEditsSurvive
  OBVIOUS
<1>1. SyncInv /\ EditInv /\ [Next]_vars =>
        [\A d \in Devices, i \in Ids :
         (pc[d] = "apply" /\ pc'[d] = "commit" /\ Unsynced(d, i)
            /\ sync[d].decision.conflict # "remote")
            => vault'[d][i] # None /\ vault'[d][i].hash = vault[d][i].hash]_vars
  <2> SUFFICES ASSUME SyncInv, EditInv, [Next]_vars, NEW d \in Devices, NEW i \in Ids,
                      pc[d] = "apply", pc'[d] = "commit", Unsynced(d, i)
               PROVE  vault'[d][i] # None /\ vault'[d][i].hash = vault[d][i].hash
    OBVIOUS
  <2>1. ~UNCHANGED vars
    BY DEF vars
  <2>2. ASSUME NEW e \in Devices, NEW j \in Ids, User(e, j) PROVE FALSE
    BY <2>2, UserLeavesSyncs
  <2>3. PICK e \in Devices : Begin(e) \/ Step(e) \/ Abort(e)
    BY <2>1, <2>2 DEF Next
  <2>4. e = d
    BY <2>3, OthersRest
  <2>5. ~Abort(d)
    BY ReturnEnds DEF Abort
  <2>6. Apply(d)
    BY <2>3, <2>4, <2>5 DEF Begin, Step, Inputs, Fetch, AskEmpty, AskInitial, TakeInitial,
         AskMerge, MergeDocuments, Merging, Put, PutRefused, Verify, Recheck, Commit
  <2>7. vault'[d] = sync[d].doc.recs
    BY <2>6, SyncState DEF Apply
  <2>8. EditIsSafe(d, i)
    BY DEF EditInv
  <2> QED BY <2>7, <2>8 DEF EditIsSafe
<1> QED BY <1>1, SyncInvariant, EditInvariant, PTL DEF Spec, LocalEditsSurvive

-----------------------------------------------------------------------------
(* An empty vault is restored from the server.                             *)

Restoring(d) == pc[d] # "idle" /\ sync[d].decision.empty = "restoreRemote"

(* A vault that is being restored stays empty up to the restoration, and   *)
(* so is what its sync reads of it; what the sync sends lists what it was  *)
(* merged with.                                                            *)
RestoreIsSafe(d) ==
    Restoring(d) =>
        /\ pc[d] # "commit" => \A i \in Ids : vault[d][i] = None
        /\ pc[d] # "inputs" => \A i \in Ids : sync[d].local.recs[i] = None
        /\ (pc[d] = "put" /\ sync[d].decision.conflict = "") =>
              \A i \in Ids : sync[d].remote.recs[i] # None => sync[d].doc.recs[i] # None

(* A document that exists has an ETag.                                     *)
EtagIsKnown(d) ==
    /\ (pc[d] \in {"decide", "put"} /\ sync[d].exists) => sync[d].etag # 0
    /\ (pc[d] \in {"verify", "recheck"} \/ (pc[d] = "inputs" /\ sync[d].override))
          => sync[d].etag # 0

RestoreInv ==
    /\ \A d \in Devices : RestoreIsSafe(d) /\ EtagIsKnown(d)
    /\ server.writes = 0 => \A i \in Ids : server.doc.recs[i] = None

(* What an empty vault is merged into is the document of the server.       *)
LEMMA RestoredDocument ==
    ASSUME NEW d \in Devices, RestoreIsSafe(d), Restoring(d), pc[d] = "decide", NEW i \in Ids,
           sync[d].remote.recs[i] # None
    PROVE  MergedDocument(d, sync[d]).recs[i] # None
<1> DEFINE s == sync[d]
           entry == Entry(s.remote.recs[i], s.remote.tombs[i])
<1>1. \A j \in Ids : s.local.recs[j] = None
  BY DEF RestoreIsSafe
<1>2. Count(s.local.recs) = 0 /\ Count(s.remote.recs) > 0
  BY <1>1, CountIsNatural
<1>3. EffectiveTombstone(s, i) = None
  BY <1>2 DEF EffectiveTombstone, EmptyApplies, LocalEmpty, Restoring
<1>4. \A previous, resolution : Merge(entry, None, None, previous, resolution) = entry
  BY DEF Merge, MergeTombstone, MergeRecord
<1>5. MergedEntry(d, s, i) = entry
  BY <1>1, <1>3, <1>4 DEF MergedEntry
<1>6. MergedDocument(d, s).recs[i] = entry.rec
  BY <1>5 DEF MergedDocument
<1> QED BY <1>6 DEF Entry

LEMMA RestoreStep ==
    ASSUME SyncInv, RestoreInv, ServerEtags, NEW d \in Devices, Begin(d) \/ Step(d) \/ Abort(d)
    PROVE  RestoreIsSafe(d)' /\ EtagIsKnown(d)'
<1>0. /\ sync[d] \in SyncRecords /\ sync \in [Devices -> SyncRecords]
      /\ vault \in [Devices -> StampedRecords]
      /\ pc = [x \in Devices |-> pc[x]] /\ server.writes \in Nat
  BY SyncState DEF SyncInv, TypeOK
<1>1. RestoreIsSafe(d) /\ EtagIsKnown(d)
  BY DEF RestoreInv
<1>2. ASSUME NEW result, Return(d, result) PROVE RestoreIsSafe(d)' /\ EtagIsKnown(d)'
  BY <1>2, ReturnEnds DEF RestoreIsSafe, Restoring, EtagIsKnown
<1>3. CASE Begin(d)
  <2>1. PICK decision \in Decisions :
           /\ decision.empty # "" => Count(vault[d]) = 0
           /\ sync' = [sync EXCEPT ![d] = [NoSync EXCEPT !.decision = decision]]
    BY <1>3 DEF Begin
  <2>2. /\ sync'[d].decision = decision /\ sync'[d].override = FALSE
        /\ pc'[d] = "inputs" /\ vault' = vault
    BY <1>0, <1>3, <2>1 DEF Begin, fileVars, NoSync
  <2>3. decision.empty = "restoreRemote" => \A i \in Ids : vault[d][i] = None
    BY <2>1, CountIsNatural
  <2> QED BY <2>2, <2>3 DEF RestoreIsSafe, Restoring, EtagIsKnown
<1>4. CASE Abort(d) \/ AskEmpty(d) \/ AskInitial(d) \/ AskMerge(d) \/ Commit(d)
  BY <1>2, <1>4 DEF Abort, AskEmpty, AskInitial, AskMerge, Commit
<1>5. CASE Inputs(d)
  <2> DEFINE local == LocalInputs(d, clock)
  <2>1. /\ sync'[d].local = local /\ sync'[d].decision = sync[d].decision
        /\ sync'[d].etag = sync[d].etag /\ vault' = vault /\ pc[d] = "inputs"
        /\ pc'[d] = IF sync[d].override THEN "decide" ELSE "fetch"
    BY <1>0, <1>5 DEF Inputs, fileVars, SyncRecords
  <2>2. \A i \in Ids : vault[d][i] = None => local.recs[i] = None
    BY DEF LocalInputs, LocalRecord
  <2> HIDE DEF local
  <2> QED BY <1>1, <2>1, <2>2 DEF RestoreIsSafe, Restoring, EtagIsKnown
<1>6. CASE Fetch(d)
  <2>1. /\ sync'[d].local = sync[d].local /\ sync'[d].decision = sync[d].decision
        /\ sync'[d].etag = server.writes /\ vault' = vault /\ pc[d] = "fetch"
        /\ pc'[d] = "decide"
    BY <1>0, <1>6 DEF Fetch, Etag, fileVars, SyncRecords
  <2>2. sync'[d].exists => server.writes > 0
    BY <1>0, <1>6 DEF Fetch, SyncRecords
  <2>3. sync'[d].exists => sync'[d].etag # 0
    BY <1>0, <2>1, <2>2
  <2> QED BY <1>1, <2>1, <2>3 DEF RestoreIsSafe, Restoring, EtagIsKnown
<1>7. CASE TakeInitial(d)
  <2>1. /\ sync'[d].local = sync[d].local /\ sync'[d].decision = sync[d].decision
        /\ sync'[d].etag = sync[d].etag /\ sync'[d].exists = sync[d].exists
        /\ sync[d].decision.conflict # "" /\ vault' = vault
        /\ pc[d] = "decide" /\ pc'[d] \in {"put", "apply"}
    <3>1. CASE sync' = [sync EXCEPT ![d].initial = TRUE, ![d].doc = sync[d].local]
      BY <1>0, <1>7, <3>1 DEF TakeInitial, fileVars, SyncRecords
    <3>2. CASE sync' = [sync EXCEPT ![d].initial = TRUE, ![d].doc = sync[d].remote]
      BY <1>0, <1>7, <3>2 DEF TakeInitial, fileVars, SyncRecords
    <3> QED BY <1>7, <3>1, <3>2 DEF TakeInitial
  <2> QED BY <1>1, <2>1 DEF RestoreIsSafe, Restoring, EtagIsKnown
<1>8. CASE MergeDocuments(d)
  <2>1. /\ sync'[d].local = sync[d].local /\ sync'[d].decision = sync[d].decision
        /\ sync'[d].etag = sync[d].etag /\ sync'[d].exists = sync[d].exists
        /\ sync'[d].remote = sync[d].remote /\ sync'[d].doc = MergedDocument(d, sync[d])
        /\ vault' = vault /\ pc[d] = "decide" /\ pc'[d] = "put"
    BY <1>0, <1>8 DEF MergeDocuments, Merging, fileVars, SyncRecords
  <2>2. Restoring(d) =>
          \A i \in Ids : sync[d].remote.recs[i] # None => MergedDocument(d, sync[d]).recs[i] # None
    BY <1>1, <2>1, RestoredDocument
  <2> QED BY <1>1, <2>1, <2>2 DEF RestoreIsSafe, Restoring, EtagIsKnown
<1>9. CASE Put(d)
  <2>1. /\ sync'[d].local = sync[d].local /\ sync'[d].decision = sync[d].decision
        /\ sync'[d].etag = server.writes + 1 /\ vault' = vault
        /\ pc[d] = "put" /\ pc'[d] = "verify"
    BY <1>0, <1>9 DEF Put, SyncRecords
  <2>2. sync'[d].etag # 0
    BY <1>0, <2>1
  <2> QED BY <1>1, <2>1, <2>2 DEF RestoreIsSafe, Restoring, EtagIsKnown
<1>10. CASE PutRefused(d) /\ ~Return(d, "error")
  <2>1. /\ sync'[d].decision = sync[d].decision /\ sync'[d].override = FALSE
        /\ vault' = vault /\ pc[d] = "put" /\ pc'[d] = "inputs"
    BY <1>0, <1>10 DEF PutRefused, fileVars, SyncRecords
  <2> QED BY <1>1, <2>1 DEF RestoreIsSafe, Restoring, EtagIsKnown
<1>11. CASE Verify(d) /\ ~Return(d, "error")
  <2>1. /\ sync'[d].local = sync[d].local /\ sync'[d].decision = sync[d].decision
        /\ sync'[d].etag = server.writes /\ sync[d].etag = server.writes
        /\ vault' = vault /\ pc[d] = "verify" /\ pc'[d] \in {"apply", "recheck"}
    BY <1>0, <1>11 DEF Verify, ReadsBack, Etag, fileVars, SyncRecords
  <2> QED BY <1>1, <2>1 DEF RestoreIsSafe, Restoring, EtagIsKnown
<1>12. CASE Recheck(d) /\ ~Return(d, "error")
  <2>1. /\ sync'[d].local = sync[d].local /\ sync'[d].decision = sync[d].decision
        /\ sync'[d].etag = sync[d].etag
        /\ vault' = vault /\ pc[d] = "recheck" /\ pc'[d] \in {"apply", "inputs"}
    BY <1>0, <1>12 DEF Recheck, fileVars, SyncRecords
  <2> QED BY <1>1, <2>1 DEF RestoreIsSafe, Restoring, EtagIsKnown
<1>13. CASE Apply(d)
  <2>1. sync' = sync /\ pc[d] = "apply" /\ pc'[d] = "commit"
    BY <1>0, <1>13 DEF Apply
  <2> QED BY <1>1, <2>1 DEF RestoreIsSafe, Restoring, EtagIsKnown
<1> QED BY <1>2, <1>3, <1>4, <1>5, <1>6, <1>7, <1>8, <1>9, <1>10, <1>11, <1>12, <1>13 DEF Step

LEMMA RestoreOfOthers ==
    ASSUME NEW d \in Devices, RestoreIsSafe(d), EtagIsKnown(d), sync'[d] = sync[d], pc'[d] = pc[d],
           pc[d] # "idle" => vault'[d] = vault[d]
    PROVE  RestoreIsSafe(d)' /\ EtagIsKnown(d)'
BY DEF RestoreIsSafe, Restoring, EtagIsKnown

(* The server has an answer for every write: a document once written is    *)
(* never absent again.                                                     *)
LEMMA ServerStep ==
    ASSUME SyncInv, EtagInv, RestoreInv, [Next]_vars
    PROVE  server'.writes = 0 => \A i \in Ids : server'.doc.recs[i] = None
<1>1. server' = server \/ server'.writes = server.writes + 1
  <2>1. CASE UNCHANGED vars
    BY <2>1 DEF vars
  <2>2. ASSUME NEW d \in Devices, NEW i \in Ids, User(d, i) PROVE server' = server
    BY <2>2, UserLeavesSyncs
  <2>3. ASSUME NEW d \in Devices, Begin(d) \/ Step(d) \/ Abort(d)
        PROVE  server' = server \/ server'.writes = server.writes + 1
    BY <2>3, EtagsOfDevice DEF EtagInv
  <2> QED BY <2>1, <2>2, <2>3 DEF Next
<1>2. server.writes \in Nat
  BY DEF SyncInv, TypeOK
<1> QED BY <1>1, <1>2 DEF RestoreInv

(* No key is imported while a vault is restored, and the server has ETags. *)
UndisturbedRestore == Keys = {} /\ ServerEtags

LEMMA RestoreInvariant == UndisturbedRestore => (Spec => []RestoreInv)
<1> SUFFICES ASSUME UndisturbedRestore PROVE Spec => []RestoreInv
  OBVIOUS
<1>1. Init => RestoreInv
  BY DEF Init, RestoreInv, RestoreIsSafe, Restoring, EtagIsKnown, EmptyDocument, NoRecords
<1>2. SyncInv /\ EtagInv /\ RestoreInv /\ [Next]_vars => RestoreInv'
  <2> SUFFICES ASSUME SyncInv, EtagInv, RestoreInv, [Next]_vars, NEW e \in Devices
               PROVE  RestoreIsSafe(e)' /\ EtagIsKnown(e)'
    BY ServerStep DEF RestoreInv
  <2>1. RestoreIsSafe(e) /\ EtagIsKnown(e)
    BY DEF RestoreInv
  <2>2. CASE UNCHANGED vars
    BY <2>1, <2>2, RestoreOfOthers DEF vars
  <2>3. ASSUME NEW d \in Devices, NEW i \in Ids, User(d, i)
        PROVE  RestoreIsSafe(e)' /\ EtagIsKnown(e)'
    <3>1. pc[d] = "idle"
      BY <2>3 DEF User, Edit, Add, ImportKey, Delete, UndisturbedRestore
    <3>2. vault \in [Devices -> StampedRecords]
      BY DEF SyncInv, TypeOK
    <3>3. e # d => vault'[e] = vault[e]
      BY <2>3, <3>2 DEF User, Edit, Add, ImportKey, Delete, Write
    <3> QED BY <2>1, <2>3, <3>1, <3>3, UserLeavesSyncs, RestoreOfOthers
  <2>4. ASSUME NEW d \in Devices, Begin(d) \/ Step(d) \/ Abort(d)
        PROVE  RestoreIsSafe(e)' /\ EtagIsKnown(e)'
    <3>1. CASE e = d
      BY <2>4, <3>1, RestoreStep DEF UndisturbedRestore
    <3>2. CASE e # d
      BY <2>1, <2>4, <3>2, OthersRest, RestoreOfOthers
    <3> QED BY <3>1, <3>2
  <2> QED BY <2>2, <2>3, <2>4 DEF Next
<1> QED BY <1>1, <1>2, SyncInvariant, EtagInvariant, PTL DEF Spec

(* Only Put leads to the verification. *)
LEMMA SentByPut ==
    ASSUME SyncInv, [Next]_vars, NEW d \in Devices, pc[d] = "put", pc'[d] = "verify"
    PROVE  Put(d)
<1>1. ~UNCHANGED vars
  BY DEF vars
<1>2. ASSUME NEW e \in Devices, NEW i \in Ids, User(e, i) PROVE FALSE
  BY <1>2, UserLeavesSyncs
<1>3. PICK e \in Devices : Begin(e) \/ Step(e) \/ Abort(e)
  BY <1>1, <1>2 DEF Next
<1>4. e = d
  BY <1>3, OthersRest
<1>5. ~Abort(d)
  BY ReturnEnds DEF Abort
<1>6. ~PutRefused(d)
  <2>1. pc = [x \in Devices |-> pc[x]]
    BY DEF SyncInv, TypeOK
  <2> QED BY <2>1, ReturnEnds DEF PutRefused
<1> QED BY <1>3, <1>4, <1>5, <1>6 DEF Begin, Step, Inputs, Fetch, AskEmpty, AskInitial, TakeInitial,
       AskMerge, MergeDocuments, Merging, Verify, Recheck, Apply, Commit

(* RestoreKeepsRemote of every step, for any number of devices: restoring  *)
(* an empty vault takes nothing from the server, whoever else syncs, if no *)
(* key is imported meanwhile and the server reports ETags.                 *)
THEOREM RestoringKeepsTheServer == UndisturbedRestore => (Spec => RestoreKeepsRemote)
<1> SUFFICES ASSUME UndisturbedRestore PROVE Spec => RestoreKeepsRemote
  OBVIOUS
<1>1. SyncInv /\ EtagInv /\ RestoreInv /\ [Next]_vars =>
        [\A d \in Devices, i \in Ids :
         (pc[d] = "put" /\ pc'[d] = "verify" /\ sync[d].decision.empty = "restoreRemote"
            /\ sync[d].decision.conflict = "" /\ server.doc.recs[i] # None)
            => server'.doc.recs[i] # None]_vars
  <2> SUFFICES ASSUME SyncInv, EtagInv, RestoreInv, [Next]_vars, NEW d \in Devices, NEW i \in Ids,
                      pc[d] = "put", pc'[d] = "verify",
                      sync[d].decision.empty = "restoreRemote", sync[d].decision.conflict = "",
                      server.doc.recs[i] # None
               PROVE  server'.doc.recs[i] # None
    OBVIOUS
  <2>1. Put(d)
    BY SentByPut
  <2>2. server'.doc = sync[d].doc /\ Accepts(sync[d])
    BY <2>1 DEF Put
  <2>3. RestoreIsSafe(d) /\ EtagIsKnown(d) /\ EtagsAreTrue(d)
    BY DEF RestoreInv, EtagInv
  <2>4. sync[d].etag # 0
    BY <2>2, <2>3 DEF Accepts, EtagIsKnown, RestoreInv
  <2>5. sync[d].remote = server.doc
    BY <2>2, <2>3, <2>4 DEF Accepts, EtagsAreTrue
  <2> QED BY <2>2, <2>3, <2>5 DEF RestoreIsSafe, Restoring
<1> QED BY <1>1, SyncInvariant, EtagInvariant, RestoreInvariant, PTL DEF Spec, RestoreKeepsRemote
=============================================================================
