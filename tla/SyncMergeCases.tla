--------------------------- MODULE SyncMergeCases ---------------------------
(***************************************************************************)
(* Every case of the merge of SyncMerge over small sets of digests and     *)
(* times: CaseInit picks what a device, its baseline and the remote        *)
(* document hold under one id, MergeCase merges it, ResyncCase lets the    *)
(* same device sync once more with nothing changed in between.             *)
(***************************************************************************)
EXTENDS SyncMerge

CONSTANTS Hashes,    \* payload digests
          Times,     \* updatedAt and deletedAt values
          Now,       \* the time of the sync, later than all of them
          Bodies,    \* settings payloads without their credential
          Credentials  \* non-empty credentials

ASSUME SyncMergeCasesAssumption ==
    /\ Times \subseteq Nat /\ Now \in Nat /\ \A t \in Times : t < Now
    /\ None \notin Credentials
    /\ None \notin [hash : Hashes, at : Times \cup {Now}]
    /\ None \notin [hash : [body : Bodies, key : Credentials \cup {None}], at : Times]

VARIABLES stage,     \* "given", "merged" or "resynced"
          input,     \* what was given
          output,    \* the entry the merge produced
          again      \* the entry a second sync produces

caseVars == <<stage, input, output, again>>

Records == [hash : Hashes, at : Times]
Entries == {e \in [rec : Records \cup {None}, tomb : Records \cup {None}, conflict : {FALSE}] :
                Clean(e)}
Payloads == [body : Bodies, key : Credentials \cup {None}]
SettingsRecords == [hash : Payloads, at : Times]

ContentInput ==
    [kind : {"content"}, remote : Entries, localRec : Records \cup {None},
     previous : Records \cup {None}, previousTomb : {None}, resolution : Resolutions]
    \cup
    [kind : {"content"}, remote : Entries, localRec : {None},
     previous : {None}, previousTomb : Records, resolution : Resolutions]

SettingsInput ==
    [kind : {"settings"}, remote : SettingsRecords \cup {None}, localRec : SettingsRecords,
     previous : SettingsRecords \cup {None}, resolution : Resolutions]

NoEntry == Entry(None, None)

CaseInit ==
    /\ stage = "given"
    /\ input \in ContentInput \cup SettingsInput
    /\ output = NoEntry /\ again = NoEntry

ContentMerge(c) ==
    Merge(c.remote, c.localRec,
          LocalTombstone(c.localRec, c.previous, c.previousTomb, Now),
          c.previous, c.resolution)

(* One sync of the device.                                                 *)
MergeCase ==
    /\ stage = "given"
    /\ stage' = "merged"
    /\ output' = IF input.kind = "content"
                 THEN ContentMerge(input)
                 ELSE MergeSettings(input.remote, input.localRec, input.previous, input.resolution)
    /\ UNCHANGED <<input, again>>

(* Another sync, of a vault and a baseline that hold what the first one    *)
(* wrote, against the document the first one wrote.                        *)
ResyncCase ==
    /\ stage = "merged" /\ input.kind = "content"
    /\ output.conflict => input.resolution # ""
    /\ stage' = "resynced"
    /\ again' = Merge([output EXCEPT !.conflict = FALSE], output.rec,
                      LocalTombstone(output.rec, output.rec, output.tomb, Now + 1),
                      output.rec, "")
    /\ UNCHANGED <<input, output>>

CaseNext == MergeCase \/ ResyncCase
CaseSpec == CaseInit /\ [][CaseNext]_caseVars

Content == stage # "given" /\ input.kind = "content"
Unresolved == input.resolution = ""

(* The merged document never lists an id that it also deletes with a       *)
(* deletion as late as the record (merge_sync_documents: each branch that  *)
(* leaves a record has to deal with the tombstone beside it).              *)
MergedIsClean == Content => Clean(output)

(* An edit made on this device survives a merge that reports no conflict,  *)
(* whatever the remote document did to the record in the meantime.         *)
LocalEditKept ==
    Content /\ Unresolved => KeepsLocalEdit(input.remote, input.localRec, input.previous, output)

(* A newer version from another device reaches a device that has not       *)
(* touched the record.                                                     *)
RemoteEditKept ==
    Content => KeepsRemoteEdit(input.remote, input.localRec, input.previous, output)

(* A deletion made elsewhere is not undone by a device that only still has *)
(* the record.                                                             *)
DeletionKept ==
    Content => KeepsDeletion(input.remote, input.localRec, input.previous, output)

(* A sync that changed nothing: the second merge yields the same entry and *)
(* no conflict, so two syncs in a row are as good as one.                  *)
ResyncIsQuiet == stage = "resynced" => again = [output EXCEPT !.conflict = FALSE]

(* No merge of two settings records loses the credential one of them has   *)
(* (reconcile_settings_credentials, its doc comment at merge.rs:338-343).  *)
CredentialKept ==
    (stage # "given" /\ input.kind = "settings")
        => KeepsKey(input.remote, input.localRec, output)

(* "reports local delete remote modify conflict" (the test at merge.rs:586)*)
(* of the deletions the program itself finds: deleted here since the last  *)
(* sync, changed elsewhere since then.                                     *)
DeleteModifyReported ==
    (/\ Content /\ Unresolved /\ input.localRec = None /\ input.previous # None
     /\ input.remote.rec # None /\ Changed(input.remote.rec, input.previous)
     /\ input.remote.rec.at > input.previous.at)
        => output.conflict
=============================================================================
