----------------------------- MODULE WebDavSync -----------------------------
(***************************************************************************)
(* WebDAV synchronisation of the vaults of several devices through one     *)
(* encrypted document on a server: run_webdav_sync in sync_backend.rs,     *)
(* with records.rs, merge.rs, apply.rs and webdav.rs of sync_backend/.     *)
(*                                                                         *)
(* A device's process is the sync under vault_operation_lock; every await  *)
(* of the code and every write of a file ends an action.  Users edit the   *)
(* vault only while no sync holds that lock, except for the writers that   *)
(* do not take it (key import and generation), which may act at any time.  *)
(* A process may die, or a request fail, at any point (Abort): the vault   *)
(* file, the baseline in sync.json and the server's document remain.       *)
(*                                                                         *)
(* Every edit is a new version stamped with a clock all devices share; a   *)
(* version is its own digest.  The settings record, host passwords and     *)
(* display data are left out.                                              *)
(***************************************************************************)
EXTENDS SyncMerge, FiniteSets

CONSTANTS Devices,
          Hosts,              \* ids whose payload carries its updatedAt
          KnownHosts,         \* ids whose payload does not
          Keys,               \* ids that importers add without the operation lock
          Shared,             \* ids all devices hold and have synced initially
          Decisions,          \* the resolutions a user may start a sync with
          ServerEtags,        \* does the server report ETags
          LossLimit,          \* records whose loss is suspicious (the code: 10)
          HalvingLimit,       \* ... that halves the vault (the code: 3)
          MaxPreconditionRetries, MaxLocalRefreshes,   \* the code: 1 and 2
          MaxClock, MaxSyncs, MaxAborts                \* bounds of the model

Ids == Hosts \cup KnownHosts \cup Keys

ASSUME WebDavSyncAssumption ==
    /\ IsFiniteSet(Ids) /\ Shared \subseteq Ids
    /\ None \notin [hash : Nat, at : Nat]
    /\ Decisions \subseteq [conflict : Resolutions,
                            empty : {"", "restoreRemote", "keepEmpty"},
                            shrink : {"", "allow"}]
    /\ ServerEtags \in BOOLEAN
    /\ {LossLimit, HalvingLimit, MaxPreconditionRetries, MaxLocalRefreshes,
        MaxClock, MaxSyncs, MaxAborts} \subseteq Nat
    /\ MaxClock >= 1

VARIABLES
    vault,      \* the vault file of a device: a record or None for each id
    baseline,   \* sync.json of a device: lastRecords, lastTombstones, lastRemoteEtag
    server,     \* the server's document, and how often it was written
    clock,      \* the time of the last edit
    used,       \* ids that were ever in use
    pc,         \* where a device's sync stands
    sync,       \* the local variables of a device's run_webdav_sync
    outcome,    \* what a device's last sync returned
    syncs, aborts

fileVars == <<vault, baseline, server>>
vars == <<vault, baseline, server, clock, used, pc, sync, outcome, syncs, aborts>>

NoRecords == [i \in Ids |-> None]
EmptyDocument == [recs |-> NoRecords, tombs |-> NoRecords]
NoBaseline == [recs |-> NoRecords, tombs |-> NoRecords, etag |-> 0]
NoDecision == [conflict |-> "", empty |-> "", shrink |-> ""]
NoSync == [decision |-> NoDecision, retries |-> 0, refreshes |-> 0, now |-> 0,
           local |-> EmptyDocument, override |-> FALSE, remote |-> EmptyDocument,
           etag |-> 0, exists |-> FALSE, doc |-> EmptyDocument, initial |-> FALSE]

SharedRecords == [i \in Ids |-> IF i \in Shared THEN [hash |-> 1, at |-> 1] ELSE None]
SharedDocument == [recs |-> SharedRecords, tombs |-> NoRecords]

(* The etag the server reports for the n-th write: 0 stands for none.      *)
Etag(n) == IF ServerEtags THEN n ELSE 0

(* Either nothing was ever synced, or all devices have synced Shared.      *)
Init ==
    /\ \/ /\ vault = [d \in Devices |-> NoRecords]
          /\ baseline = [d \in Devices |-> NoBaseline]
          /\ server = [doc |-> EmptyDocument, writes |-> 0]
          /\ clock = 1 /\ used = {}
       \/ /\ vault = [d \in Devices |-> SharedRecords]
          /\ baseline = [d \in Devices |->
                [recs |-> SharedRecords, tombs |-> NoRecords, etag |-> Etag(1)]]
          /\ server = [doc |-> SharedDocument, writes |-> 1]
          /\ clock = 1 /\ used = Shared
    /\ pc = [d \in Devices |-> "idle"]
    /\ sync = [d \in Devices |-> NoSync]
    /\ outcome = [d \in Devices |-> "none"]
    /\ syncs = 0 /\ aborts = 0

-----------------------------------------------------------------------------
(* Users change the vault.                                                 *)

Write(d, i) ==
    /\ clock < MaxClock
    /\ clock' = clock + 1
    /\ vault' = [vault EXCEPT ![d][i] = [hash |-> clock + 1, at |-> clock + 1]]
    /\ UNCHANGED <<baseline, server, pc, sync, outcome, syncs, aborts>>

(* Saving a changed or a new record (vault:save-collections, trusting a    *)
(* host key): the operation lock keeps it out of a sync.                   *)
Edit(d, i) == pc[d] = "idle" /\ vault[d][i] # None /\ Write(d, i) /\ UNCHANGED used

Add(d, i) == pc[d] = "idle" /\ i \in Ids \ used /\ Write(d, i) /\ used' = used \cup {i}

(* Importing or generating a key pair takes the store lock alone.          *)
ImportKey(d, i) == i \in Keys \ used /\ Write(d, i) /\ used' = used \cup {i}

Delete(d, i) ==
    /\ pc[d] = "idle" /\ vault[d][i] # None
    /\ vault' = [vault EXCEPT ![d][i] = None]
    /\ UNCHANGED <<baseline, server, clock, used, pc, sync, outcome, syncs, aborts>>

-----------------------------------------------------------------------------
(* create_local_sync_inputs.                                               *)

LocalRecord(d, i, now) ==
    CASE vault[d][i] # None /\ i \in KnownHosts ->
            [hash |-> vault[d][i].hash,
             at |-> DerivedAt(vault[d][i].hash, baseline[d].recs[i], now)]
      [] OTHER -> vault[d][i]

LocalInputs(d, now) ==
    [recs |-> [i \in Ids |-> LocalRecord(d, i, now)],
     tombs |-> [i \in Ids |-> LocalTombstone(vault[d][i], baseline[d].recs[i],
                                             baseline[d].tombs[i], now)]]

Digest(entry) == IF entry = None THEN None ELSE entry.hash

(* create_sync_footprint: which digests, not when. *)
Footprint(doc) == [i \in Ids |-> <<Digest(doc.recs[i]), Digest(doc.tombs[i])>>]

Count(recs) == Cardinality({i \in Ids : recs[i] # None})

-----------------------------------------------------------------------------
(* A sync starts with the user's decision, if one was asked for; the       *)
(* dialog about an empty vault is only shown for one.                      *)
Begin(d) ==
    /\ pc[d] = "idle" /\ syncs < MaxSyncs
    /\ \E decision \in Decisions :
          /\ decision.empty # "" => Count(vault[d]) = 0
          /\ sync' = [sync EXCEPT ![d] = [NoSync EXCEPT !.decision = decision]]
    /\ pc' = [pc EXCEPT ![d] = "inputs"]
    /\ outcome' = [outcome EXCEPT ![d] = "running"]
    /\ syncs' = syncs + 1
    /\ UNCHANGED <<fileVars, clock, used, aborts>>

Inputs(d) ==
    /\ pc[d] = "inputs"
    /\ sync' = [sync EXCEPT ![d].now = clock, ![d].local = LocalInputs(d, clock)]
    /\ pc' = [pc EXCEPT ![d] = IF sync[d].override THEN "decide" ELSE "fetch"]
    /\ UNCHANGED <<fileVars, clock, used, outcome, syncs, aborts>>

(* read_remote_sync_document. *)
Fetch(d) ==
    /\ pc[d] = "fetch"
    /\ sync' = [sync EXCEPT ![d].remote = server.doc, ![d].etag = Etag(server.writes),
                            ![d].exists = server.writes > 0]
    /\ pc' = [pc EXCEPT ![d] = "decide"]
    /\ UNCHANGED <<fileVars, clock, used, outcome, syncs, aborts>>

-----------------------------------------------------------------------------
(* The synchronous part between the GET and the PUT.                       *)

Return(d, result) ==
    /\ pc' = [pc EXCEPT ![d] = "idle"]
    /\ sync' = [sync EXCEPT ![d] = NoSync]
    /\ outcome' = [outcome EXCEPT ![d] = result]

LocalEmpty(s) == Count(s.local.recs) = 0 /\ Count(s.remote.recs) > 0
EmptyApplies(s) == LocalEmpty(s) /\ s.decision.empty # ""

HasBaseline(d) == baseline[d] # NoBaseline

(* is_initial_sync_divergence, should_request_initial_sync_resolution.     *)
InitialDivergence(d, s) ==
    /\ ~EmptyApplies(s)
    /\ s.exists /\ ~HasBaseline(d)
    /\ Footprint(s.local) # Footprint(s.remote)

\* Mutant: restoring from the server forgets to drop the local deletions.
EffectiveTombstoneOfVault(s, i) == s.local.tombs[i]

(* The tombstones that enter the merge, after the empty-vault decision.    *)
EffectiveTombstone(s, i) ==
    CASE EmptyApplies(s) /\ s.decision.empty = "restoreRemote" -> None
      [] EmptyApplies(s) /\ s.decision.empty = "keepEmpty" /\ s.remote.recs[i] # None ->
            [hash |-> s.remote.recs[i].hash, at |-> s.now]
      [] OTHER -> s.local.tombs[i]

MergedEntry(d, s, i) ==
    Merge(Entry(s.remote.recs[i], s.remote.tombs[i]), s.local.recs[i],
          EffectiveTombstone(s, i), baseline[d].recs[i], s.decision.conflict)

MergedDocument(d, s) ==
    [recs |-> [i \in Ids |-> MergedEntry(d, s, i).rec],
     tombs |-> [i \in Ids |-> MergedEntry(d, s, i).tomb]]

HasConflict(d, s) == \E i \in Ids : MergedEntry(d, s, i).conflict

(* detect_suspicious_shrink. *)
Suspicious(before, after) ==
    /\ before > after
    /\ \/ before - after >= LossLimit
       \/ before - after >= HalvingLimit /\ after <= before \div 2

Largest(a, b) == IF a >= b THEN a ELSE b

\* Mutant: the shrink guard compares with the remote document alone.
ShrinksFromRemote(d, s) ==
    Suspicious(Count(s.remote.recs), Count(MergedDocument(d, s).recs))

Shrinks(d, s) ==
    Suspicious(Largest(Count(baseline[d].recs),
                       Largest(Count(s.local.recs), Count(s.remote.recs))),
               Count(MergedDocument(d, s).recs))

EmptyUndecided(s) == LocalEmpty(s) /\ s.decision.empty = ""

AskEmpty(d) ==
    /\ pc[d] = "decide" /\ EmptyUndecided(sync[d])
    /\ Return(d, "pending")
    /\ UNCHANGED <<fileVars, clock, used, syncs, aborts>>

AskInitial(d) ==
    /\ pc[d] = "decide" /\ ~EmptyUndecided(sync[d])
    /\ InitialDivergence(d, sync[d]) /\ sync[d].decision.conflict = ""
    /\ Return(d, "pending")
    /\ UNCHANGED <<fileVars, clock, used, syncs, aborts>>

(* First sync with a decision: one side replaces the other.                *)
TakeInitial(d) ==
    /\ pc[d] = "decide" /\ ~EmptyUndecided(sync[d])
    /\ InitialDivergence(d, sync[d])
    /\ \/ /\ sync[d].decision.conflict = "local"
          /\ sync' = [sync EXCEPT ![d].initial = TRUE, ![d].doc = sync[d].local]
          /\ pc' = [pc EXCEPT ![d] = "put"]
       \/ /\ sync[d].decision.conflict = "remote"
          /\ sync' = [sync EXCEPT ![d].initial = TRUE, ![d].doc = sync[d].remote]
          /\ pc' = [pc EXCEPT ![d] = "apply"]
    /\ UNCHANGED <<fileVars, clock, used, outcome, syncs, aborts>>

Merging(d) ==
    /\ pc[d] = "decide" /\ ~EmptyUndecided(sync[d])
    /\ ~InitialDivergence(d, sync[d])

Guarded(d) ==
    \/ HasConflict(d, sync[d]) /\ sync[d].decision.conflict = ""
    \/ /\ Shrinks(d, sync[d])
       /\ sync[d].decision.shrink # "allow" /\ sync[d].decision.empty # "keepEmpty"

AskMerge(d) ==
    /\ Merging(d) /\ Guarded(d)
    /\ Return(d, "pending")
    /\ UNCHANGED <<fileVars, clock, used, syncs, aborts>>

MergeDocuments(d) ==
    /\ Merging(d) /\ ~Guarded(d)
    /\ sync' = [sync EXCEPT ![d].doc = MergedDocument(d, sync[d])]
    /\ pc' = [pc EXCEPT ![d] = "put"]
    /\ UNCHANGED <<fileVars, clock, used, outcome, syncs, aborts>>

-----------------------------------------------------------------------------
(* write_remote_sync_document.                                             *)

\* Mutant: the conditional headers are not sent.
UnconditionalAccepts(s) == TRUE

(* The server's answer to webdav_write_precondition_headers.               *)
Accepts(s) ==
    /\ s.etag # 0 => server.writes = s.etag
    /\ s.etag = 0 /\ ~s.exists => server.writes = 0

Put(d) ==
    /\ pc[d] = "put" /\ Accepts(sync[d])
    /\ server' = [doc |-> sync[d].doc, writes |-> server.writes + 1]
    /\ sync' = [sync EXCEPT ![d].etag = server.writes + 1]
    /\ pc' = [pc EXCEPT ![d] = "verify"]
    /\ UNCHANGED <<vault, baseline, clock, used, outcome, syncs, aborts>>

PutRefused(d) ==
    /\ pc[d] = "put" /\ ~Accepts(sync[d])
    /\ \/ /\ sync[d].retries < MaxPreconditionRetries
          /\ sync' = [sync EXCEPT ![d].retries = @ + 1, ![d].initial = FALSE,
                                  ![d].override = FALSE, ![d].etag = 0]
          /\ pc' = [pc EXCEPT ![d] = "inputs"]
          /\ UNCHANGED outcome
       \/ /\ sync[d].retries >= MaxPreconditionRetries
          /\ Return(d, "error")
    /\ UNCHANGED <<fileVars, clock, used, syncs, aborts>>

\* Mutant: the GET after the PUT is not compared with what was sent.
VerifiesAnything(s) == TRUE

(* verify_webdav_write: no two encryptions are alike, so the bytes read    *)
(* back are those sent only if nobody wrote since.                         *)
ReadsBack(s) == server.writes = s.etag

Verify(d) ==
    /\ pc[d] = "verify"
    /\ \/ /\ ReadsBack(sync[d])
          /\ sync' = [sync EXCEPT ![d].etag = Etag(server.writes)]
          /\ pc' = [pc EXCEPT ![d] = IF sync[d].initial THEN "apply" ELSE "recheck"]
          /\ UNCHANGED outcome
       \/ /\ ~ReadsBack(sync[d])
          /\ Return(d, "error")
    /\ UNCHANGED <<fileVars, clock, used, syncs, aborts>>

-----------------------------------------------------------------------------
(* After the PUT.                                                          *)

LocalChanged(d) ==
    Footprint(LocalInputs(d, sync[d].now)) # Footprint(sync[d].local)

(* The vault changed under the sync: merge again into the document just    *)
(* written, without fetching it.                                           *)
Recheck(d) ==
    /\ pc[d] = "recheck"
    /\ \/ /\ ~LocalChanged(d)
          /\ pc' = [pc EXCEPT ![d] = "apply"]
          /\ UNCHANGED <<sync, outcome>>
       \/ /\ LocalChanged(d) /\ sync[d].refreshes < MaxLocalRefreshes
          /\ sync' = [sync EXCEPT ![d].refreshes = @ + 1, ![d].override = TRUE,
                                  ![d].remote = sync[d].doc, ![d].exists = TRUE]
          /\ pc' = [pc EXCEPT ![d] = "inputs"]
          /\ UNCHANGED outcome
       \/ /\ LocalChanged(d) /\ sync[d].refreshes >= MaxLocalRefreshes
          /\ Return(d, "error")
    /\ UNCHANGED <<fileVars, clock, used, syncs, aborts>>

(* apply_sync_document_to_vault, under the store lock: every collection    *)
(* the document carries replaces the vault's.                              *)
Apply(d) ==
    /\ pc[d] = "apply"
    /\ vault' = [vault EXCEPT ![d] = sync[d].doc.recs]
    /\ pc' = [pc EXCEPT ![d] = "commit"]
    /\ UNCHANGED <<baseline, server, clock, used, sync, outcome, syncs, aborts>>

(* create_sync_state_from_document. *)
StateFromDocument(doc, etag) == [recs |-> doc.recs, tombs |-> doc.tombs, etag |-> etag]

(* write_sync_store. *)
Commit(d) ==
    /\ pc[d] = "commit"
    /\ baseline' = [baseline EXCEPT ![d] = StateFromDocument(sync[d].doc, sync[d].etag)]
    /\ Return(d, "ok")
    /\ UNCHANGED <<vault, server, clock, used, syncs, aborts>>

(* A request fails, or the program is killed. *)
Abort(d) ==
    /\ pc[d] # "idle" /\ aborts < MaxAborts
    /\ aborts' = aborts + 1
    /\ Return(d, "error")
    /\ UNCHANGED <<fileVars, clock, used, syncs>>

-----------------------------------------------------------------------------
User(d, i) == Edit(d, i) \/ Add(d, i) \/ ImportKey(d, i) \/ Delete(d, i)

Step(d) ==
    \/ Inputs(d) \/ Fetch(d)
    \/ AskEmpty(d) \/ AskInitial(d) \/ TakeInitial(d) \/ AskMerge(d) \/ MergeDocuments(d)
    \/ Put(d) \/ PutRefused(d) \/ Verify(d) \/ Recheck(d) \/ Apply(d) \/ Commit(d)

Next == \E d \in Devices :
            \/ \E i \in Ids : User(d, i)
            \/ Begin(d) \/ Step(d) \/ Abort(d)

Spec == Init /\ [][Next]_vars

-----------------------------------------------------------------------------
Stamps == 1..clock
StampedRecords == [Ids -> [hash : Stamps, at : Stamps] \cup {None}]
Documents == [recs : StampedRecords, tombs : StampedRecords]
Baselines == [recs : StampedRecords, tombs : StampedRecords, etag : Nat]
SyncRecords ==
    [decision : Decisions \cup {NoDecision},
     retries : 0..MaxPreconditionRetries, refreshes : 0..MaxLocalRefreshes,
     now : 0..clock, local : Documents, override : BOOLEAN, remote : Documents,
     etag : Nat, exists : BOOLEAN, doc : Documents, initial : BOOLEAN]

(* Records and tombstones carry times of edits and syncs that took place.  *)
TypeOK ==
    /\ vault \in [Devices -> StampedRecords]
    /\ baseline \in [Devices -> Baselines]
    /\ server \in [doc : Documents, writes : Nat]
    /\ clock \in 0..MaxClock /\ used \subseteq Ids
    /\ pc \in [Devices -> {"idle", "inputs", "fetch", "decide", "put", "verify",
                           "recheck", "apply", "commit"}]
    /\ sync \in [Devices -> SyncRecords]
    /\ outcome \in [Devices -> {"none", "running", "ok", "pending", "error"}]
    /\ syncs \in 0..MaxSyncs /\ aborts \in 0..MaxAborts

(* The sync d is in was started without any decision of the user.          *)
Undecided(d) == sync[d].decision = NoDecision

(* An edit of i on d that no completed sync of d has carried away.         *)
Unsynced(d, i) == vault[d][i] # None /\ Changed(vault[d][i], baseline[d].recs[i])

(* The baseline a device stores is what the server's document says as long *)
(* as the server still reports the ETag stored with it: a failed, refused, *)
(* overtaken or repeated upload never leaves a baseline the server did not *)
(* confirm (docs/webdav-sync-reliability.md, "Write sequence").            *)
BaselineIsConfirmed ==
    \A d \in Devices :
        baseline[d].etag # 0 /\ baseline[d].etag = server.writes
            => /\ baseline[d].recs = server.doc.recs
               /\ baseline[d].tombs = server.doc.tombs

(* Writing the merged document into the vault replaces no edit the device  *)
(* has not synced yet, unless the user decided for the server's side.      *)
LocalEditsSurvive ==
    [][\A d \in Devices, i \in Ids :
         (pc[d] = "apply" /\ pc'[d] = "commit" /\ Unsynced(d, i)
            /\ sync[d].decision.conflict # "remote")
            => vault'[d][i] # None /\ vault'[d][i].hash = vault[d][i].hash]_vars

(* An upload without a decision replaces no version that the uploading     *)
(* device has never seen, if the user has not deleted the record there:    *)
(* neither another device's edit between this sync's GET and its PUT, nor  *)
(* one that was there before.                                              *)
UnseenVersionsSurvive ==
    [][\A d \in Devices, i \in Ids :
         (/\ pc[d] = "put" /\ pc'[d] = "verify" /\ Undecided(d)
          /\ server.doc.recs[i] # None
          /\ \/ vault[d][i] = None /\ baseline[d].recs[i] = None
             \/ vault[d][i] # None /\ Changed(server.doc.recs[i], baseline[d].recs[i]))
            => /\ server'.doc.recs[i] # None
               /\ server'.doc.recs[i].hash = server.doc.recs[i].hash]_vars

(* What one device deleted from the document is put back only by a device  *)
(* whose user changed the record since that device last synced.            *)
NoResurrection ==
    [][\A d \in Devices, i \in Ids :
         (/\ pc[d] = "put" /\ pc'[d] = "verify" /\ Undecided(d)
          /\ server.doc.recs[i] = None /\ server.doc.tombs[i] # None
          /\ server'.doc.recs[i] # None)
            => Unsynced(d, i) \/ baseline[d].recs[i] = None]_vars

(* A sync that merges again because the vault changed under it does not    *)
(* take its own upload for another device's work and ask the user about    *)
(* it, if the device has a baseline.                                       *)
OwnUploadNeverConflicts ==
    [][\A d \in Devices :
         (outcome[d] = "running" /\ outcome'[d] = "pending" /\ HasBaseline(d))
            => ~sync[d].override]_vars

(* "If local content changed during the operation, merge and upload again" *)
(* (docs/webdav-sync-reliability.md:12), the first time as well.           *)
ChangedVaultIsMergedAgain ==
    [][\A d \in Devices :
         (outcome[d] = "running" /\ outcome'[d] = "pending") => ~sync[d].override]_vars

(* However many rounds a sync takes, without a confirmation the records a  *)
(* device has on record never shrink by a suspicious amount.               *)
NoSilentShrink ==
    [][\A d \in Devices :
         (pc[d] = "commit" /\ pc'[d] = "idle" /\ outcome'[d] = "ok"
            /\ sync[d].decision.shrink = "" /\ sync[d].decision.empty = "")
            => ~Suspicious(Count(baseline[d].recs), Count(baseline'[d].recs))]_vars

(* The user of an empty vault who asked to restore it from the server      *)
(* loses nothing on the server (pending_empty_vault_result offers to       *)
(* restore the remote data or to keep the empty vault).                    *)
RestoreKeepsRemote ==
    [][\A d \in Devices, i \in Ids :
         (pc[d] = "put" /\ pc'[d] = "verify" /\ sync[d].decision.empty = "restoreRemote"
            /\ sync[d].decision.conflict = "" /\ server.doc.recs[i] # None)
            => server'.doc.recs[i] # None]_vars

(* "If local content changed during the operation, merge and upload again" *)
(* (docs/webdav-sync-reliability.md:12): what an importer adds to a vault  *)
(* while it is being synced is still there afterwards.                     *)
ImportsSurvive ==
    [][\A d \in Devices, i \in Keys :
         (pc[d] = "apply" /\ pc'[d] = "commit" /\ Undecided(d) /\ vault[d][i] # None
            /\ baseline[d].recs[i] = None)
            => vault'[d][i] # None]_vars
=============================================================================
