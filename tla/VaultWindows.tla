---------------------------- MODULE VaultWindows ----------------------------
(***************************************************************************)
(* The windows of the application over one vault (App.tsx and the vault    *)
(* channels of the back end).  Each window keeps a copy of the collections *)
(* and saves all of it, through its own queue (SaveQueue), after an edit;  *)
(* the back end tells every window when the vault has changed, and each    *)
(* reads it again unless it has edits of its own to save.                  *)
(*                                                                         *)
(* A document is the set of the items it holds: what was there before,     *)
(* the secrets that only a full read returns, and one item per change.     *)
(* The known hosts, which are saved apart, are left out; a request for     *)
(* them is not, because it makes the requests before it stale.             *)
(***************************************************************************)
EXTENDS SaveQueue, Sequences, Naturals, FiniteSets

CONSTANTS Window,            \* the windows of the application
          Loaded,            \* those that have long been open at the start
          Edit,              \* the edits users make, each made once
          Sync,              \* the changes WebDAV sync brings in, each once
          MaxTroubles,       \* bound on syncs, trusted keys and failed saves
          Overlap            \* what may overlap with what, see below

\* With Overlap = {} the environment is kind: nobody edits a window before it
\* is loaded ("edit while loading"), no event reaches a window before it asks
\* for its first snapshot ("event while loading"), no host key is trusted while
\* a window has something to read ("trust while reading"), and nobody edits
\* while a window has changes of a sync to read, nor do they come in while one
\* has work ("sync while saving").

Hosts == "hosts"
Secrets == "secrets"
Item == Edit \cup Sync \cup {Hosts, Secrets}

ASSUME VaultAssumption == \A d \in SUBSET Item : d # None

\* to_public_snapshot: everything but the secrets.
Public(d) == d \ {Secrets}

VARIABLES vault,     \* the collections in the store
          doc,       \* doc[w]: the window's collections (hostsRef and the rest)
          persisted, \* lastPersistedCollectionsRef, None before the first
          hydrated,  \* isVaultHydrated
          rendered,  \* has the effect of the last render run?
          queue,     \* collectionsSaveQueue
          sent,      \* is the save in flight still to be served?
          requests,  \* the snapshots asked for and not yet answered
          inbox,     \* events and replies on their way to the window
          load,      \* where loadSnapshot is
          edited,    \* the edits and the changes that happened
          trusts, failures

docVars == <<doc, persisted, hydrated, rendered>>
vaultVars == <<vault, doc, persisted, hydrated, rendered, queue, sent, requests,
               inbox, load, edited, trusts, failures>>

\* A request: `latest' until another is begun (createLatestRequestGate),
\* `fresh' until the window is edited (collectionsRevisionRef), and the
\* document that was read for it.
Request == [kind : {"public", "full", "vault", "sync", "trust"},
            latest : BOOLEAN, fresh : BOOLEAN, snap : (SUBSET Item) \cup {None}]

Message == {"vault", "sync", "trust", "saved", "failed"}

VaultTypeOK ==
  /\ vault \in SUBSET Item
  /\ doc \in [Window -> SUBSET Item]
  /\ persisted \in [Window -> (SUBSET Item) \cup {None}]
  /\ hydrated \in [Window -> BOOLEAN]
  /\ rendered \in [Window -> BOOLEAN]
  /\ sent \in [Window -> BOOLEAN]
  /\ \A w \in Window : requests[w] \subseteq Request
  /\ \A w \in Window : inbox[w] \in Seq(Message)
  /\ load \in [Window -> {"start", "public", "full", "done"}]
  /\ edited \subseteq Edit \cup Sync
  /\ \A w \in Window : sent[w] => queue[w].run = "saving"

\* The bridge reads a public snapshot before the window asks for one.
FirstRead == [kind |-> "public", latest |-> FALSE, fresh |-> TRUE, snap |-> None]

VaultInit ==
  /\ vault = {Hosts, Secrets}
  /\ doc = [w \in Window |-> IF w \in Loaded THEN vault ELSE {}]
  /\ persisted = [w \in Window |-> IF w \in Loaded THEN vault ELSE None]
  /\ hydrated = [w \in Window |-> w \in Loaded]
  /\ rendered = [w \in Window |-> TRUE]
  /\ queue = [w \in Window |-> EmptyQueue]
  /\ sent = [w \in Window |-> FALSE]
  /\ requests = [w \in Window |-> IF w \in Loaded THEN {} ELSE {FirstRead}]
  /\ inbox = [w \in Window |-> <<>>]
  /\ load = [w \in Window |-> IF w \in Loaded THEN "done" ELSE "start"]
  /\ edited = {}
  /\ trusts = 0
  /\ failures = 0

MoreTrouble == Cardinality(edited \cap Sync) + trusts + failures < MaxTroubles

\* What the restrictions of Overlap look at.
Coming(w) == {inbox[w][i] : i \in DOMAIN inbox[w]}

Reading(w) == load[w] # "done" \/ requests[w] # {} \/ Coming(w) # {}

ReadingSync(w) ==
  "sync" \in Coming(w) \/ \E r \in requests[w] : r.kind = "sync"

\* The queue's microtasks run before the window handles anything else.
NoMicrotask(w) == queue[w].run \notin {"scheduled", "ended"}

-----------------------------------------------------------------------------
(* The window                                                              *)

\* Mutant: a window saves what it shows before it has read everything.
QueueAlways(w, d) ==
  IF d = persisted[w] /\ ~HasWork(queue[w]) THEN queue[w] ELSE Enqueue(queue[w], d)

\* Mutant: while there is work a change is not queued.
QueueIfIdle(w, d) ==
  IF ~hydrated[w] \/ d = persisted[w] \/ HasWork(queue[w])
  THEN queue[w]
  ELSE Enqueue(queue[w], d)

QueueIfChanged(w, d) ==
  IF ~hydrated[w] \/ (d = persisted[w] /\ ~HasWork(queue[w]))
  THEN queue[w]
  ELSE Enqueue(queue[w], d)

\* A new request makes the older ones of its window stale.
Begin(w, kind) ==
  {[r EXCEPT !.latest = FALSE] : r \in requests[w]}
    \cup {[kind |-> kind, latest |-> TRUE, fresh |-> TRUE, snap |-> None]}

\* Mutant: the gate is not asked.
IsCurrentByRevision(w, r) == r.fresh /\ ~HasWork(queue[w])

IsCurrent(w, r) == r.latest /\ r.fresh /\ ~HasWork(queue[w])

\* applyVaultSnapshot; a public snapshot leaves the window unhydrated.
Apply(w, snap, full) ==
  /\ doc' = [doc EXCEPT ![w] = snap]
  /\ persisted' = [persisted EXCEPT ![w] = IF full THEN snap ELSE @]
  /\ hydrated' = [hydrated EXCEPT ![w] = @ \/ full]
  /\ rendered' = [rendered EXCEPT ![w] = FALSE]

\* commitCollectionsState.
CommitEdit(w, e) ==
  /\ NoMicrotask(w)
  /\ e \notin edited
  /\ "edit while loading" \in Overlap \/ hydrated[w]
  /\ "sync while saving" \in Overlap \/ \A x \in Window : ~ReadingSync(x)
  /\ edited' = edited \cup {e}
  /\ doc' = [doc EXCEPT ![w] = @ \cup {e}]
  /\ rendered' = [rendered EXCEPT ![w] = FALSE]
  /\ requests' = [requests EXCEPT ![w] = {[r EXCEPT !.fresh = FALSE] : r \in @}]
  /\ queue' = [queue EXCEPT ![w] = QueueIfChanged(w, doc'[w])]
  /\ UNCHANGED <<vault, persisted, hydrated, sent, inbox, load, trusts, failures>>

\* The effect on the collections' state, after the render that follows.
RunEffect(w) ==
  /\ NoMicrotask(w)
  /\ ~rendered[w]
  /\ rendered' = [rendered EXCEPT ![w] = TRUE]
  /\ queue' = [queue EXCEPT ![w] = QueueIfChanged(w, doc[w])]
  /\ UNCHANGED <<vault, doc, persisted, hydrated, sent, requests, inbox, load,
                 edited, trusts, failures>>

StartSaving(w) ==
  /\ queue[w].run = "scheduled"
  /\ queue' = [queue EXCEPT ![w] = TakePending(@)]
  /\ sent' = [sent EXCEPT ![w] = queue'[w].run = "saving"]
  /\ UNCHANGED <<vault, docVars, requests, inbox, load, edited, trusts, failures>>

EndSaving(w) ==
  /\ queue[w].run = "ended"
  /\ queue' = [queue EXCEPT ![w] = EndRun(@)]
  /\ UNCHANGED <<vault, docVars, sent, requests, inbox, load, edited, trusts,
                 failures>>

\* The reply to saveCollections.
HandleSaved(w) ==
  /\ NoMicrotask(w) /\ inbox[w] # <<>> /\ Head(inbox[w]) \in {"saved", "failed"}
  /\ inbox' = [inbox EXCEPT ![w] = Tail(@)]
  /\ persisted' = [persisted EXCEPT ![w] =
                     IF Head(inbox[w]) = "saved" THEN queue[w].inFlight ELSE @]
  /\ queue' = [queue EXCEPT ![w] =
                 Finish(@, IF Head(inbox[w]) = "saved" THEN "succeeded" ELSE "failed")]
  /\ sent' = [sent EXCEPT ![w] = queue'[w].run = "saving"]
  /\ UNCHANGED <<vault, doc, hydrated, rendered, requests, load, edited, trusts,
                 failures>>

\* The handler of vault:changed.
HandleChanged(w) ==
  /\ NoMicrotask(w) /\ inbox[w] # <<>> /\ Head(inbox[w]) \in {"vault", "sync", "trust"}
  /\ "event while loading" \in Overlap \/ load[w] # "start"
  /\ inbox' = [inbox EXCEPT ![w] = Tail(@)]
  /\ requests' = [requests EXCEPT ![w] =
                    IF Head(inbox[w]) = "vault" /\ HasWork(queue[w])
                    THEN @ ELSE Begin(w, Head(inbox[w]))]
  /\ UNCHANGED <<vault, docVars, queue, sent, load, edited, trusts, failures>>

\* The reply to a snapshot that an event asked for; one for the known hosts
\* leaves the collections alone.
HandleSnapshot(w) ==
  \E r \in requests[w] :
    /\ NoMicrotask(w) /\ r.snap # None /\ r.kind \in {"vault", "sync", "trust"}
    /\ requests' = [requests EXCEPT ![w] = @ \ {r}]
    /\ IF IsCurrent(w, r) /\ r.kind # "trust"
       THEN Apply(w, r.snap, TRUE)
       ELSE UNCHANGED docVars
    /\ UNCHANGED <<vault, queue, sent, inbox, load, edited, trusts, failures>>

-----------------------------------------------------------------------------
(* loadSnapshot: a public snapshot to show at once, then the full one.     *)

LoadPublic(w) ==
  /\ NoMicrotask(w)
  /\ load[w] = "start"
  /\ load' = [load EXCEPT ![w] = "public"]
  /\ requests' = [requests EXCEPT ![w] =
                    {[r EXCEPT !.latest = r.kind = "public"] : r \in @}]
  /\ UNCHANGED <<vault, docVars, queue, sent, inbox, edited, trusts, failures>>

\* The full read is asked for as soon as the public one is dealt with.  Edits
\* are counted from the beginning of the load on, so the full read is as
\* fresh as the public one was.
LoadFull(w) ==
  \E r \in requests[w] :
    /\ NoMicrotask(w) /\ load[w] = "public" /\ r.kind = "public" /\ r.snap # None
    /\ load' = [load EXCEPT ![w] = "full"]
    /\ requests' = [requests EXCEPT ![w] =
          {[s EXCEPT !.latest = FALSE] : s \in @ \ {r}}
            \cup {[kind |-> "full", latest |-> TRUE, fresh |-> r.fresh,
                   snap |-> None]}]
    /\ IF IsCurrent(w, r) THEN Apply(w, r.snap, FALSE) ELSE UNCHANGED docVars
    /\ UNCHANGED <<vault, queue, sent, inbox, edited, trusts, failures>>

\* A full snapshot that an edit has overtaken is not applied: what the window
\* holds is saved over it.
LoadDone(w) ==
  \E r \in requests[w] :
    /\ NoMicrotask(w) /\ r.kind = "full" /\ r.snap # None
    /\ load' = [load EXCEPT ![w] = "done"]
    /\ requests' = [requests EXCEPT ![w] = @ \ {r}]
    /\ \/ /\ IsCurrent(w, r)
          /\ Apply(w, r.snap, TRUE)
          /\ UNCHANGED queue
       \/ /\ r.latest /\ ~IsCurrent(w, r)
          /\ hydrated' = [hydrated EXCEPT ![w] = TRUE]
          /\ rendered' = [rendered EXCEPT ![w] = FALSE]
          /\ queue' = [queue EXCEPT ![w] = Enqueue(@, doc[w])]
          /\ UNCHANGED <<doc, persisted>>
       \/ /\ ~r.latest
          /\ UNCHANGED <<docVars, queue>>
    /\ UNCHANGED <<vault, sent, inbox, edited, trusts, failures>>

-----------------------------------------------------------------------------
(* The back end                                                            *)

Broadcast(kind) == [w \in Window |-> Append(inbox[w], kind)]

\* Mutant: only the window that saved is told.
ServeSaveQuietly(w) ==
  /\ sent[w]
  /\ sent' = [sent EXCEPT ![w] = FALSE]
  /\ vault' = queue[w].inFlight
  /\ inbox' = [inbox EXCEPT ![w] = @ \o <<"vault", "saved">>]
  /\ UNCHANGED <<docVars, queue, requests, load, edited, trusts, failures>>

\* vault:save-collections: the store is replaced, every window is told, and
\* then the reply leaves; messages to one window stay in order.
ServeSave(w) ==
  /\ sent[w]
  /\ sent' = [sent EXCEPT ![w] = FALSE]
  /\ vault' = queue[w].inFlight
  /\ inbox' = [Broadcast("vault") EXCEPT ![w] = Append(@, "saved")]
  /\ UNCHANGED <<docVars, queue, requests, load, edited, trusts, failures>>

FailSave(w) ==
  /\ sent[w] /\ MoreTrouble
  /\ failures' = failures + 1
  /\ sent' = [sent EXCEPT ![w] = FALSE]
  /\ inbox' = [inbox EXCEPT ![w] = Append(@, "failed")]
  /\ UNCHANGED <<vault, docVars, queue, requests, load, edited, trusts>>

\* vault:get-snapshot and vault:get-public-snapshot take no lock.
ServeSnapshot(w) ==
  \E r \in requests[w] :
    /\ r.snap = None
    /\ requests' = [requests EXCEPT ![w] = (@ \ {r}) \cup
          {[r EXCEPT !.snap = IF r.kind = "public" THEN Public(vault) ELSE vault]}]
    /\ UNCHANGED <<vault, docVars, queue, sent, inbox, load, edited, trusts,
                   failures>>

\* A sync has rewritten the vault with what it merged.
SyncVault(s) ==
  /\ s \notin edited /\ MoreTrouble
  /\ \/ "sync while saving" \in Overlap
     \/ \A w \in Window : ~HasWork(queue[w]) /\ rendered[w] /\ load[w] = "done"
  /\ edited' = edited \cup {s}
  /\ vault' = vault \cup {s}
  /\ inbox' = Broadcast("sync")
  /\ UNCHANGED <<docVars, queue, sent, requests, load, trusts, failures>>

\* A host key is trusted while a connection is made.
TrustHostKey ==
  /\ MoreTrouble
  /\ "trust while reading" \in Overlap \/ \A w \in Window : ~Reading(w)
  /\ trusts' = trusts + 1
  /\ inbox' = Broadcast("trust")
  /\ UNCHANGED <<vault, docVars, queue, sent, requests, load, edited, failures>>

WindowStep(w) ==
  \/ RunEffect(w) \/ StartSaving(w) \/ EndSaving(w)
  \/ HandleSaved(w) \/ HandleChanged(w) \/ HandleSnapshot(w)
  \/ LoadPublic(w) \/ LoadFull(w) \/ LoadDone(w)

BackendStep(w) == ServeSave(w) \/ FailSave(w) \/ ServeSnapshot(w)

VaultNext ==
  \/ \E w \in Window : WindowStep(w) \/ BackendStep(w)
  \/ \E w \in Window, e \in Edit : CommitEdit(w, e)
  \/ \E s \in Sync : SyncVault(s)
  \/ TrustHostKey

\* Handlers run and calls are answered; nobody has to edit anything.
VaultSpec ==
  /\ VaultInit /\ [][VaultNext]_vaultVars
  /\ \A w \in Window : WF_vaultVars(WindowStep(w)) /\ WF_vaultVars(BackendStep(w))

-----------------------------------------------------------------------------
(* Properties                                                              *)

\* No window ever saves a copy without the saved passwords and keys, such as
\* the public one it shows while it loads (App.tsx 807-813 and 1083-1144).
VaultKeepsSecrets == {Hosts, Secrets} \subseteq vault

\* A window whose queue is idle and whose effects have run has saved what it
\* shows, unless the last save failed: no edit is forgotten (807-845, 1337).
SettledIsPersisted ==
  \A w \in Window :
    hydrated[w] /\ rendered[w] /\ ~HasWork(queue[w]) /\ queue[w].outcome # "failed"
      => doc[w] = persisted[w]

\* No snapshot takes back an edit that a window shows and the store holds
\* (748-801, 847-879, 1567-1620).
NoSnapshotTakesBack ==
  [][failures = 0 => \A w \in Window : (doc[w] \ doc'[w]) \cap vault = {}]_vaultVars

\* In the end all windows show what is in the store.
WindowsAgree ==
  <>[](failures = 0 => \A w \in Window : hydrated[w] /\ doc[w] = vault)

=============================================================================
