--------------------------- MODULE TransferRuntime ---------------------------
(***************************************************************************)
(* Background SFTP transfers and the close of the connection they run on.  *)
(*                                                                         *)
(* remote_fs/transfer_runtime.rs enqueues batches of jobs, each run by a   *)
(* task of its own; remote_fs/transfer.rs reports their progress and ends  *)
(* them; connection.rs closes a connection at once (disconnect) or after   *)
(* its last transfer (the SFTP window was destroyed).  They share a few    *)
(* maps, each behind a mutex of its own: every action below is one lock    *)
(* section, so what a thread read under one lock may be stale when it      *)
(* takes the next one.                                                     *)
(***************************************************************************)
EXTENDS Integers, FiniteSets

CONSTANTS
  Conns,              \* connection ids
  Ids,                \* transfer ids, chosen by the window: a retry keeps its id
  Directions,         \* subset of {"upload", "download"}
  Targets,            \* normalised target directories
  MaxConcurrency,     \* MAX_TRANSFER_CONCURRENCY
  Runs,               \* submissions of a job, each with a thread of its own
  Closers,            \* calls that close a connection, one thread each
  Cancelers,          \* connection:cancel-transfer calls, one thread each
  RetryWhileEnding,   \* may an id be submitted while its last run winds down?
  SubmitWhileClosing  \* may a batch be submitted while its connection closes?

Threads == Runs \cup Closers \cup Cancelers

ASSUME ThreadsDisjoint ==
  /\ Runs \cap Closers = {}
  /\ Runs \cap Cancelers = {}
  /\ Closers \cap Cancelers = {}

ASSUME ParametersAssumption ==
  /\ Directions \subseteq {"upload", "download"}
  /\ MaxConcurrency \in Nat \ {0}
  /\ RetryWhileEnding \in BOOLEAN
  /\ SubmitWhileClosing \in BOOLEAN

VARIABLES
  connections,    \* AppState.connections: the ids it holds
  resources,      \* connections that own terminals, transports, proxies
  deferred,       \* AppState.deferred_connection_closures
  active,         \* AppState.active_transfers: id -> entry, or NoEntry
  cancellations,  \* AppState.transfer_cancellations
  history,        \* TransferHistory: id -> status, "none" when not recorded
  limiter,        \* permits of the connection's current semaphore
  pc,             \* where each thread is in its own code
  call,           \* where it is inside a nested close, or "none"
  job,            \* the job a run carries
  result,         \* how a run ended
  arg             \* per thread: the connection it acts on, ids it has read

vars == <<connections, resources, deferred, active, cancellations, history,
          limiter, pc, call, job, result, arg>>

-----------------------------------------------------------------------------
(* Types *)

NoKey   == <<>>
NoConn  == "none"
NoEntry == [conn |-> NoConn, key |-> NoKey]

\* A download locks a local directory whatever the connection, an upload a
\* directory of one connection.
ResourceKey(c, direction, target) ==
  IF direction = "download" THEN <<"download", target>>
                            ELSE <<"upload", c, target>>

Keys == {ResourceKey(c, d, t) : c \in Conns, d \in Directions, t \in Targets}

Entries == [conn : Conns, key : Keys \cup {NoKey}] \cup {NoEntry}

Jobs  == [id : Ids, key : Keys, batch : SUBSET Runs, conc : 1..MaxConcurrency]
NoJob == [id |-> "none", key |-> NoKey, batch |-> {}, conc |-> 0]
NoArg == [conn |-> NoConn, ids |-> {}]

ActiveStatus == {"queued", "running"}
EndStatus    == {"completed", "failed", "canceled"}

\* A run, in program order: enqueue_sftp_transfers, run_job, and the three
\* places that unregister it (finish, drop of the reporter, end of the job).
RunPc == {"checked", "registered", "queued",
          "waiting", "permitted", "starting", "started", "preparing",
          "transferring", "finishCancel", "finishActive", "recordEnd",
          "dropCancel", "dropActive", "recordTerminal",
          "endActive", "endCancel", "leaving"}
CallerPc == {"readActive", "insert", "closing"}

\* finish_deferred_connection_close asks twice, close_connection_by_id then
\* takes five more locks.
CallPc == {"none", "askDeferred", "askActive",
           "undefer", "disconnect", "gather", "cancel", "release"}

TypeOK ==
  /\ connections \subseteq Conns
  /\ resources \subseteq Conns
  /\ deferred \subseteq Conns
  /\ active \in [Ids -> Entries]
  /\ cancellations \subseteq Ids
  /\ history \in [Ids -> ActiveStatus \cup EndStatus \cup {"none"}]
  /\ limiter \in [Conns -> 0..MaxConcurrency]
  /\ pc \in [Threads -> RunPc \cup CallerPc \cup {"idle", "done"}]
  /\ call \in [Threads -> CallPc]
  /\ job \in [Runs -> Jobs \cup {NoJob}]
  /\ result \in [Runs -> EndStatus \cup {"none"}]
  /\ arg \in [Threads -> [conn : Conns \cup {NoConn}, ids : SUBSET Ids]]

Init ==
  /\ connections = Conns
  /\ resources = Conns
  /\ deferred = {}
  /\ active = [i \in Ids |-> NoEntry]
  /\ cancellations = {}
  /\ history = [i \in Ids |-> "none"]
  /\ limiter = [c \in Conns |-> 0]
  /\ pc = [t \in Threads |-> "idle"]
  /\ call = [t \in Threads |-> "none"]
  /\ job = [r \in Runs |-> NoJob]
  /\ result = [r \in Runs |-> "none"]
  /\ arg = [t \in Threads |-> NoArg]

-----------------------------------------------------------------------------
(* Helpers *)

Live(t) == pc[t] \notin {"idle", "done"}

\* The thread is in its own code, not inside a nested close.
At(t, where) == pc[t] = where /\ call[t] = "none"

Goto(t, where) == pc' = [pc EXCEPT ![t] = where]

ConnOf(t) == arg[t].conn
IdOf(r)   == job[r].id

ActiveOn(c) == \E i \in Ids : active[i].conn = c

Spawned(r)     == Live(r) /\ pc[r] \notin {"checked", "registered", "queued"}
HoldsPermit(r) == Spawned(r) /\ pc[r] # "waiting"

\* The spawned future of a batch holds the semaphore until its last job ends.
LimiterHeld(c) ==
  \E r \in Runs : ConnOf(r) = c /\ \E s \in job[r].batch : Spawned(s)

-----------------------------------------------------------------------------
(* enqueue_sftp_transfers: get_connection, parse_jobs, register_jobs,      *)
(* record_queued for every job, then one spawn for the batch.              *)

\* Freedom of the environment, not of the code.
MaySubmit(c, i) ==
  /\ RetryWhileEnding \/ \A r \in Runs : Live(r) => IdOf(r) # i
  /\ SubmitWhileClosing \/ \A w \in Closers : ConnOf(w) # c

\* Ids within a batch are distinct: parse_jobs refuses the batch otherwise.
Submit(c, B, idOf, keyOf, k) ==
  /\ c \in connections
  /\ \A r \in B : pc[r] = "idle" /\ MaySubmit(c, idOf[r])
  /\ \A r, s \in B : idOf[r] = idOf[s] => r = s
  /\ pc' = [r \in Threads |-> IF r \in B THEN "checked" ELSE pc[r]]
  /\ job' = [r \in Runs |->
               IF r \in B
               THEN [id |-> idOf[r], key |-> keyOf[r], batch |-> B, conc |-> k]
               ELSE job[r]]
  /\ arg' = [t \in Threads |-> IF t \in B THEN [conn |-> c, ids |-> {}] ELSE arg[t]]
  /\ UNCHANGED <<connections, resources, deferred, active, cancellations,
                 history, limiter, call, result>>

SubmitSome ==
  \E c \in Conns, B \in (SUBSET Runs) \ {{}}, k \in 1..MaxConcurrency :
    \E idOf \in [B -> Ids],
       keyOf \in [B -> {ResourceKey(c, d, t) : d \in Directions, t \in Targets}] :
      Submit(c, B, idOf, keyOf, k)

BatchAt(B, where) == B # {} /\ \A r \in B : job[r].batch = B /\ pc[r] = where

\* Mutant: the targets of transfers already registered are not compared.
RefusedWithinBatch(B) ==
  \/ \E r \in B : active[IdOf(r)] # NoEntry
  \/ \E r, s \in B : r # s /\ job[r].key = job[s].key

\* register_jobs, under one hold of the active_transfers lock.
Refused(B) ==
  \/ \E r \in B : active[IdOf(r)] # NoEntry
  \/ \E r, s \in B : r # s /\ job[r].key = job[s].key
  \/ \E r \in B, i \in Ids : active[i].key = job[r].key

RegisterBatch(B) ==
  /\ BatchAt(B, "checked")
  /\ ~Refused(B)
  /\ active' = [i \in Ids |->
                  IF \E r \in B : IdOf(r) = i
                  THEN LET r == CHOOSE s \in B : IdOf(s) = i
                       IN  [conn |-> ConnOf(r), key |-> job[r].key]
                  ELSE active[i]]
  /\ pc' = [t \in Threads |-> IF t \in B THEN "registered" ELSE pc[t]]
  /\ UNCHANGED <<connections, resources, deferred, cancellations, history,
                 limiter, call, job, result, arg>>

RefuseBatch(B) ==
  /\ BatchAt(B, "checked")
  /\ Refused(B)
  /\ pc' = [t \in Threads |-> IF t \in B THEN "done" ELSE pc[t]]
  /\ job' = [r \in Runs |-> IF r \in B THEN NoJob ELSE job[r]]
  /\ arg' = [t \in Threads |-> IF t \in B THEN NoArg ELSE arg[t]]
  /\ UNCHANGED <<connections, resources, deferred, active, cancellations,
                 history, limiter, call, result>>

RecordQueued(r) ==
  /\ pc[r] = "registered"
  /\ history' = [history EXCEPT ![IdOf(r)] = "queued"]
  /\ Goto(r, "queued")
  /\ UNCHANGED <<connections, resources, deferred, active, cancellations,
                 limiter, call, job, result, arg>>

\* connection_transfer_limiter: a semaphore still held by an earlier batch is
\* reused with the size that batch gave it.
SpawnBatch(B) ==
  /\ BatchAt(B, "queued")
  /\ \E r \in B :
       limiter' = [limiter EXCEPT ![ConnOf(r)] =
                     IF LimiterHeld(ConnOf(r)) THEN @ ELSE job[r].conc]
  /\ pc' = [t \in Threads |-> IF t \in B THEN "waiting" ELSE pc[t]]
  /\ UNCHANGED <<connections, resources, deferred, active, cancellations,
                 history, call, job, result, arg>>

-----------------------------------------------------------------------------
(* run_job, up to the call of TransferReporter::finish.                    *)

AcquirePermit(r) ==
  /\ pc[r] = "waiting"
  /\ Cardinality({s \in Runs : ConnOf(s) = ConnOf(r) /\ HoldsPermit(s)})
       < limiter[ConnOf(r)]
  /\ Cardinality({s \in job[r].batch : HoldsPermit(s)}) < job[r].conc
  /\ Goto(r, "permitted")
  /\ UNCHANGED <<connections, resources, deferred, active, cancellations,
                 history, limiter, call, job, result, arg>>

\* A job cancelled while it was queued never starts.
StartJob(r) ==
  /\ pc[r] = "permitted"
  /\ IF IdOf(r) \in cancellations
     THEN /\ result' = [result EXCEPT ![r] = "canceled"]
          /\ Goto(r, "recordTerminal")
     ELSE /\ Goto(r, "starting")
          /\ UNCHANGED result
  /\ UNCHANGED <<connections, resources, deferred, active, cancellations,
                 history, limiter, call, job, arg>>

\* TransferReporter::register_active, once per reporter: an entry that is
\* there keeps its resource key, a new one has none.
RegisterActive(r) ==
  /\ pc[r] = "starting"
  /\ active' = [active EXCEPT ![IdOf(r)] = [conn |-> ConnOf(r), key |-> @.key]]
  /\ Goto(r, "started")
  /\ UNCHANGED <<connections, resources, deferred, cancellations, history,
                 limiter, call, job, result, arg>>

\* emit_progress and record_progress: a task that had ended runs again.
EmitProgress(r) ==
  /\ pc[r] \in {"started", "preparing", "transferring"}
  /\ history' = [history EXCEPT ![IdOf(r)] = "running"]
  /\ Goto(r, IF pc[r] = "started" THEN "preparing" ELSE pc[r])
  /\ UNCHANGED <<connections, resources, deferred, active, cancellations,
                 limiter, call, job, result, arg>>

\* Mutant: the session is opened from the connection read at submission.
OpenSessionFromSnapshot(r) ==
  /\ pc[r] = "preparing"
  /\ Goto(r, "transferring")
  /\ UNCHANGED <<connections, resources, deferred, active, cancellations,
                 history, limiter, call, job, result, arg>>

\* open_sftp_session_with_profile looks the connection up again.
OpenSession(r) ==
  /\ pc[r] = "preparing"
  /\ ConnOf(r) \in connections
  /\ Goto(r, "transferring")
  /\ UNCHANGED <<connections, resources, deferred, active, cancellations,
                 history, limiter, call, job, result, arg>>

Finish(r, how) ==
  /\ result' = [result EXCEPT ![r] = how]
  /\ Goto(r, "finishCancel")
  /\ UNCHANGED <<connections, resources, deferred, active, cancellations,
                 history, limiter, call, job, arg>>

CheckCanceled(r) ==
  /\ pc[r] \in {"preparing", "transferring"}
  /\ IdOf(r) \in cancellations
  /\ Finish(r, "canceled")

Complete(r) ==
  /\ pc[r] = "transferring"
  /\ Finish(r, "completed")

\* An I/O error, or no connection left to open the session on.
Fail(r) ==
  /\ pc[r] \in {"preparing", "transferring"}
  /\ Finish(r, "failed")

-----------------------------------------------------------------------------
(* The end of a run: TransferReporter::finish unregisters and records the  *)
(* end, dropping the reporter unregisters again, and so does run_job.      *)

ForgetCancellation(r, from, to) ==
  /\ At(r, from)
  /\ cancellations' = cancellations \ {IdOf(r)}
  /\ Goto(r, to)

ForgetActive(r, from, to) ==
  /\ At(r, from)
  /\ active' = [active EXCEPT ![IdOf(r)] = NoEntry]
  /\ Goto(r, to)

FinishCancel(r) ==
  /\ ForgetCancellation(r, "finishCancel", "finishActive")
  /\ UNCHANGED <<connections, resources, deferred, active, history, limiter,
                 call, job, result, arg>>

\* Mutant: the end of one transfer unregisters all of its connection.
FinishActiveOfConnection(r) ==
  /\ At(r, "finishActive")
  /\ active' = [i \in Ids |-> IF active[i].conn = ConnOf(r) THEN NoEntry ELSE active[i]]
  /\ Goto(r, "recordEnd")
  /\ call' = [call EXCEPT ![r] = "askDeferred"]
  /\ UNCHANGED <<connections, resources, deferred, cancellations, history,
                 limiter, job, result, arg>>

FinishActive(r) ==
  /\ ForgetActive(r, "finishActive", "recordEnd")
  /\ call' = [call EXCEPT ![r] = "askDeferred"]
  /\ UNCHANGED <<connections, resources, deferred, cancellations, history,
                 limiter, job, result, arg>>

\* A failure reaches finish from Drop itself, which then does not unregister
\* a second time, or from the upload plan, which returns into Drop.
RecordEnd(r) ==
  /\ At(r, "recordEnd")
  /\ history' = [history EXCEPT ![IdOf(r)] = result[r]]
  /\ \/ Goto(r, "dropCancel")
     \/ result[r] = "failed" /\ Goto(r, "recordTerminal")
  /\ UNCHANGED <<connections, resources, deferred, active, cancellations,
                 limiter, call, job, result, arg>>

DropCancel(r) ==
  /\ ForgetCancellation(r, "dropCancel", "dropActive")
  /\ UNCHANGED <<connections, resources, deferred, active, history, limiter,
                 call, job, result, arg>>

DropActive(r) ==
  /\ ForgetActive(r, "dropActive",
                  IF result[r] = "completed" THEN "endActive"
                                             ELSE "recordTerminal")
  /\ call' = [call EXCEPT ![r] = "askDeferred"]
  /\ UNCHANGED <<connections, resources, deferred, cancellations, history,
                 limiter, job, result, arg>>

\* finish_runtime_job: a task the user has removed meanwhile stays removed.
RecordTerminal(r) ==
  /\ At(r, "recordTerminal")
  /\ history' = [history EXCEPT ![IdOf(r)] = IF @ = "none" THEN @ ELSE result[r]]
  /\ Goto(r, "endActive")
  /\ UNCHANGED <<connections, resources, deferred, active, cancellations,
                 limiter, call, job, result, arg>>

\* Mutant: the job relies on its reporter to unregister it.
EndActiveKeepsEntry(r) ==
  /\ At(r, "endActive")
  /\ Goto(r, "endCancel")
  /\ UNCHANGED <<connections, resources, deferred, active, cancellations,
                 history, limiter, call, job, result, arg>>

EndActive(r) ==
  /\ ForgetActive(r, "endActive", "endCancel")
  /\ UNCHANGED <<connections, resources, deferred, cancellations, history,
                 limiter, call, job, result, arg>>

EndCancel(r) ==
  /\ ForgetCancellation(r, "endCancel", "leaving")
  /\ call' = [call EXCEPT ![r] = "askDeferred"]
  /\ UNCHANGED <<connections, resources, deferred, active, history, limiter,
                 job, result, arg>>

\* The future returns: its permit is released, its locals are gone.
Leave(r) ==
  /\ At(r, "leaving")
  /\ Goto(r, "done")
  /\ job' = [job EXCEPT ![r] = NoJob]
  /\ result' = [result EXCEPT ![r] = "none"]
  /\ arg' = [arg EXCEPT ![r] = NoArg]
  /\ UNCHANGED <<connections, resources, deferred, active, cancellations,
                 history, limiter, call>>

-----------------------------------------------------------------------------
(* finish_deferred_connection_close and close_connection_by_id, run by any *)
(* thread t on its connection; one lock at a time.                         *)

\* Mutant: the deferred close is taken before the transfers are counted.
AskDeferredTaking(t) ==
  /\ call[t] = "askDeferred"
  /\ call' = [call EXCEPT ![t] =
                IF ConnOf(t) \in deferred THEN "askActive" ELSE "none"]
  /\ deferred' = deferred \ {ConnOf(t)}
  /\ UNCHANGED <<connections, resources, active, cancellations,
                 history, limiter, pc, job, result, arg>>

AskDeferred(t) ==
  /\ call[t] = "askDeferred"
  /\ call' = [call EXCEPT ![t] =
                IF ConnOf(t) \in deferred THEN "askActive" ELSE "none"]
  /\ UNCHANGED <<connections, resources, deferred, active, cancellations,
                 history, limiter, pc, job, result, arg>>

AskActive(t) ==
  /\ call[t] = "askActive"
  /\ call' = [call EXCEPT ![t] =
                IF ActiveOn(ConnOf(t)) THEN "none" ELSE "undefer"]
  /\ UNCHANGED <<connections, resources, deferred, active, cancellations,
                 history, limiter, pc, job, result, arg>>

Undefer(t) ==
  /\ call[t] = "undefer"
  /\ deferred' = deferred \ {ConnOf(t)}
  /\ call' = [call EXCEPT ![t] = "disconnect"]
  /\ UNCHANGED <<connections, resources, active, cancellations, history,
                 limiter, pc, job, result, arg>>

\* The connection and its temporary keys go together.
DropConnection(t) ==
  /\ call[t] = "disconnect"
  /\ connections' = connections \ {ConnOf(t)}
  /\ call' = [call EXCEPT ![t] = "gather"]
  /\ UNCHANGED <<resources, deferred, active, cancellations, history,
                 limiter, pc, job, result, arg>>

\* cancel_transfers_for_connection reads the ids under one lock and cancels
\* them under another.
GatherActive(t) ==
  /\ call[t] = "gather"
  /\ arg' = [arg EXCEPT ![t].ids = {i \in Ids : active[i].conn = ConnOf(t)}]
  /\ call' = [call EXCEPT ![t] = "cancel"]
  /\ UNCHANGED <<connections, resources, deferred, active, cancellations,
                 history, limiter, pc, job, result>>

CancelGathered(t) ==
  /\ call[t] = "cancel"
  /\ cancellations' = cancellations \cup arg[t].ids
  /\ arg' = [arg EXCEPT ![t].ids = {}]
  /\ call' = [call EXCEPT ![t] = "release"]
  /\ UNCHANGED <<connections, resources, deferred, active, history, limiter,
                 pc, job, result>>

\* Terminals, pooled transports, port forwards, desktop and browser proxies,
\* database and HTTP tunnels of the connection.
ReleaseResources(t) ==
  /\ call[t] = "release"
  /\ resources' = resources \ {ConnOf(t)}
  /\ call' = [call EXCEPT ![t] = "none"]
  /\ UNCHANGED <<connections, deferred, active, cancellations, history,
                 limiter, pc, job, result, arg>>

CloseStep(t) ==
  \/ AskDeferred(t) \/ AskActive(t)
  \/ Undefer(t) \/ DropConnection(t) \/ GatherActive(t) \/ CancelGathered(t)
  \/ ReleaseResources(t)

-----------------------------------------------------------------------------
(* Calls that close a connection, cancel a transfer, or forget a task.     *)

MayClose(c) ==
  SubmitWhileClosing \/ \A r \in Runs :
    ConnOf(r) = c => pc[r] \notin {"checked", "registered", "queued"}

\* disconnect_connection, or the desktop window was destroyed.
Disconnect(w, c) ==
  /\ pc[w] = "idle"
  /\ MayClose(c)
  /\ arg' = [arg EXCEPT ![w].conn = c]
  /\ call' = [call EXCEPT ![w] = "undefer"]
  /\ Goto(w, "closing")
  /\ UNCHANGED <<connections, resources, deferred, active, cancellations,
                 history, limiter, job, result>>

\* close_connection_after_transfers, called when the SFTP window is destroyed.
WindowDestroyed(w, c) ==
  /\ pc[w] = "idle"
  /\ MayClose(c)
  /\ arg' = [arg EXCEPT ![w].conn = c]
  /\ Goto(w, "readActive")
  /\ UNCHANGED <<connections, resources, deferred, active, cancellations,
                 history, limiter, call, job, result>>

ReadActive(w) ==
  /\ pc[w] = "readActive"
  /\ IF ActiveOn(ConnOf(w))
     THEN Goto(w, "insert") /\ UNCHANGED call
     ELSE Goto(w, "closing") /\ call' = [call EXCEPT ![w] = "undefer"]
  /\ UNCHANGED <<connections, resources, deferred, active, cancellations,
                 history, limiter, job, result, arg>>

InsertDeferred(w) ==
  /\ pc[w] = "insert"
  /\ deferred' = deferred \cup {ConnOf(w)}
  /\ Goto(w, "done")
  /\ UNCHANGED <<connections, resources, active, cancellations, history,
                 limiter, call, job, result, arg>>

Closed(w) ==
  /\ At(w, "closing")
  /\ Goto(w, "done")
  /\ UNCHANGED <<connections, resources, deferred, active, cancellations,
                 history, limiter, call, job, result, arg>>

\* cancel_transfer for one id, or for every transfer of the connection when
\* the id is empty; with nothing to cancel it returns at once.
CancelRequest(x, c) ==
  /\ pc[x] = "idle"
  /\ \E found \in {{i} : i \in Ids} \cup {{i \in Ids : active[i].conn = c}} :
       /\ found # {}
       /\ \A i \in found : active[i].conn = c
       /\ arg' = [arg EXCEPT ![x] = [conn |-> c, ids |-> found]]
  /\ Goto(x, "insert")
  /\ UNCHANGED <<connections, resources, deferred, active, cancellations,
                 history, limiter, call, job, result>>

InsertCancellations(x) ==
  /\ pc[x] = "insert"
  /\ cancellations' = cancellations \cup arg[x].ids
  /\ Goto(x, "done")
  /\ arg' = [arg EXCEPT ![x] = NoArg]
  /\ UNCHANGED <<connections, resources, deferred, active, history, limiter,
                 call, job, result>>

\* TransferHistory::remove: a task that looks active stays.
RemoveTask(i) ==
  /\ history[i] \in EndStatus
  /\ history' = [history EXCEPT ![i] = "none"]
  /\ UNCHANGED <<connections, resources, deferred, active, cancellations,
                 limiter, pc, call, job, result, arg>>

-----------------------------------------------------------------------------
EnqueueStep(B) == RegisterBatch(B) \/ RefuseBatch(B) \/ SpawnBatch(B)

RunForward(r) ==
  \/ RecordQueued(r) \/ AcquirePermit(r) \/ StartJob(r) \/ RegisterActive(r)
  \/ OpenSession(r)
  \/ CheckCanceled(r) \/ Complete(r) \/ Fail(r)
  \/ FinishCancel(r) \/ FinishActive(r) \/ RecordEnd(r)
  \/ DropCancel(r) \/ DropActive(r) \/ RecordTerminal(r)
  \/ EndActive(r) \/ EndCancel(r) \/ Leave(r)

RunStep(r) == RunForward(r) \/ EmitProgress(r)

CloserStep(w) ==
  \/ \E c \in Conns : Disconnect(w, c) \/ WindowDestroyed(w, c)
  \/ ReadActive(w) \/ InsertDeferred(w) \/ Closed(w)

CancelerStep(x) ==
  \/ \E c \in Conns : CancelRequest(x, c)
  \/ InsertCancellations(x)

Quiet == \A t \in Threads : ~Live(t) /\ call[t] = "none"

\* Nothing is under way: the program waits for its user.
Rest == Quiet /\ UNCHANGED vars

Next ==
  \/ SubmitSome
  \/ \E B \in SUBSET Runs : EnqueueStep(B)
  \/ \E r \in Runs : RunStep(r)
  \/ \E t \in Threads : CloseStep(t)
  \/ \E w \in Closers : CloserStep(w)
  \/ \E x \in Cancelers : CancelerStep(x)
  \/ \E i \in Ids : RemoveTask(i)
  \/ Rest

Spec == Init /\ [][Next]_vars

\* Every thread that has started goes on, and every transfer ends (success,
\* error or time-out of its session); nobody is obliged to start anything.
Fairness ==
  /\ \A B \in SUBSET Runs : WF_vars(EnqueueStep(B))
  /\ \A r \in Runs :
       /\ WF_vars(RunForward(r))
       /\ WF_vars(EmitProgress(r) /\ pc[r] = "started")
       /\ WF_vars(Fail(r) \/ Complete(r))
  /\ \A t \in Threads : WF_vars(CloseStep(t))
  /\ \A w \in Closers :
       WF_vars(ReadActive(w) \/ InsertDeferred(w) \/ Closed(w))
  /\ \A x \in Cancelers : WF_vars(InsertCancellations(x))

FairSpec == Spec /\ Fairness

-----------------------------------------------------------------------------
(* Properties *)

\* transfer_runtime.rs:261 refuses a job whose target another task writes:
\* two transfers never write to one target at the same time.
ExclusiveTargets ==
  \A r, s \in Runs :
    r # s /\ pc[r] = "transferring" /\ pc[s] = "transferring"
      => job[r].key # job[s].key

\* active_transfers is what every close decides by: an id stays there while
\* a run of it is registered and not yet finishing, on its connection...
Registered(r) ==
  pc[r] \in {"registered", "queued", "waiting", "permitted", "starting",
             "started", "preparing", "transferring", "finishCancel",
             "finishActive"}
RunsAreActive ==
  \A r \in Runs : Registered(r) => active[IdOf(r)].conn = ConnOf(r)

\* ... and nothing looks active that no run stands behind: a forgotten entry
\* would block the target and the deferred close for ever, and a task left
\* queued or running in the history could not be removed.
ActiveIsBacked ==
  \A i \in Ids : active[i] # NoEntry \/ history[i] \in ActiveStatus
                => \E r \in Runs : Live(r) /\ IdOf(r) = i

\* Closing a connection stops what runs on it: once close_connection_by_id
\* has returned, a transfer that goes on has been told to stop.
ClosedStopsTransfers ==
  \A r \in Runs :
    /\ pc[r] = "transferring"
    /\ ConnOf(r) \notin connections
    /\ \A t \in Threads : ConnOf(t) = ConnOf(r) => call[t] \notin {"gather", "cancel"}
    => IdOf(r) \in cancellations

\* docs/sftp-transfer-window.md:14: closing the window lets queued and running
\* transfers go on.  A close that a transfer's end triggers never takes the
\* connection from another transfer.
DeferredCloseSparesTransfers ==
  [][\A r \in Runs :
       call[r] = "disconnect" /\ call'[r] = "gather"
         => \A s \in Runs : ConnOf(s) = ConnOf(r) => ~Registered(s)]_vars

\* The same sentence: the connection goes after the last background task.
\* When everything is at rest no close is still waiting for a transfer.
NoCloseLeftBehind == Quiet => deferred = {}

\* What the code does achieve: a close deferred while a transfer is
\* registered is carried out, resources included.
DeferredCloseHappens ==
  \A c \in Conns :
    (c \in deferred /\ ActiveOn(c)) ~> (c \notin connections /\ c \notin resources)
=============================================================================
