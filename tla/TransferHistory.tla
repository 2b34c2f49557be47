-------------------------- MODULE TransferHistory ---------------------------
(***************************************************************************)
(* The history of transfers (transfer_history.rs) and the jobs that write  *)
(* to it (transfer_runtime.rs, TransferReporter).  A job records what      *)
(* becomes of its transfer in three steps: it changes the list in memory,  *)
(* it writes the file, it tells the windows.  Between any two of them      *)
(* other jobs and calls do the same, or the program dies.                  *)
(*                                                                         *)
(* How jobs are admitted, cancelled and closed with their connection is    *)
(* the subject of TransferRuntime; here a job only runs, reports and ends. *)
(***************************************************************************)
EXTENDS Naturals, FiniteSets

CONSTANTS Task,        \* the ids of transfers
          MaxFinished, \* MAX_TRANSFER_HISTORY
          MaxTurns     \* bound on reports beyond a job's first and other events

ASSUME HistoryAssumption == IsFiniteSet(Task) /\ MaxFinished \in Nat

VARIABLES tasks,    \* the list in memory: what is recorded of each id
          file,     \* transfer-history.json
          now,      \* the clock behind updatedAt
          job,      \* job[t]: where the job of t is, and what it owes
          canceled, \* transfer_cancellations
          turns

historyVars == <<tasks, file, now, job, canceled, turns>>

ActiveStatus == {"queued", "running"}
EndStatus == {"completed", "failed", "canceled"}

NoRecord == [status |-> "none", at |-> 0]
Record == [status : ActiveStatus \cup EndStatus \cup {"none"}, at : Nat]

\* `due' is what remains of a record's three steps, `record' its snapshot.
IdleJob == [at |-> "idle", end |-> "none", due |-> "nothing", record |-> NoRecord]
Job == [at : {"idle", "registered", "waiting", "running", "unregistered",
              "reported", "leaving", "stopped"},
        end : EndStatus \cup {"none"},
        due : {"nothing", "persist", "emit"},
        record : Record]

HistoryTypeOK ==
  /\ tasks \in [Task -> Record]
  /\ file \in [Task -> Record]
  /\ now \in Nat
  /\ job \in [Task -> Job]
  /\ \A t \in Task : job[t].at = "idle" => job[t] = IdleJob
  /\ canceled \in SUBSET Task
  /\ turns \in 0..MaxTurns

HistoryInit ==
  /\ tasks = [t \in Task |-> NoRecord]
  /\ file = tasks
  /\ now = 0
  /\ job = [t \in Task |-> IdleJob]
  /\ canceled = {}
  /\ turns = 0

\* prune_tasks: the newest finished ones stay, and everything active.
Pruned(h) ==
  [t \in Task |->
    IF /\ h[t].status \in EndStatus
       /\ Cardinality({u \in Task : h[u].status \in EndStatus /\ h[u].at > h[t].at})
            >= MaxFinished
    THEN NoRecord ELSE h[t]]

\* normalize_stored_task, over the file from the newest entry to the oldest.
Interrupted(h) ==
  [t \in Task |->
    IF h[t].status \in ActiveStatus
    THEN [status |-> "failed", at |-> now + 1 +
            Cardinality({u \in Task : h[u].status \in ActiveStatus /\ h[u].at > h[t].at})]
    ELSE h[t]]

\* A job is in active_transfers, where a submission and a cancel look.
Registered(t) == job[t].at \in {"registered", "waiting", "running", "stopped"}

NothingDue(t) == job[t].due = "nothing"

\* The first step of a record.
Put(t, status, next, end) ==
  LET record == [status |-> status, at |-> now + 1] IN
  /\ now' = now + 1
  /\ tasks' = Pruned([tasks EXCEPT ![t] = record])
  /\ job' = [job EXCEPT ![t] = [at |-> next, end |-> end, due |-> "persist",
                                record |-> record]]
  /\ UNCHANGED file

RecordQueued(t) ==
  /\ job[t].at = "registered"
  /\ Put(t, "queued", "waiting", "none")
  /\ UNCHANGED <<canceled, turns>>

\* A permit is there: the job ends before it begins, or reports its planning.
Start(t) ==
  /\ job[t].at = "waiting" /\ NothingDue(t)
  /\ IF t \in canceled
     THEN Put(t, "canceled", "stopped", "canceled")
     ELSE \/ Put(t, "running", "running", "none")
          \/ Put(t, "failed", "stopped", "failed")
  /\ UNCHANGED <<canceled, turns>>

\* Progress is written to the file only once a second.
Progress(t) ==
  /\ job[t].at = "running" /\ NothingDue(t)
  /\ turns < MaxTurns
  /\ turns' = turns + 1
  /\ now' = now + 1
  /\ LET record == [status |-> "running", at |-> now + 1] IN
       /\ tasks' = Pruned([tasks EXCEPT ![t] = record])
       /\ \E due \in {"persist", "emit"} :
            job' = [job EXCEPT ![t].due = due, ![t].record = record]
  /\ UNCHANGED <<file, canceled>>

\* The transfer succeeds, fails, or notices that it is cancelled; it leaves
\* the active transfers before its end is recorded.
End(t) ==
  /\ job[t].at = "running" /\ NothingDue(t)
  /\ \E end \in {"completed", "failed"} \cup {s \in {"canceled"} : t \in canceled} :
       job' = [job EXCEPT ![t].at = "unregistered", ![t].end = end]
  /\ canceled' = canceled \ {t}
  /\ UNCHANGED <<tasks, file, now, turns>>

RecordEnd(t) ==
  /\ job[t].at = "unregistered"
  /\ Put(t, job[t].end, "reported", job[t].end)
  /\ UNCHANGED <<canceled, turns>>

\* An end that is not a success is recorded once more, if it is still listed.
Leave(t) ==
  /\ job[t].at = "reported" /\ NothingDue(t)
  /\ IF job[t].end # "completed" /\ tasks[t] # NoRecord
     THEN Put(t, job[t].end, "leaving", job[t].end)
     ELSE /\ job' = [job EXCEPT ![t].at = "leaving"]
          /\ UNCHANGED <<tasks, file, now>>
  /\ UNCHANGED <<canceled, turns>>

Finish(t) ==
  /\ job[t].at \in {"leaving", "stopped"} /\ NothingDue(t)
  /\ job' = [job EXCEPT ![t] = IdleJob]
  /\ canceled' = canceled \ {t}
  /\ UNCHANGED <<tasks, file, now, turns>>

\* Mutant: a job writes the record it has made, not the list as it is now.
PersistOwn(t) ==
  /\ job[t].due = "persist"
  /\ file' = [file EXCEPT ![t] = job[t].record]
  /\ job' = [job EXCEPT ![t].due = "emit"]
  /\ UNCHANGED <<tasks, now, canceled, turns>>

\* persist: under its lock the list is read afresh and written.
Persist(t) ==
  /\ job[t].due = "persist"
  /\ file' = Pruned(tasks)
  /\ job' = [job EXCEPT ![t].due = "emit"]
  /\ UNCHANGED <<tasks, now, canceled, turns>>

JobStep(t) ==
  \/ RecordQueued(t) \/ Start(t) \/ Progress(t) \/ End(t) \/ RecordEnd(t)
  \/ Leave(t) \/ Finish(t) \/ Persist(t)

=============================================================================
