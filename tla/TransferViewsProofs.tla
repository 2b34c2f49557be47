------------------------ MODULE TransferViewsProofs -------------------------
(***************************************************************************)
(* Proofs about TransferViews, for any number of transfers and any bounds: *)
(* what the history, its file and the events on their way to the windows   *)
(* have to do with one another, and what the windows show in the end.      *)
(***************************************************************************)
EXTENDS TransferViews, FiniteSetTheorems, TLAPS

-----------------------------------------------------------------------------
(* prune_tasks                                                             *)

NewerEnded(h, t) == {u \in Task : h[u].status \in EndStatus /\ h[u].at > h[t].at}

\* Pruning only drops records, and none that is active.
LEMMA PrunedDrops ==
  ASSUME NEW h \in [Task -> Record]
  PROVE  /\ Pruned(h) \in [Task -> Record]
         /\ \A t \in Task : Pruned(h)[t] \in {h[t], NoRecord}
         /\ \A t \in Task : h[t].status \notin EndStatus => Pruned(h)[t] = h[t]
<1>1. NoRecord \in Record
  BY DEF NoRecord, Record
<1> QED BY <1>1 DEF Pruned

\* A list from which records were dropped needs no more pruning than before.
LEMMA DroppedIsPruned ==
  ASSUME NEW h \in [Task -> Record], NEW g \in [Task -> Record],
         \A t \in Task : g[t] \in {h[t], NoRecord},
         \A t \in Task : g[t].status \in EndStatus =>
           ~(Cardinality(NewerEnded(h, t)) >= MaxFinished)
  PROVE  Pruned(g) = g
<1>1. ASSUME NEW t \in Task, g[t].status \in EndStatus
      PROVE  ~(Cardinality(NewerEnded(g, t)) >= MaxFinished)
  <2>1. g[t] = h[t]
    BY <1>1 DEF NoRecord, EndStatus
  <2>2. NewerEnded(g, t) \subseteq NewerEnded(h, t)
    BY <2>1 DEF NewerEnded, NoRecord, EndStatus
  <2>3. IsFiniteSet(NewerEnded(h, t))
    BY HistoryAssumption, FS_Subset DEF NewerEnded
  <2>4. /\ Cardinality(NewerEnded(g, t)) <= Cardinality(NewerEnded(h, t))
        /\ Cardinality(NewerEnded(h, t)) \in Nat
        /\ Cardinality(NewerEnded(g, t)) \in Nat
    BY <2>2, <2>3, FS_Subset, FS_CardinalityType
  <2>5. ~(Cardinality(NewerEnded(h, t)) >= MaxFinished)
    BY <1>1
  <2> HIDE DEF NewerEnded
  <2> QED BY <2>4, <2>5, HistoryAssumption
<1>2. Pruned(g) = [t \in Task |-> g[t]]
  BY <1>1 DEF Pruned, NewerEnded
<1> QED BY <1>2

LEMMA PrunedTwice ==
  ASSUME NEW h \in [Task -> Record]
  PROVE  Pruned(Pruned(h)) = Pruned(h)
<1>1. ASSUME NEW t \in Task, Pruned(h)[t].status \in EndStatus
      PROVE  ~(Cardinality(NewerEnded(h, t)) >= MaxFinished)
  BY <1>1 DEF Pruned, NewerEnded, NoRecord, EndStatus
<1> QED BY <1>1, PrunedDrops, DroppedIsPruned

LEMMA DroppedStaysPruned ==
  ASSUME NEW h \in [Task -> Record], Pruned(h) = h, NEW g \in [Task -> Record],
         \A t \in Task : g[t] \in {h[t], NoRecord}
  PROVE  Pruned(g) = g
<1>1. ASSUME NEW t \in Task, g[t].status \in EndStatus
      PROVE  ~(Cardinality(NewerEnded(h, t)) >= MaxFinished)
  <2>1. g[t] = h[t] /\ h[t].status \in EndStatus
    BY <1>1 DEF NoRecord, EndStatus
  <2>2. Pruned(h)[t] # NoRecord
    BY <2>1 DEF NoRecord, EndStatus
  <2> QED BY <2>1, <2>2 DEF Pruned, NewerEnded
<1> QED BY <1>1, DroppedIsPruned

-----------------------------------------------------------------------------
(* The invariant                                                           *)

\* An end that was told is on disk, if it is still what is listed.
OnDisk(r, t) == r.status \in EndStatus /\ tasks[t] = r => file[t] = r

JobInv(t) ==
  /\ job[t].at = "idle" => job[t].due = "nothing"
  /\ job[t].at \in {"idle", "reported", "leaving", "stopped"} =>
       tasks[t].status \notin ActiveStatus
  /\ job[t].at = "running" => tasks[t].status = "running"
  /\ job[t].at \in {"unregistered", "reported"} => job[t].end \in EndStatus
  /\ job[t].due # "nothing" => job[t].record.at <= now
  /\ job[t].due # "nothing" /\ job[t].record.status = "queued" => job[t].at = "waiting"
  /\ job[t].due = "emit" => OnDisk(job[t].record, t)

\* The call that submitted a transfer waits until its first event is told.
SubmitInv(t) ==
  job[t].at = "registered" \/ (job[t].at = "waiting" /\ job[t].due # "nothing")
    => call[t].kind = "submit" /\ call[t].at = "persist"

Event == [kind : {"task", "progress"}, task : Task, record : Record]

EventInv(event) == event.record.at <= now /\ OnDisk(event.record, event.task)

EventsInv == \A p \in Pane : \A i \in 1..Len(inbox[p]) : EventInv(inbox[p][i])

HistoryInv ==
  /\ tasks \in [Task -> Record] /\ Pruned(tasks) = tasks
  /\ file \in [Task -> Record]
  /\ now \in Nat
  /\ job \in [Task -> Job]
  /\ \A t \in Task : JobInv(t)

CallRecord == [kind : CallKind \cup {"none"},
               at : {"none", "asked", "persist", "answered"},
               ok : BOOLEAN, lost : BOOLEAN]

ChoreRecord == [kind : {"none", "remove", "clear"},
                at : {"none", "asked", "persist", "answered"}, of : SUBSET Task]

ViewsInv ==
  /\ call \in [Task -> CallRecord]
  /\ chore \in ChoreRecord
  /\ \A t \in Task : SubmitInv(t)
  /\ inbox \in [Pane -> Seq(Event)]
  /\ EventsInv
  /\ FileIsCurrent

Inv == HistoryInv /\ ViewsInv

LEMMA RecordFacts ==
  /\ NoRecord \in Record /\ NoRecord.status \notin ActiveStatus \cup EndStatus
  /\ IdleJob \in Job /\ IdleJob.at = "idle" /\ IdleJob.due = "nothing"
  /\ \A r \in Record : r.at \in Nat
  /\ \A j \in Job : j.record \in Record
BY DEF NoRecord, Record, IdleJob, Job, ActiveStatus, EndStatus

-----------------------------------------------------------------------------
(* The steps of a record                                                   *)

RecordOf(status) == [status |-> status, at |-> now + 1]
ListWith(t, status) == Pruned([tasks EXCEPT ![t] = RecordOf(status)])

\* What a record's first step does to the rest of the list.
LEMMA PutList ==
  ASSUME HistoryInv, NEW t \in Task, NEW status \in ActiveStatus \cup EndStatus
  PROVE  /\ RecordOf(status) \in Record
         /\ ListWith(t, status) \in [Task -> Record] /\ Pruned(ListWith(t, status)) = ListWith(t, status)
         /\ ListWith(t, status)[t] \in {RecordOf(status), NoRecord}
         /\ status \in ActiveStatus => ListWith(t, status)[t] = RecordOf(status)
         /\ \A u \in Task \ {t} : /\ ListWith(t, status)[u] \in {tasks[u], NoRecord}
                                  /\ tasks[u].status \in ActiveStatus => ListWith(t, status)[u] = tasks[u]
<1> DEFINE h == [tasks EXCEPT ![t] = RecordOf(status)]
<1>1. RecordOf(status) \in Record
  BY DEF HistoryInv, Record, RecordOf
<1>2. h \in [Task -> Record] /\ h[t] = RecordOf(status) /\ \A u \in Task \ {t} : h[u] = tasks[u]
  BY <1>1 DEF HistoryInv
<1>3. \A r \in Record : r.status \in ActiveStatus => r.status \notin EndStatus
  BY DEF ActiveStatus, EndStatus
<1>0. RecordOf(status).status = status
  BY DEF RecordOf
<1> HIDE DEF h
<1>4. /\ Pruned(h) \in [Task -> Record]
      /\ \A u \in Task : Pruned(h)[u] \in {h[u], NoRecord}
      /\ \A u \in Task : h[u].status \notin EndStatus => Pruned(h)[u] = h[u]
  BY <1>2, PrunedDrops
<1>5. Pruned(Pruned(h)) = Pruned(h)
  BY <1>2, PrunedTwice
<1>6. ListWith(t, status) = Pruned(h)
  BY DEF h, ListWith
<1>7. ASSUME NEW u \in Task \ {t}
      PROVE  /\ ListWith(t, status)[u] \in {tasks[u], NoRecord}
             /\ tasks[u].status \in ActiveStatus => ListWith(t, status)[u] = tasks[u]
  <2>1. tasks[u] \in Record
    BY DEF HistoryInv
  <2> QED BY <1>2, <1>3, <1>4, <1>6, <2>1
<1>8. status \in ActiveStatus => ListWith(t, status)[t] = RecordOf(status)
  BY <1>0, <1>1, <1>2, <1>3, <1>4, <1>6
<1> QED BY <1>1, <1>2, <1>4, <1>5, <1>6, <1>7, <1>8

\* A record made earlier is not the one that is put now.
LEMMA OldRecordsOnDisk ==
  ASSUME HistoryInv, NEW t \in Task, NEW list, NEW record,
         record.at = now + 1, list[t] \in {record, NoRecord},
         \A u \in Task \ {t} : list[u] \in {tasks[u], NoRecord},
         tasks' = list, file' = file, now' = now + 1,
         NEW r \in Record, r.at <= now, NEW u \in Task, OnDisk(r, u)
  PROVE  OnDisk(r, u)'
<1>1. r.status \in EndStatus => r # NoRecord
  BY RecordFacts
<1>2. r # record
  BY RecordFacts DEF HistoryInv
<1> QED BY <1>1, <1>2 DEF OnDisk

\* The events on their way stay true when a record is put.
LEMMA EventsAfterPut ==
  ASSUME Inv, NEW t \in Task, NEW list, NEW record,
         record.at = now + 1, list[t] \in {record, NoRecord},
         \A u \in Task \ {t} : list[u] \in {tasks[u], NoRecord},
         tasks' = list, file' = file, now' = now + 1, inbox' = inbox
  PROVE  EventsInv'
<1> SUFFICES ASSUME NEW p \in Pane, NEW i \in 1..Len(inbox[p])'
             PROVE  EventInv(inbox[p][i])'
  BY DEF EventsInv
<1>1. inbox[p][i] \in Event /\ EventInv(inbox[p][i])
  BY DEF Inv, ViewsInv, EventsInv
<1>2. inbox[p][i].record \in Record /\ inbox[p][i].task \in Task
      /\ inbox[p][i].record.at \in Nat /\ now \in Nat
  BY <1>1, RecordFacts DEF Event, Inv, HistoryInv
<1>3. OnDisk(inbox[p][i].record, inbox[p][i].task)'
  BY <1>1, <1>2, OldRecordsOnDisk DEF EventInv, Inv
<1> QED BY <1>1, <1>2, <1>3 DEF EventInv

LEMMA PutInv ==
  ASSUME Inv, NEW t \in Task, NEW status \in ActiveStatus \cup EndStatus,
         NEW next \in {"waiting", "running", "reported", "leaving", "stopped"},
         NEW end \in EndStatus \cup {"none"},
         Put(t, status, next, end), UNCHANGED <<call, inbox, chore>>,
         status = "queued" => next = "waiting",
         next = "running" => status = "running",
         next \in {"reported", "leaving", "stopped"} => status \in EndStatus,
         next = "reported" => end \in EndStatus,
         next = "waiting" => call[t].kind = "submit" /\ call[t].at = "persist"
  PROVE  Inv'
<1> DEFINE record == RecordOf(status)
           list == ListWith(t, status)
           next_job == [at |-> next, end |-> end, due |-> "persist", record |-> record]
<1>1. /\ tasks' = list /\ now' = now + 1 /\ file' = file
      /\ job' = [job EXCEPT ![t] = next_job]
  BY DEF Put, RecordOf, ListWith
<1>2. record.status = status /\ record.at = now + 1 /\ now \in Nat
  BY DEF Inv, HistoryInv, RecordOf
<1>3. /\ record \in Record
      /\ list \in [Task -> Record] /\ Pruned(list) = list
      /\ list[t] \in {record, NoRecord}
      /\ status \in ActiveStatus => list[t] = record
      /\ \A u \in Task \ {t} : /\ list[u] \in {tasks[u], NoRecord}
                               /\ tasks[u].status \in ActiveStatus => list[u] = tasks[u]
  BY PutList DEF Inv
<1>4. /\ next_job \in Job /\ next_job.at = next /\ next_job.end = end
      /\ next_job.due = "persist" /\ next_job.record = record
  BY <1>3 DEF Job
<1> HIDE DEF record, list, next_job
<1>5. job' \in [Task -> Job] /\ job'[t] = next_job /\ \A u \in Task \ {t} : job'[u] = job[u]
  BY <1>1, <1>4 DEF Inv, HistoryInv
<1>6. JobInv(t)'
  <2>1. ActiveStatus \cap EndStatus = {} /\ "queued" \notin EndStatus
    BY DEF ActiveStatus, EndStatus
  <2>2. tasks'[t] \in {record, NoRecord} /\ (status \in ActiveStatus => tasks'[t] = record)
    BY <1>1, <1>3
  <2>3. "running" \in ActiveStatus
    BY DEF ActiveStatus
  <2> QED
    BY <1>1, <1>2, <1>4, <1>5, <2>1, <2>2, <2>3, RecordFacts DEF JobInv
<1>7. ASSUME NEW u \in Task \ {t} PROVE JobInv(u)'
  <2>1. JobInv(u) /\ job'[u] = job[u] /\ job[u].record \in Record
    BY <1>5, RecordFacts DEF Inv, HistoryInv
  <2>2. tasks'[u] \in {tasks[u], NoRecord}
        /\ (tasks[u].status \in ActiveStatus => tasks'[u] = tasks[u])
    BY <1>1, <1>3
  <2>3. job[u].record.at \in Nat
    BY <2>1, RecordFacts
  <2>4. job[u].due = "emit" => OnDisk(job[u].record, u)'
    BY <1>1, <1>2, <1>3, <2>1, <2>3, OldRecordsOnDisk DEF JobInv, Inv
  <2>5. tasks[u].status = "running" => tasks'[u] = tasks[u]
    BY <2>2 DEF ActiveStatus
  <2>6. job[u].due # "nothing" => job'[u].record.at <= now'
    BY <1>1, <1>2, <2>1, <2>3 DEF JobInv
  <2>7. tasks[u].status \notin ActiveStatus => tasks'[u].status \notin ActiveStatus
    BY <2>2, RecordFacts
  <2> QED BY <2>1, <2>4, <2>5, <2>6, <2>7 DEF JobInv
<1>8. HistoryInv'
  BY <1>1, <1>2, <1>3, <1>5, <1>6, <1>7 DEF HistoryInv, Inv
<1>9. \A u \in Task : SubmitInv(u)'
  BY <1>4, <1>5 DEF SubmitInv, Inv, ViewsInv
<1>10. FileIsCurrent'
  BY <1>4, <1>5 DEF FileIsCurrent, NothingPersisting
<1>11. EventsInv'
  BY <1>1, <1>2, <1>3, EventsAfterPut
<1>12. ViewsInv'
  BY <1>9, <1>10, <1>11 DEF ViewsInv, Inv
<1> QED BY <1>8, <1>12 DEF Inv

-----------------------------------------------------------------------------
(* The other steps of a job                                                *)

\* Steps that leave the list, the file, the clock and the calls alone.
LEMMA JobOnly ==
  ASSUME Inv, UNCHANGED <<tasks, file, now, call, inbox, chore>>,
         job' \in [Task -> Job], NEW t \in Task,
         \A u \in Task \ {t} : job'[u] = job[u],
         job[t].due = "nothing", job'[t].due = "nothing",
         JobInv(t)', SubmitInv(t)'
  PROVE  Inv'
<1>1. \A u \in Task : JobInv(u)'
  BY DEF Inv, HistoryInv, JobInv, OnDisk
<1>2. \A u \in Task : SubmitInv(u)'
  BY DEF Inv, ViewsInv, SubmitInv
<1>3. EventsInv'
  BY DEF Inv, ViewsInv, EventsInv, EventInv, OnDisk
<1>4. FileIsCurrent'
  BY DEF Inv, ViewsInv, FileIsCurrent, NothingPersisting
<1> QED BY <1>1, <1>2, <1>3, <1>4 DEF Inv, HistoryInv, ViewsInv

LEMMA ProgressInv ==
  ASSUME Inv, NEW t \in Task, Progress(t), UNCHANGED <<call, inbox, chore>>
  PROVE  Inv'
<1> DEFINE record == RecordOf("running")
           list == ListWith(t, "running")
<1>1. PICK due \in {"persist", "emit"} :
        /\ tasks' = list /\ now' = now + 1 /\ file' = file
        /\ job' = [job EXCEPT ![t].due = due, ![t].record = record]
  BY DEF Progress, RecordOf, ListWith
<1>2. record.status = "running" /\ record.at = now + 1 /\ now \in Nat
  BY DEF Inv, HistoryInv, RecordOf
<1>3. /\ record \in Record
      /\ list \in [Task -> Record] /\ Pruned(list) = list
      /\ list[t] = record
      /\ \A u \in Task \ {t} : /\ list[u] \in {tasks[u], NoRecord}
                               /\ tasks[u].status \in ActiveStatus => list[u] = tasks[u]
  <2>1. "running" \in ActiveStatus
    BY DEF ActiveStatus
  <2> QED BY <2>1, PutList DEF Inv
<1>4. job[t] \in Job /\ job[t].at = "running" /\ job[t].due = "nothing"
      /\ tasks[t].status = "running" /\ tasks[t] \in Record
  BY DEF Progress, NothingDue, Inv, HistoryInv, JobInv
\* The record that changes was and stays a running one.
<1>5. \A u \in Task \ {t} : list[u] = tasks[u]
  <2> DEFINE g == [tasks EXCEPT ![t] = record]
  <2>1. g \in [Task -> Record] /\ g[t] = record /\ \A u \in Task \ {t} : g[u] = tasks[u]
    BY <1>3 DEF Inv, HistoryInv
  <2>2. list = Pruned(g)
    BY DEF ListWith
  <2> HIDE DEF g
  <2>3. \A u \in Task : g[u].status \in EndStatus => u # t
    BY <1>2, <2>1 DEF EndStatus
  <2>4. ASSUME NEW u \in Task, g[u].status \in EndStatus
        PROVE  ~(Cardinality(NewerEnded(g, u)) >= MaxFinished)
    <3>1. u # t /\ g[u] = tasks[u] /\ tasks[u].status \in EndStatus
      BY <2>1, <2>3, <2>4
    <3>2. NewerEnded(g, u) = NewerEnded(tasks, u)
      BY <1>2, <1>4, <2>1, <3>1 DEF NewerEnded, EndStatus
    <3>3. Pruned(tasks)[u] # NoRecord
      BY <3>1, RecordFacts DEF Inv, HistoryInv
    <3>4. ~(Cardinality(NewerEnded(tasks, u)) >= MaxFinished)
      BY <3>1, <3>3 DEF Pruned, NewerEnded
    <3> QED BY <3>2, <3>4
  <2>5. Pruned(g) = g
    BY <2>1, <2>4, DroppedIsPruned
  <2> QED BY <2>1, <2>2, <2>5
<1> HIDE DEF record, list
<1> DEFINE next == [job[t] EXCEPT !.due = due, !.record = record]
<1>5a. next \in Job /\ next.at = "running" /\ next.due = due /\ next.record = record
  BY <1>3, <1>4 DEF Job
<1>5b. job' = [job EXCEPT ![t] = next]
  BY <1>1 DEF Inv, HistoryInv
<1> HIDE DEF next
<1>6. job' \in [Task -> Job] /\ \A u \in Task \ {t} : job'[u] = job[u]
  BY <1>5a, <1>5b DEF Inv, HistoryInv
<1>7. /\ job'[t].at = "running" /\ job'[t].due = due /\ job'[t].record = record
  BY <1>5a, <1>5b DEF Inv, HistoryInv
<1>8. JobInv(t)'
  BY <1>1, <1>2, <1>3, <1>7 DEF JobInv, OnDisk, EndStatus, ActiveStatus
<1>9. ASSUME NEW u \in Task \ {t} PROVE JobInv(u)'
  <2>1. JobInv(u) /\ job'[u] = job[u] /\ job[u].record.at \in Nat
    BY <1>6, RecordFacts DEF Inv, HistoryInv
  <2>2. tasks'[u] = tasks[u] /\ file'[u] = file[u]
    BY <1>1, <1>5
  <2> QED BY <1>1, <1>2, <2>1, <2>2 DEF JobInv, OnDisk
<1>10. \A u \in Task : SubmitInv(u)'
  BY <1>6, <1>7 DEF SubmitInv, Inv, ViewsInv
<1>11. EventsInv'
  BY <1>1, <1>2, <1>3, EventsAfterPut
<1>12. FileIsCurrent'
  <2>1. NothingPersisting' => NothingPersisting
    BY <1>4, <1>6 DEF NothingPersisting
  <2>2. \A u \in Task : tasks'[u].status = tasks[u].status
    BY <1>1, <1>2, <1>3, <1>4, <1>5
  <2> QED BY <1>1, <2>1, <2>2 DEF FileIsCurrent, Inv, ViewsInv
<1>13. HistoryInv'
  BY <1>1, <1>2, <1>3, <1>6, <1>8, <1>9 DEF Inv, HistoryInv
<1>14. ViewsInv'
  BY <1>10, <1>11, <1>12 DEF Inv, ViewsInv
<1> QED BY <1>13, <1>14 DEF Inv

\* After a write the file is the list.
LEMMA WrittenIsCurrent ==
  ASSUME HistoryInv, file' = Pruned(tasks), tasks' = tasks
  PROVE  /\ file' = tasks /\ file' \in [Task -> Record]
         /\ \A r, t : OnDisk(r, t)'
         /\ FileIsCurrent'
BY DEF HistoryInv, OnDisk, FileIsCurrent

LEMMA PersistInv ==
  ASSUME Inv, NEW t \in Task, Persist(t), UNCHANGED <<call, inbox, chore>>
  PROVE  Inv'
<1>1. /\ job[t].due = "persist" /\ file' = Pruned(tasks) /\ UNCHANGED <<tasks, now>>
      /\ job' = [job EXCEPT ![t].due = "emit"]
  BY DEF Persist
<1>2. /\ job' \in [Task -> Job] /\ \A u \in Task \ {t} : job'[u] = job[u]
      /\ job'[t].due = "emit" /\ job'[t].at = job[t].at /\ job'[t].end = job[t].end
      /\ job'[t].record = job[t].record
  BY <1>1 DEF Inv, HistoryInv, Job
<1>3. /\ file' = tasks /\ file' \in [Task -> Record]
      /\ \A r, u : OnDisk(r, u)'
      /\ FileIsCurrent'
  BY <1>1, WrittenIsCurrent DEF Inv
<1>4. JobInv(t)'
  BY <1>1, <1>2, <1>3 DEF Inv, HistoryInv, JobInv
<1>5. \A u \in Task \ {t} : JobInv(u)'
  BY <1>1, <1>2, <1>3 DEF Inv, HistoryInv, JobInv
<1>6. \A u \in Task : SubmitInv(u)'
  BY <1>1, <1>2 DEF SubmitInv, Inv, ViewsInv
<1>7. EventsInv'
  BY <1>1, <1>3 DEF Inv, ViewsInv, EventsInv, EventInv
<1> QED
  BY <1>1, <1>2, <1>3, <1>4, <1>5, <1>6, <1>7 DEF Inv, HistoryInv, ViewsInv

LEMMA JobStepInv ==
  ASSUME Inv, NEW t \in Task, JobStep(t), UNCHANGED <<call, inbox, chore>>
  PROVE  Inv'
<1>0. /\ job[t] \in Job /\ JobInv(t) /\ SubmitInv(t)
      /\ "queued" \in ActiveStatus /\ "running" \in ActiveStatus
      /\ {"failed", "canceled", "completed"} = EndStatus
  BY DEF Inv, HistoryInv, ViewsInv, ActiveStatus, EndStatus
<1>1. CASE RecordQueued(t)
  BY <1>0, <1>1, PutInv DEF RecordQueued, SubmitInv
<1>2. CASE Start(t)
  BY <1>0, <1>2, PutInv DEF Start
<1>3. CASE Progress(t)
  BY <1>3, ProgressInv
<1>4. CASE End(t)
  <2>1. PICK end \in EndStatus :
          job' = [job EXCEPT ![t].at = "unregistered", ![t].end = end]
    BY <1>0, <1>4 DEF End
  <2> DEFINE next == [job[t] EXCEPT !.at = "unregistered", !.end = end]
  <2>2. next \in Job /\ next.at = "unregistered" /\ next.end = end /\ next.due = job[t].due
    BY <1>0, <2>1 DEF Job
  <2>3. job' = [job EXCEPT ![t] = next]
    BY <2>1 DEF Inv, HistoryInv
  <2> HIDE DEF next
  <2>4. /\ job' \in [Task -> Job] /\ \A u \in Task \ {t} : job'[u] = job[u]
        /\ job'[t].at = "unregistered" /\ job'[t].end = end
        /\ job'[t].due = job[t].due /\ job[t].due = "nothing"
    BY <1>4, <2>2, <2>3 DEF End, NothingDue, Inv, HistoryInv
  <2>5. JobInv(t)' /\ SubmitInv(t)'
    BY <2>4 DEF JobInv, SubmitInv
  <2> QED BY <1>4, <2>4, <2>5, JobOnly DEF End
<1>5. CASE RecordEnd(t)
  BY <1>0, <1>5, PutInv DEF RecordEnd, JobInv
<1>6. CASE Leave(t)
  <2>1. CASE job[t].end # "completed" /\ tasks[t] # NoRecord
    BY <1>0, <1>6, <2>1, PutInv DEF Leave, JobInv
  <2>2. CASE ~(job[t].end # "completed" /\ tasks[t] # NoRecord)
    <3>1. /\ job' \in [Task -> Job] /\ \A u \in Task \ {t} : job'[u] = job[u]
          /\ job'[t].at = "leaving" /\ job'[t].due = job[t].due
          /\ job[t].due = "nothing" /\ job[t].at = "reported"
          /\ UNCHANGED <<tasks, file, now>>
      BY <1>6, <2>2, SMTT(30) DEF Leave, NothingDue, Inv, HistoryInv, Job
    <3>2. JobInv(t)' /\ SubmitInv(t)'
      BY <1>0, <3>1 DEF JobInv, SubmitInv
    <3> QED BY <3>1, <3>2, JobOnly
  <2> QED BY <2>1, <2>2
<1>7. CASE Finish(t)
  <2>1. /\ job' \in [Task -> Job] /\ \A u \in Task \ {t} : job'[u] = job[u]
        /\ job'[t] = IdleJob /\ job[t].due = "nothing"
        /\ tasks[t].status \notin ActiveStatus
        /\ UNCHANGED <<tasks, file, now>>
    BY <1>0, <1>7, RecordFacts DEF Finish, NothingDue, Inv, HistoryInv, JobInv
  <2>2. JobInv(t)' /\ SubmitInv(t)'
    BY <2>1, RecordFacts DEF JobInv, SubmitInv
  <2> QED BY <2>1, <2>2, RecordFacts, JobOnly
<1>8. CASE Persist(t)
  BY <1>8, PersistInv
<1> QED BY <1>1, <1>2, <1>3, <1>4, <1>5, <1>6, <1>7, <1>8 DEF JobStep

-----------------------------------------------------------------------------
(* The calls of the windows and their events                               *)

\* Steps of the windows leave the history alone and no write is forgotten.
LEMMA WindowOnly ==
  ASSUME Inv, UNCHANGED <<tasks, file, now, job>>,
         call' \in [Task -> CallRecord],
         \A t \in Task : call[t].at = "persist" =>
           call'[t].at = "persist" /\ call'[t].kind = call[t].kind,
         chore' \in ChoreRecord, chore.at = "persist" => chore'.at = "persist",
         inbox' \in [Pane -> Seq(Event)], EventsInv'
  PROVE  Inv'
<1>1. \A t \in Task : JobInv(t)'
  BY DEF Inv, HistoryInv, JobInv, OnDisk
<1>2. \A t \in Task : SubmitInv(t)'
  BY DEF Inv, ViewsInv, SubmitInv
<1>3. NothingPersisting' => NothingPersisting
  BY DEF NothingPersisting
<1>4. FileIsCurrent'
  BY <1>3 DEF Inv, ViewsInv, FileIsCurrent
<1> QED BY <1>1, <1>2, <1>4 DEF Inv, HistoryInv, ViewsInv

\* Events are handled in order, one at a time, or all are lost.
LEMMA EventsHandled ==
  ASSUME Inv, UNCHANGED <<tasks, file, now>>, NEW q \in Pane,
         \/ inbox' = inbox
         \/ inbox[q] # <<>> /\ inbox' = [inbox EXCEPT ![q] = Tail(@)]
         \/ inbox' = [inbox EXCEPT ![q] = <<>>]
  PROVE  inbox' \in [Pane -> Seq(Event)] /\ EventsInv'
<1>1. inbox \in [Pane -> Seq(Event)] /\ EventsInv
  BY DEF Inv, ViewsInv
<1>2. \A e : EventInv(e) => EventInv(e)'
  BY DEF EventInv, OnDisk
<1>3. CASE inbox' = inbox
  BY <1>1, <1>2, <1>3 DEF EventsInv
<1>4. CASE inbox[q] # <<>> /\ inbox' = [inbox EXCEPT ![q] = Tail(@)]
  <2>1. inbox'[q] = Tail(inbox[q]) /\ \A p \in Pane \ {q} : inbox'[p] = inbox[p]
    BY <1>1, <1>4
  <2>2. /\ Tail(inbox[q]) \in Seq(Event) /\ Len(Tail(inbox[q])) = Len(inbox[q]) - 1
        /\ \A i \in 1..Len(Tail(inbox[q])) :
             i + 1 \in 1..Len(inbox[q]) /\ Tail(inbox[q])[i] = inbox[q][i + 1]
    BY <1>1, <1>4
  <2>3. ASSUME NEW p \in Pane, NEW i \in 1..Len(inbox'[p])
        PROVE  \E j \in 1..Len(inbox[p]) : inbox'[p][i] = inbox[p][j]
    <3>1. CASE p = q
      <4>1. i + 1 \in 1..Len(inbox[p]) /\ inbox'[p][i] = inbox[p][i + 1]
        BY <2>1, <2>2, <3>1
      <4> QED BY <4>1
    <3>2. CASE p # q
      BY <2>1, <3>2
    <3> QED BY <3>1, <3>2
  <2>4. inbox' \in [Pane -> Seq(Event)]
    BY <1>1, <1>4, <2>2
  <2> QED BY <1>1, <1>2, <2>3, <2>4 DEF EventsInv
<1>5. CASE inbox' = [inbox EXCEPT ![q] = <<>>]
  <2>1. inbox'[q] = <<>> /\ \A p \in Pane \ {q} : inbox'[p] = inbox[p]
    BY <1>1, <1>5
  <2>2. inbox' \in [Pane -> Seq(Event)]
    BY <1>1, <1>5
  <2>3. ASSUME NEW p \in Pane, NEW i \in 1..Len(inbox'[p])
        PROVE  i \in 1..Len(inbox[p]) /\ inbox'[p][i] = inbox[p][i]
    <3>1. 1..Len(inbox'[q]) = {}
      BY <2>1
    <3> QED BY <2>1, <3>1
  <2> QED BY <1>1, <1>2, <2>2, <2>3 DEF EventsInv
<1> QED BY <1>3, <1>4, <1>5

\* Records of ended transfers are dropped, and the write that must follow waits.
LEMMA RemovalInv ==
  ASSUME Inv, UNCHANGED <<file, now, job, inbox>>, NEW gone,
         gone \subseteq {t \in Task : tasks[t].status \in EndStatus},
         tasks' = Without(gone),
         call' \in [Task -> CallRecord],
         \A t \in Task : call[t].at = "persist" =>
           call'[t].at = "persist" /\ call'[t].kind = call[t].kind,
         chore' \in ChoreRecord, chore.at = "persist" => chore'.at = "persist",
         gone # {} => ~NothingPersisting'
  PROVE  Inv'
<1>1. /\ tasks' \in [Task -> Record]
      /\ \A t \in Task : tasks'[t] = IF t \in gone THEN NoRecord ELSE tasks[t]
  BY RecordFacts DEF Without, Inv, HistoryInv
<1>2. Pruned(tasks') = tasks'
  BY <1>1, DroppedStaysPruned DEF Inv, HistoryInv
<1>3. \A t \in Task : tasks[t].status \in ActiveStatus => tasks'[t] = tasks[t]
  BY <1>1 DEF ActiveStatus, EndStatus
<1>4. \A t \in Task : tasks'[t] \in {tasks[t], NoRecord}
  BY <1>1
<1>5. ASSUME NEW r, NEW t \in Task, OnDisk(r, t) PROVE OnDisk(r, t)'
  BY <1>4, <1>5, RecordFacts DEF OnDisk
<1>6. ASSUME NEW t \in Task PROVE JobInv(t)'
  <2>1. JobInv(t)
    BY DEF Inv, HistoryInv
  <2>2. tasks[t].status = "running" => tasks'[t] = tasks[t]
    BY <1>3 DEF ActiveStatus
  <2>3. tasks[t].status \notin ActiveStatus => tasks'[t].status \notin ActiveStatus
    BY <1>4, RecordFacts
  <2> QED BY <1>5, <2>1, <2>2, <2>3 DEF JobInv
<1>7. \A t \in Task : SubmitInv(t)'
  BY DEF Inv, ViewsInv, SubmitInv
<1>8. EventsInv'
  <2> SUFFICES ASSUME NEW p \in Pane, NEW i \in 1..Len(inbox[p])
               PROVE  EventInv(inbox[p][i])'
    BY DEF EventsInv
  <2>1. inbox[p][i] \in Event /\ EventInv(inbox[p][i])
    BY DEF Inv, ViewsInv, EventsInv
  <2> QED BY <1>5, <2>1 DEF EventInv, Event
<1>9. FileIsCurrent'
  <2>1. CASE gone = {}
    <3>1. NothingPersisting' => NothingPersisting
      BY DEF NothingPersisting
    <3> QED BY <1>1, <2>1, <3>1 DEF FileIsCurrent, Inv, ViewsInv
  <2>2. CASE gone # {}
    BY <2>2 DEF FileIsCurrent
  <2> QED BY <2>1, <2>2
<1> QED
  BY <1>1, <1>2, <1>6, <1>7, <1>8, <1>9 DEF Inv, HistoryInv, ViewsInv

LEMMA WriteInv ==
  ASSUME Inv, UNCHANGED <<tasks, now, job, inbox>>, file' = Pruned(tasks),
         call' \in [Task -> CallRecord], chore' \in ChoreRecord,
         \A t \in Task : SubmitInv(t)'
  PROVE  Inv'
<1>1. /\ file' = tasks /\ file' \in [Task -> Record]
      /\ \A r, u : OnDisk(r, u)'
      /\ FileIsCurrent'
  BY WrittenIsCurrent DEF Inv
<1>2. \A t \in Task : JobInv(t)'
  BY <1>1 DEF Inv, HistoryInv, JobInv
<1>3. EventsInv'
  BY <1>1 DEF Inv, ViewsInv, EventsInv, EventInv
<1> QED BY <1>1, <1>2, <1>3 DEF Inv, HistoryInv, ViewsInv

LEMMA EmitInv == ASSUME Inv, NEW t \in Task, Emit(t) PROVE Inv'
<1> DEFINE r == job[t].record
<1>1. /\ job[t] \in Job /\ r \in Record /\ JobInv(t) /\ SubmitInv(t) /\ now \in Nat
      /\ job[t].due = "emit"
  BY RecordFacts DEF Emit, Inv, HistoryInv, ViewsInv
<1>2. /\ TaskEvent(t) \in Event /\ EventInv(TaskEvent(t))
      /\ ProgressEvent(t) \in Event /\ EventInv(ProgressEvent(t))
  <2>1. TaskEvent(t) \in Event /\ ProgressEvent(t) \in Event
    BY <1>1, RecordFacts DEF TaskEvent, ProgressEvent, Event
  <2>2. EventInv(TaskEvent(t))
    BY <1>1 DEF TaskEvent, EventInv, JobInv
  <2>3. EventInv(ProgressEvent(t))
    BY <1>1, RecordFacts DEF ProgressEvent, EventInv, OnDisk, NoRecord
  <2> QED BY <2>1, <2>2, <2>3
<1>3. /\ job' = [job EXCEPT ![t].due = "nothing"]
      /\ UNCHANGED <<tasks, file, now, chore>>
      /\ call' = IF r.status = "queued"
                 THEN [call EXCEPT ![t].at = "answered", ![t].ok = TRUE] ELSE call
  BY DEF Emit, centerVars
<1>4. ASSUME NEW s \in Seq(Event), \A i \in 1..Len(s) : EventInv(s[i]),
             NEW e \in Event, EventInv(e)
      PROVE  /\ Append(s, e) \in Seq(Event)
             /\ \A i \in 1..Len(Append(s, e)) : EventInv(Append(s, e)[i])
             /\ s \o <<e>> = Append(s, e)
  <2>1. Len(Append(s, e)) = Len(s) + 1 /\ Append(s, e)[Len(s) + 1] = e
        /\ \A i \in 1..Len(s) : Append(s, e)[i] = s[i]
    BY <1>4
  <2>2. ASSUME NEW i \in 1..Len(Append(s, e)) PROVE EventInv(Append(s, e)[i])
    <3>1. CASE i \in 1..Len(s)
      BY <1>4, <2>1, <3>1
    <3>2. CASE i \notin 1..Len(s)
      <4>1. i = Len(s) + 1
        BY <1>4, <2>1, <3>2
      <4> QED BY <1>4, <2>1, <4>1
    <3> QED BY <3>1, <3>2
  <2> QED BY <1>4, <2>2
<1>5. inbox' \in [Pane -> Seq(Event)] /\ EventsInv'
  <2>1. "queue" \in Pane /\ "center" \in Pane /\ Pane = {"queue", "center"}
    BY DEF Pane
  <2>2. /\ inbox \in [Pane -> Seq(Event)]
        /\ \A p \in Pane : \A i \in 1..Len(inbox[p]) : EventInv(inbox[p][i])
    BY DEF Inv, ViewsInv, EventsInv
  <2> DEFINE one == Append(inbox["queue"], TaskEvent(t))
             two == inbox["queue"] \o <<TaskEvent(t), ProgressEvent(t)>>
             other == Append(inbox["center"], TaskEvent(t))
  <2>3. /\ one \in Seq(Event) /\ \A i \in 1..Len(one) : EventInv(one[i])
        /\ inbox["queue"] \o <<TaskEvent(t)>> = one
    BY <1>2, <1>4, <2>1, <2>2
  <2>4. other \in Seq(Event) /\ \A i \in 1..Len(other) : EventInv(other[i])
    BY <1>2, <1>4, <2>1, <2>2
  <2>5. two = Append(one, ProgressEvent(t))
    BY <1>2, <2>1, <2>2
  <2>6. two \in Seq(Event) /\ \A i \in 1..Len(two) : EventInv(two[i])
    <3> HIDE DEF one, two
    <3> QED BY <1>2, <1>4, <2>3, <2>5
  <2>7. \E s1 \in {one, two}, s2 \in {inbox["center"], other} :
          inbox' = [inbox EXCEPT !["queue"] = s1, !["center"] = s2]
    BY <2>1, <2>2, <2>3 DEF Emit
  <2> HIDE DEF one, two, other
  <2>8. PICK s1 \in {one, two}, s2 \in {inbox["center"], other} :
          inbox' = [inbox EXCEPT !["queue"] = s1, !["center"] = s2]
    BY <2>7
  <2>9. inbox'["queue"] = s1 /\ inbox'["center"] = s2
    BY <2>1, <2>2, <2>8
  <2>10. inbox' \in [Pane -> Seq(Event)]
    BY <2>1, <2>2, <2>3, <2>4, <2>6, <2>8
  <2>11. \A e : EventInv(e) => EventInv(e)'
    BY <1>3 DEF EventInv, OnDisk
  <2>12. ASSUME NEW p \in Pane, NEW i \in 1..Len(inbox'[p]) PROVE EventInv(inbox'[p][i])
    BY <2>1, <2>2, <2>3, <2>4, <2>6, <2>9
  <2> QED BY <2>10, <2>11, <2>12 DEF EventsInv
<1>6. /\ job' \in [Task -> Job] /\ \A u \in Task \ {t} : job'[u] = job[u]
      /\ job'[t].due = "nothing" /\ job'[t].at = job[t].at /\ job'[t].end = job[t].end
  BY <1>3, SMTT(30) DEF Inv, HistoryInv, Job
<1>7. /\ call' \in [Task -> CallRecord] /\ \A u \in Task \ {t} : call'[u] = call[u]
      /\ call'[t].kind = call[t].kind
      /\ r.status # "queued" => call'[t] = call[t]
  <2> DEFINE next == [call[t] EXCEPT !.at = "answered", !.ok = TRUE]
  <2>1. /\ call \in [Task -> CallRecord]
        /\ call' = IF r.status = "queued" THEN [call EXCEPT ![t] = next] ELSE call
    BY <1>3 DEF Inv, ViewsInv
  <2>2. next \in CallRecord /\ next.kind = call[t].kind
    BY <2>1 DEF CallRecord
  <2> HIDE DEF next, r
  <2> QED BY <2>1, <2>2
<1>8. r.status = "queued" => call[t].kind = "submit" /\ job[t].at = "waiting"
  BY <1>1 DEF JobInv, SubmitInv
<1>9. JobInv(t)'
  BY <1>1, <1>3, <1>6 DEF JobInv
<1>10. \A u \in Task \ {t} : JobInv(u)'
  BY <1>3, <1>6 DEF Inv, HistoryInv, JobInv, OnDisk
<1>11. \A u \in Task : SubmitInv(u)'
  BY <1>1, <1>6, <1>7, <1>8 DEF Inv, ViewsInv, SubmitInv
<1>12. FileIsCurrent'
  <2>1. NothingPersisting' => NothingPersisting
    BY <1>1, <1>3, <1>6, <1>7, <1>8 DEF NothingPersisting
  <2> QED BY <1>3, <2>1 DEF Inv, ViewsInv, FileIsCurrent
<1> QED
  BY <1>3, <1>5, <1>6, <1>7, <1>9, <1>10, <1>11, <1>12
     DEF Inv, HistoryInv, ViewsInv

LEMMA ServeSubmitInv == ASSUME Inv, NEW t \in Task, ServeSubmit(t) PROVE Inv'
<1>1. /\ call[t].kind = "submit" /\ call[t].at = "asked"
      /\ UNCHANGED <<tasks, file, now, inbox, chore>>
  BY DEF ServeSubmit, centerVars
<1>2. EventsInv'
  BY <1>1 DEF Inv, ViewsInv, EventsInv, EventInv, OnDisk
<1>3. CASE /\ job[t] = IdleJob
           /\ job' = [job EXCEPT ![t].at = "registered"]
           /\ call' = [call EXCEPT ![t].at = "persist"]
  <2>1. /\ job' \in [Task -> Job] /\ \A u \in Task \ {t} : job'[u] = job[u]
        /\ job'[t].at = "registered" /\ job'[t].due = "nothing"
    BY <1>3, RecordFacts DEF Inv, HistoryInv, Job, IdleJob
  <2>2. /\ call' \in [Task -> CallRecord] /\ \A u \in Task \ {t} : call'[u] = call[u]
        /\ call'[t].at = "persist" /\ call'[t].kind = "submit"
    BY <1>1, <1>3 DEF Inv, ViewsInv, CallRecord
  <2>3. \A u \in Task : JobInv(u)'
    BY <1>1, <2>1 DEF Inv, HistoryInv, JobInv, OnDisk
  <2>4. \A u \in Task : SubmitInv(u)'
    BY <2>1, <2>2 DEF Inv, ViewsInv, SubmitInv
  <2>5. FileIsCurrent'
    <3>1. NothingPersisting' => NothingPersisting
      BY <1>1, <1>3, <2>1, <2>2, RecordFacts DEF NothingPersisting
    <3> QED BY <1>1, <3>1 DEF Inv, ViewsInv, FileIsCurrent
  <2> QED
    BY <1>1, <1>2, <2>1, <2>2, <2>3, <2>4, <2>5 DEF Inv, HistoryInv, ViewsInv
<1>4. CASE /\ call' = [call EXCEPT ![t].at = "answered", ![t].ok = FALSE]
           /\ UNCHANGED job
  <2> DEFINE next == [call[t] EXCEPT !.at = "answered", !.ok = FALSE]
  <2>0. call \in [Task -> CallRecord] /\ call' = [call EXCEPT ![t] = next]
    BY <1>4 DEF Inv, ViewsInv
  <2>3. next \in CallRecord
    BY <2>0 DEF CallRecord
  <2> HIDE DEF next
  <2>1. call' \in [Task -> CallRecord]
    BY <2>0, <2>3
  <2>2. \A u \in Task \ {t} : call'[u] = call[u]
    BY <2>0
  <2> QED
    BY <1>1, <1>2, <1>4, <2>1, <2>2, WindowOnly DEF Inv, ViewsInv
<1> QED BY <1>3, <1>4 DEF ServeSubmit

LEMMA ServeRemoveInv == ASSUME Inv, NEW t \in Task, ServeRemove(t) PROVE Inv'
<1> DEFINE gone == {t} \cap {u \in Task : tasks[u].status \in EndStatus}
           next == [call[t] EXCEPT !.at = IF gone = {} THEN "answered" ELSE "persist",
                                   !.ok = gone # {}]
<1>1. /\ call[t].kind = "remove" /\ call[t].at = "asked" /\ call[t] \in CallRecord
      /\ tasks' = Without(gone) /\ UNCHANGED <<file, now, job, inbox, chore>>
  BY DEF ServeRemove, centerVars, Inv, ViewsInv
<1>2. call' = [call EXCEPT ![t] = next]
  BY DEF ServeRemove, Inv, ViewsInv
<1>3. gone \subseteq {u \in Task : tasks[u].status \in EndStatus}
  OBVIOUS
<1> HIDE DEF gone
<1>4. next \in CallRecord /\ next.kind = "remove" /\ (gone # {} => next.at = "persist")
  BY <1>1 DEF CallRecord
<1> HIDE DEF next
<1>5. /\ call' \in [Task -> CallRecord] /\ call'[t] = next
      /\ \A u \in Task \ {t} : call'[u] = call[u]
  BY <1>2, <1>4 DEF Inv, ViewsInv
<1>6. gone # {} => ~NothingPersisting'
  BY <1>4, <1>5 DEF NothingPersisting
<1>7. chore' \in ChoreRecord
  BY <1>1 DEF Inv, ViewsInv
<1> QED BY <1>1, <1>3, <1>5, <1>6, <1>7, RemovalInv

LEMMA ServeChoreInv == ASSUME Inv, ServeChore PROVE Inv'
<1> DEFINE gone == {t \in Task : tasks[t].status \in EndStatus}
                     \cap (IF chore.kind = "clear" THEN Task ELSE chore.of)
<1>1. /\ chore.at = "asked" /\ tasks' = Without(gone)
      /\ UNCHANGED <<file, now, job, inbox, call>>
      /\ chore' = [chore EXCEPT !.at = IF gone = {} THEN "answered" ELSE "persist",
                                !.of = gone]
      /\ chore \in ChoreRecord
  BY DEF ServeChore, queueVars, Inv, ViewsInv
<1>2. gone \subseteq {u \in Task : tasks[u].status \in EndStatus}
  OBVIOUS
<1> HIDE DEF gone
<1>3. call' \in [Task -> CallRecord] /\ call' = call
  BY <1>1 DEF Inv, ViewsInv
<1>4. chore' \in ChoreRecord /\ (gone # {} => chore'.at = "persist")
  BY <1>1, <1>2 DEF ChoreRecord
<1>5. gone # {} => ~NothingPersisting'
  BY <1>4 DEF NothingPersisting
<1> QED BY <1>1, <1>2, <1>3, <1>4, <1>5, RemovalInv

LEMMA RestartInv == ASSUME Inv, RestartProgram PROVE Inv'
<1>1. Interrupted(file) \in [Task -> Record]
      /\ \A t \in Task : Interrupted(file)[t].status \notin ActiveStatus
  <2>1. \A t \in Task :
          Cardinality({u \in Task : file[u].status \in ActiveStatus /\ file[u].at > file[t].at})
            \in Nat
    BY HistoryAssumption, FS_Subset, FS_CardinalityType
  <2> QED BY <2>1 DEF Interrupted, Inv, HistoryInv, Record, ActiveStatus, EndStatus
<1>2. /\ tasks' = Pruned(Interrupted(file)) /\ file' = tasks' /\ now' = now + Cardinality(Task)
      /\ job' = [t \in Task |-> IdleJob] /\ call' = [t \in Task |-> NoCall]
      /\ inbox' = [p \in Pane |-> <<>>] /\ chore' = NoChore
  BY DEF RestartProgram
<1>3. /\ tasks' \in [Task -> Record] /\ Pruned(tasks') = tasks'
      /\ \A t \in Task : tasks'[t].status \notin ActiveStatus
  <2>1. \A t \in Task : Pruned(Interrupted(file))[t] \in {Interrupted(file)[t], NoRecord}
    BY <1>1, PrunedDrops
  <2> QED BY <1>1, <1>2, <2>1, PrunedDrops, PrunedTwice, RecordFacts
<1>4. now' \in Nat
  BY <1>2, HistoryAssumption, FS_CardinalityType DEF Inv, HistoryInv
<1>5. job' \in [Task -> Job] /\ \A t \in Task : job'[t] = IdleJob
  BY <1>2, RecordFacts
<1>6. \A t \in Task : JobInv(t)'
  BY <1>3, <1>5, RecordFacts DEF JobInv
<1>7. \A t \in Task : SubmitInv(t)'
  BY <1>5, RecordFacts DEF SubmitInv
<1>8. call' \in [Task -> CallRecord] /\ chore' \in ChoreRecord
  BY <1>2 DEF NoCall, CallRecord, NoChore, ChoreRecord
<1>9. inbox' \in [Pane -> Seq(Event)] /\ EventsInv'
  BY <1>2 DEF EventsInv
<1>10. FileIsCurrent'
  BY <1>2 DEF FileIsCurrent
<1> QED
  BY <1>2, <1>3, <1>4, <1>5, <1>6, <1>7, <1>8, <1>9, <1>10
     DEF Inv, HistoryInv, ViewsInv

\* The steps of the users and of the windows.
LEMMA CallsOfWindows ==
  ASSUME Inv, NEW t \in Task
  PROVE  /\ ServeCancel(t) \/ HandleAnswer(t) => Inv'
         /\ QueueUser(t) => Inv'
<1>1. call \in [Task -> CallRecord] /\ chore \in ChoreRecord
  BY DEF Inv, ViewsInv
<1>2. ASSUME UNCHANGED <<tasks, file, now, job, inbox, chore>>,
             NEW next \in CallRecord, call' = [call EXCEPT ![t] = next],
             call[t].at # "persist"
      PROVE  Inv'
  <2>1. /\ call' \in [Task -> CallRecord] /\ chore' \in ChoreRecord
        /\ \A u \in Task \ {t} : call'[u] = call[u]
    BY <1>1, <1>2
  <2>2. inbox' \in [Pane -> Seq(Event)] /\ EventsInv'
    <3>1. "queue" \in Pane
      BY DEF Pane
    <3> QED BY <1>2, <3>1, EventsHandled
  <2> QED BY <1>2, <2>1, <2>2, WindowOnly
<1>3. ASSUME ServeCancel(t) PROVE Inv'
  <2> DEFINE next == [call[t] EXCEPT !.at = "answered", !.ok = Registered(t)]
  <2>0. Registered(t) \in BOOLEAN
    BY DEF Registered
  <2>1. next \in CallRecord
    BY <1>1, <2>0 DEF CallRecord
  <2>2. call' = [call EXCEPT ![t] = next]
    BY <1>1, <1>3 DEF ServeCancel
  <2> HIDE DEF next
  <2> QED BY <1>2, <1>3, <2>1, <2>2 DEF ServeCancel, centerVars
<1>4. ASSUME HandleAnswer(t) PROVE Inv'
  <2>1. NoCall \in CallRecord
    BY DEF NoCall, CallRecord
  <2> QED BY <1>2, <1>4, <2>1 DEF HandleAnswer, historyVars, centerVars
<1>5. ASSUME NEW kind \in CallKind, Press(t, kind),
             UNCHANGED <<tasks, file, now, job, inbox, chore>>
      PROVE  Inv'
  <2> DEFINE next == [NoCall EXCEPT !.kind = kind, !.at = "asked"]
  <2>1. next \in CallRecord
    BY DEF NoCall, CallRecord
  <2>2. call' = [call EXCEPT ![t] = next] /\ call[t].at # "persist"
    BY <1>5 DEF Press, NoCall
  <2> HIDE DEF next
  <2> QED BY <1>2, <1>5, <2>1, <2>2
<1>6. ASSUME QueueUser(t) PROVE Inv'
  <2>1. ASSUME CancelPaused(t) PROVE Inv'
    <3>1. "queue" \in Pane
      BY DEF Pane
    <3> QED
      BY <1>1, <2>1, <3>1, WindowOnly, EventsHandled
         DEF CancelPaused, historyVars, centerVars
  <2>2. "submit" \in CallKind /\ "pause" \in CallKind /\ "cancel" \in CallKind
        /\ "remove" \in CallKind
    BY DEF CallKind
  <2> QED
    BY <1>5, <1>6, <2>1, <2>2
       DEF QueueUser, Enqueue, RestartTask, Pause, Cancel, Remove, historyVars, centerVars
<1> QED BY <1>3, <1>4, <1>6

LEMMA StepsOfWindows ==
  ASSUME Inv, QueueStep \/ CenterStep \/ CenterUser \/ ServeRefresh
  PROVE  Inv'
<1>1. call \in [Task -> CallRecord] /\ chore \in ChoreRecord
      /\ "queue" \in Pane /\ "center" \in Pane
  BY DEF Inv, ViewsInv, Pane
<1>2. ASSUME UNCHANGED <<tasks, file, now, job, call>>, NEW q \in Pane,
             \/ inbox' = inbox
             \/ inbox[q] # <<>> /\ inbox' = [inbox EXCEPT ![q] = Tail(@)]
             \/ inbox' = [inbox EXCEPT ![q] = <<>>],
             chore' = chore \/ (chore' \in ChoreRecord /\ chore.at # "persist")
      PROVE  Inv'
  <2>1. inbox' \in [Pane -> Seq(Event)] /\ EventsInv'
    BY <1>2, EventsHandled
  <2> QED BY <1>1, <1>2, <2>1, WindowOnly
<1>3. CASE QueueStep
  BY <1>1, <1>2, <1>3
     DEF QueueStep, HandleQueueEvent, FlushProgress, HandleRestore, Attach, ServeRestore,
         historyVars, centerVars, queueVars
<1>4. CASE ServeRefresh
  BY <1>1, <1>2, <1>4 DEF ServeRefresh, historyVars, queueVars
<1>5. CASE CenterStep
  <2>1. NoChore \in ChoreRecord
    BY DEF NoChore, ChoreRecord
  <2>2. CASE HandleChore
    BY <1>1, <1>2, <2>1, <2>2 DEF HandleChore, historyVars, queueVars
  <2>3. CASE HandleCenterEvent \/ HandleRefresh \/ Attach("center")
    BY <1>1, <1>2, <2>3
       DEF HandleCenterEvent, HandleRefresh, Attach, historyVars, queueVars, centerVars
  <2> QED BY <1>5, <2>2, <2>3 DEF CenterStep
<1>6. CASE Subscribe \/ Unsubscribe
  BY <1>1, <1>2, <1>6
     DEF Subscribe, Unsubscribe, QuietHistory, historyVars, queueVars, centerVars
<1>7. CASE ClearFinished \/ \E t \in Task : RemoveShown(t)
  <2>1. chore = NoChore /\ NoChore.at # "persist"
    BY <1>7 DEF ClearFinished, RemoveShown, NoChore
  <2>2. ASSUME ClearFinished PROVE chore' \in ChoreRecord
    BY <2>2 DEF ClearFinished, ChoreRecord
  <2>3. ASSUME NEW t \in Task, RemoveShown(t) PROVE chore' \in ChoreRecord
    BY <2>3 DEF RemoveShown, ChoreRecord
  <2>4. chore.at # "persist" /\ chore' \in ChoreRecord
    BY <1>7, <2>1, <2>2, <2>3
  <2> QED BY <1>1, <1>2, <1>7, <2>4 DEF ClearFinished, RemoveShown, historyVars, queueVars
<1>8. CASE Reload
  <2>1. /\ UNCHANGED <<tasks, file, now, job, chore>>
        /\ inbox' = [inbox EXCEPT !["queue"] = <<>>]
        /\ call' = [t \in Task |-> IF call[t] = NoCall THEN NoCall
                                   ELSE [call[t] EXCEPT !.lost = TRUE]]
    BY <1>8 DEF Reload, QuietHistory, centerVars
  <2>2. \A t \in Task : [call[t] EXCEPT !.lost = TRUE] \in CallRecord
                        /\ [call[t] EXCEPT !.lost = TRUE].at = call[t].at
                        /\ [call[t] EXCEPT !.lost = TRUE].kind = call[t].kind
    BY <1>1 DEF CallRecord
  <2>3. NoCall \in CallRecord /\ NoCall.at # "persist"
    BY DEF NoCall, CallRecord
  <2>4. /\ call' \in [Task -> CallRecord]
        /\ \A t \in Task : call[t].at = "persist" =>
             call'[t].at = "persist" /\ call'[t].kind = call[t].kind
    BY <2>1, <2>2, <2>3
  <2>5. inbox' \in [Pane -> Seq(Event)] /\ EventsInv'
    BY <1>1, <2>1, EventsHandled
  <2> QED BY <1>1, <2>1, <2>4, <2>5, WindowOnly
<1> QED BY <1>3, <1>4, <1>5, <1>6, <1>7, <1>8 DEF CenterUser

LEMMA WriteSteps ==
  ASSUME Inv, PersistChore \/ \E t \in Task : PersistRemoval(t)
  PROVE  Inv'
<1>1. CASE PersistChore
  <2>1. chore' \in ChoreRecord
    BY <1>1 DEF PersistChore, Inv, ViewsInv, ChoreRecord
  <2>2. UNCHANGED <<tasks, now, job, inbox, call>> /\ file' = Pruned(tasks)
    BY <1>1 DEF PersistChore, queueVars
  <2>3. call' \in [Task -> CallRecord] /\ \A t \in Task : SubmitInv(t)'
    BY <2>2 DEF Inv, ViewsInv, SubmitInv
  <2> QED BY <2>1, <2>2, <2>3, WriteInv
<1>2. ASSUME NEW t \in Task, PersistRemoval(t) PROVE Inv'
  <2>1. /\ call[t].kind = "remove" /\ file' = Pruned(tasks)
        /\ call' = [call EXCEPT ![t].at = "answered"]
        /\ UNCHANGED <<tasks, now, job, inbox, chore>>
    BY <1>2 DEF PersistRemoval, centerVars
  <2>2. call' \in [Task -> CallRecord] /\ \A u \in Task \ {t} : call'[u] = call[u]
    BY <2>1 DEF Inv, ViewsInv, CallRecord
  <2>3. \A u \in Task : SubmitInv(u)'
    BY <2>1, <2>2 DEF Inv, ViewsInv, SubmitInv
  <2>4. chore' \in ChoreRecord
    BY <2>1 DEF Inv, ViewsInv
  <2> QED BY <2>1, <2>2, <2>3, <2>4, WriteInv
<1> QED BY <1>1, <1>2

LEMMA InvInit == ViewsInit => Inv
<1> SUFFICES ASSUME ViewsInit PROVE Inv
  OBVIOUS
<1>1. /\ tasks = [t \in Task |-> NoRecord] /\ file = tasks /\ now = 0
      /\ job = [t \in Task |-> IdleJob] /\ call = [t \in Task |-> NoCall]
      /\ chore = NoChore /\ inbox = [p \in Pane |-> <<>>]
  BY DEF ViewsInit, HistoryInit
<1>2. Pruned(tasks) = tasks
  BY <1>1, RecordFacts DEF Pruned
<1>3. HistoryInv
  BY <1>1, <1>2, RecordFacts DEF HistoryInv, JobInv
<1>4. call \in [Task -> CallRecord] /\ chore \in ChoreRecord
  BY <1>1 DEF NoCall, CallRecord, NoChore, ChoreRecord
<1>5. \A t \in Task : SubmitInv(t)
  BY <1>1, RecordFacts DEF SubmitInv
<1>6. EventsInv /\ inbox \in [Pane -> Seq(Event)] /\ FileIsCurrent
  BY <1>1 DEF EventsInv, FileIsCurrent
<1> QED BY <1>3, <1>4, <1>5, <1>6 DEF Inv, ViewsInv

LEMMA InvNext == Inv /\ [ViewsNext]_viewVars => Inv'
<1> SUFFICES ASSUME Inv, [ViewsNext]_viewVars PROVE Inv'
  OBVIOUS
<1>1. ASSUME NEW t \in Task, BackendStep(t) PROVE Inv'
  <2>1. CASE JobStep(t) /\ UNCHANGED Untouched
    BY <2>1, JobStepInv DEF Untouched, queueVars, centerVars
  <2> QED
    BY <1>1, <2>1, EmitInv, ServeSubmitInv, CallsOfWindows, ServeRemoveInv, WriteSteps
       DEF BackendStep
<1>2. ASSUME NEW t \in Task, HandleAnswer(t) \/ QueueUser(t) PROVE Inv'
  BY <1>2, CallsOfWindows
<1>3. CASE ServeCenter
  BY <1>3, ServeChoreInv, WriteSteps, StepsOfWindows DEF ServeCenter
<1>4. CASE QueueStep \/ CenterStep \/ CenterUser
  BY <1>4, StepsOfWindows
<1>5. CASE RestartProgram
  BY <1>5, RestartInv
<1>6. CASE UNCHANGED viewVars
  <2>1. /\ UNCHANGED <<tasks, file, now, job, call, chore, inbox>>
    BY <1>6 DEF viewVars, historyVars, queueVars, centerVars
  <2>2. inbox' \in [Pane -> Seq(Event)] /\ EventsInv'
    <3>1. "queue" \in Pane
      BY DEF Pane
    <3> QED BY <2>1, <3>1, EventsHandled
  <2> QED BY <2>1, <2>2, WindowOnly DEF Inv, ViewsInv
<1> QED
  BY <1>1, <1>2, <1>3, <1>4, <1>5, <1>6 DEF ViewsNext, SystemStep

LEMMA Invariance == ViewsSpec => []Inv
BY InvInit, InvNext, PTL DEF ViewsSpec

-----------------------------------------------------------------------------

\* A transfer listed as waiting or running has a job behind it, for any number
\* of transfers and after any crash (normalize_stored_task).
THEOREM ListedTransfersHaveJobs == ViewsSpec => []HistoryIsBacked
<1>1. Inv => HistoryIsBacked
  BY DEF Inv, HistoryInv, JobInv, HistoryIsBacked
<1> QED BY <1>1, Invariance, PTL

\* When nobody is about to write it the file says of every transfer what the
\* list says, in whatever order jobs and calls change and write them (persist).
THEOREM FileFollowsList == ViewsSpec => []FileIsCurrent
<1>1. Inv => FileIsCurrent
  BY DEF Inv, ViewsInv
<1> QED BY <1>1, Invariance, PTL

\* An end that a window is about to hear of is in the file, if it is listed.
THEOREM ToldEndsAreOnDisk == ViewsSpec => []EndsAreOnDisk
<1>1. Inv => EndsAreOnDisk
  BY DEF Inv, ViewsInv, EventsInv, EventInv, OnDisk, EndsAreOnDisk
<1> QED BY <1>1, Invariance, PTL

-----------------------------------------------------------------------------
(* What is on its way to a window                                          *)

\* The i-th event on its way to p tells a record of t.
Word(p, t, i) == inbox[p][i].kind = "task" /\ inbox[p][i].task = t

Due(t) == job[t].due # "nothing"

Pending(p, t) == Due(t) \/ \E i \in 1..Len(inbox[p]) : Word(p, t, i)

\* The last thing a window will hear of a listed transfer is what is listed.
LastWordIsListed(p, t) ==
  \A i \in 1..Len(inbox[p]) : Word(p, t, i) =>
    \/ Due(t)
    \/ tasks[t] \in {NoRecord, inbox[p][i].record}
    \/ \E k \in 1..Len(inbox[p]) : k > i /\ Word(p, t, k)

\* A record that was listed at some time, told apart by its time.
WasListed(r, t) ==
  r # NoRecord => /\ r.at <= now
                  /\ tasks[t] # NoRecord => r.at <= tasks[t].at
                  /\ tasks[t] # NoRecord /\ r.at = tasks[t].at => r = tasks[t]

WordsInv(t) ==
  /\ Due(t) => tasks[t] \in {NoRecord, job[t].record} /\ WasListed(job[t].record, t)
  /\ \A p \in Pane : LastWordIsListed(p, t)
  /\ \A p \in Pane : \A i \in 1..Len(inbox[p]) : Word(p, t, i) => WasListed(inbox[p][i].record, t)

\* What a job that has ended has still to tell is an end.
TellsEnd(t) ==
  Due(t) /\ job[t].at \in {"reported", "leaving", "stopped"} =>
    job[t].record.status \in EndStatus

\* The center hears of records alone, and of none while it does not listen.
LineInv ==
  /\ listening \in [Pane -> {"closed", "attaching", "open"}]
  /\ listening["center"] = "closed" => inbox["center"] = <<>>
  /\ \A i \in 1..Len(inbox["center"]) : inbox["center"][i].kind = "task"

\* Nothing is listed or on disk that is yet to be recorded.
ClockInv == \A t \in Task : tasks[t].at <= now /\ file[t].at <= now

WordsI == \A t \in Task : WordsInv(t) /\ TellsEnd(t)

-----------------------------------------------------------------------------
(* The transfer center                                                     *)

\* Without the races that the center does not settle.
NoCenterRace == Race \cap {"late listener", "removal while reading"} = {}

ShownInv(t) ==
  /\ WasListed(shown[t], t)
  /\ refresh.at = "answered" => WasListed(refresh.list[t], t)

\* What the center shows of a transfer, or is about to, is what is listed, unless
\* it will hear of it again.
CenterInv(t) ==
  listening["center"] = "open" /\ tasks[t] # NoRecord /\ ~Pending("center", t) =>
    /\ refresh.at = "none" => shown[t] \in {NoRecord, tasks[t]}
    /\ refresh.at = "answered" =>
         refresh.list[t] = tasks[t] \/ (revised /\ shown[t] = tasks[t])

Listing == [at : {"none", "asked", "answered"}, list : [Task -> Record]]

ListeningInv ==
  /\ shown \in [Task -> Record] /\ refresh \in Listing
  /\ listening["center"] = "attaching" => refresh.at = "asked"
  /\ chore # NoChore => refresh.at = "none"

CenterI == ListeningInv /\ \A t \in Task : ShownInv(t) /\ CenterInv(t)

-----------------------------------------------------------------------------
(* The queue                                                               *)

\* Without the races that the queue does not settle.
NoQueueRace == Race \cap {"late frame", "late listener", "late list"} = {}

\* The job of t has still to tell that it ended.
WillEnd(t) ==
  Due(t) \/ job[t].at \in {"registered", "waiting", "running", "unregistered"}

EndWord(t, i) == Word("queue", t, i) /\ inbox["queue"][i].record.status \in EndStatus

EndAhead(t) == WillEnd(t) \/ \E i \in 1..Len(inbox["queue"]) : EndWord(t, i)

\* What a window hears of a transfer ends with its end.
EndsAreTold(t) ==
  \A i \in 1..Len(inbox["queue"]) : inbox["queue"][i].task = t =>
    WillEnd(t) \/ \E k \in 1..Len(inbox["queue"]) : k >= i /\ EndWord(t, k)

\* The answer to a submission is awaited, and will end it or its job will.
Submitting(t) ==
  /\ call[t].kind = "submit" /\ ~call[t].lost
  /\ call[t].at = "asked" \/ (call[t].at = "answered" /\ ~call[t].ok)

\* What the queue shows as waiting or running, or is about to, will be ended.
ActiveInv(t) ==
  /\ t \in frame => EndAhead(t)
  /\ view[t] \in ActiveStatus => EndAhead(t) \/ Submitting(t)
  /\ restore.at = "answered" /\ restore.list[t].status \in ActiveStatus => EndAhead(t)

\* What it shows as completed is listed so, unless it will hear of it again.
CompletedInv(t) ==
  \/ view[t] = "completed"
  \/ restore.at = "answered" /\ restore.list[t].status = "completed"
  => tasks[t] = NoRecord \/ tasks[t].status = "completed" \/ Pending("queue", t)

\* A page that does not listen yet shows nothing, and has no list.
AttachInv ==
  /\ view \in [Task -> ViewStatus] /\ frame \subseteq Task /\ restore \in Listing
  /\ listening["queue"] # "open" =>
       restore.at = "asked" /\ \A t \in Task : view[t] = "none"

QueueI == AttachInv /\ \A t \in Task : EndsAreTold(t) /\ ActiveInv(t) /\ CompletedInv(t)

-----------------------------------------------------------------------------
(* Steps of the history, as the windows see them                           *)

\* What is listed of t stays, or is dropped, and so does what its job has to tell.
Kept(t) ==
  /\ tasks'[t] \in {tasks[t], NoRecord}
  /\ Due(t)' <=> Due(t)
  /\ Due(t) => job'[t].record = job[t].record

\* The job of t has a new record to tell.
Renewed(t) ==
  /\ Due(t)' /\ now' = now + 1
  /\ tasks'[t] \in {NoRecord, job'[t].record}
  /\ job'[t].record.at = now'

HistoryStep == now' \in Nat /\ now <= now' /\ \A t \in Task : Kept(t) \/ Renewed(t)

\* The oldest d events of p are gone.
Shifted(p, d) ==
  /\ d \in Nat /\ Len(inbox[p]) = Len(inbox'[p]) + d
  /\ \A i \in 1..Len(inbox'[p]) : inbox'[p][i] = inbox[p][i + d]

LinesShift == \A p \in Pane : \E d \in Nat : Shifted(p, d)

LEMMA WasListedStays ==
  ASSUME HistoryInv, HistoryStep, NEW t \in Task, NEW r \in Record, WasListed(r, t)
  PROVE  WasListed(r, t)'
<1>1. CASE r = NoRecord
  BY <1>1 DEF WasListed
<1>2. CASE r # NoRecord
  <2>1. r.at \in Nat /\ r.at <= now /\ now \in Nat /\ now' \in Nat /\ now <= now'
    BY <1>2, RecordFacts DEF WasListed, HistoryStep, HistoryInv
  <2>2. CASE Kept(t)
    BY <1>2, <2>1, <2>2 DEF WasListed, Kept
  <2>3. CASE Renewed(t)
    BY <1>2, <2>1, <2>3 DEF WasListed, Renewed
  <2> QED BY <2>2, <2>3 DEF HistoryStep
<1> QED BY <1>1, <1>2

\* Words that move up in a line keep their order.
LEMMA WordsShift ==
  ASSUME inbox \in [Pane -> Seq(Event)], inbox' \in [Pane -> Seq(Event)],
         NEW p \in Pane, NEW d \in Nat, Shifted(p, d), NEW t \in Task
  PROVE  /\ \A i \in 1..Len(inbox'[p]) :
              /\ i + d \in 1..Len(inbox[p]) /\ inbox'[p][i] = inbox[p][i + d]
              /\ Word(p, t, i)' <=> Word(p, t, i + d)
         /\ \A k \in 1..Len(inbox[p]) : k > d =>
              /\ k - d \in 1..Len(inbox'[p]) /\ inbox'[p][k - d] = inbox[p][k]
              /\ Word(p, t, k - d)' <=> Word(p, t, k)
<1>1. Len(inbox[p]) \in Nat /\ Len(inbox'[p]) \in Nat /\ Len(inbox[p]) = Len(inbox'[p]) + d
  BY DEF Shifted
<1>2. ASSUME NEW i \in 1..Len(inbox'[p])
      PROVE  /\ i + d \in 1..Len(inbox[p]) /\ inbox'[p][i] = inbox[p][i + d]
             /\ Word(p, t, i)' <=> Word(p, t, i + d)
  <2>1. i + d \in 1..Len(inbox[p])
    BY <1>1
  <2>2. inbox'[p][i] = inbox[p][i + d]
    BY DEF Shifted
  <2> QED BY <2>1, <2>2 DEF Word
<1>3. ASSUME NEW k \in 1..Len(inbox[p]), k > d
      PROVE  /\ k - d \in 1..Len(inbox'[p]) /\ inbox'[p][k - d] = inbox[p][k]
             /\ Word(p, t, k - d)' <=> Word(p, t, k)
  <2>1. k - d \in 1..Len(inbox'[p]) /\ (k - d) + d = k
    BY <1>1, <1>3
  <2>2. inbox'[p][k - d] = inbox[p][k]
    BY <2>1 DEF Shifted
  <2> QED BY <2>1, <2>2 DEF Word
<1> QED BY <1>2, <1>3

LEMMA WordsStep ==
  ASSUME Inv, WordsI, HistoryStep, LinesShift, inbox' \in [Pane -> Seq(Event)],
         job' \in [Task -> Job]
  PROVE  \A t \in Task : WordsInv(t)'
<1> SUFFICES ASSUME NEW t \in Task PROVE WordsInv(t)'
  OBVIOUS
<1>0. /\ HistoryInv /\ inbox \in [Pane -> Seq(Event)] /\ WordsInv(t)
      /\ now' \in Nat /\ job[t] \in Job /\ job'[t] \in Job
  BY DEF Inv, ViewsInv, HistoryInv, WordsI, HistoryStep
<1>1. \A r \in Record : WasListed(r, t) => WasListed(r, t)'
  BY <1>0, WasListedStays
<1>2. Due(t)' => tasks'[t] \in {NoRecord, job'[t].record} /\ WasListed(job[t].record, t)'
  <2>1. CASE Kept(t)
    BY <1>0, <1>1, <2>1, RecordFacts DEF Kept, WordsInv
  <2>2. CASE Renewed(t)
    BY <1>0, <2>2, RecordFacts DEF Renewed, WasListed
  <2> QED BY <2>1, <2>2 DEF HistoryStep
<1>3. ASSUME NEW p \in Pane
      PROVE  /\ LastWordIsListed(p, t)'
             /\ \A i \in 1..Len(inbox'[p]) :
                  Word(p, t, i)' => WasListed(inbox[p][i].record, t)'
  <2>1. PICK d \in Nat : Shifted(p, d)
    BY DEF LinesShift
  <2>2. ASSUME NEW i \in 1..Len(inbox'[p]), Word(p, t, i)'
        PROVE  /\ WasListed(inbox[p][i].record, t)'
               /\ \/ Due(t)'
                  \/ tasks'[t] \in {NoRecord, inbox'[p][i].record}
                  \/ \E k \in 1..Len(inbox'[p]) : k > i /\ Word(p, t, k)'
    <3>1. /\ i + d \in 1..Len(inbox[p]) /\ inbox'[p][i] = inbox[p][i + d]
          /\ Word(p, t, i + d)
      BY <1>0, <2>1, <2>2, WordsShift
    <3>2. WasListed(inbox[p][i].record, t)'
      <4>1. inbox[p][i + d].record \in Record /\ WasListed(inbox[p][i + d].record, t)
        <5>1. inbox[p] \in Seq(Event) /\ inbox[p][i + d] \in Event
          BY <1>0, <3>1
        <5> QED BY <1>0, <3>1, <5>1 DEF WordsInv, Event
      <4> QED BY <1>1, <3>1, <4>1
    <3>3. \/ Due(t)
          \/ tasks[t] \in {NoRecord, inbox[p][i + d].record}
          \/ \E k \in 1..Len(inbox[p]) : k > i + d /\ Word(p, t, k)
      BY <1>0, <3>1 DEF WordsInv, LastWordIsListed
    <3>4. ASSUME NEW k \in 1..Len(inbox[p]), k > i + d, Word(p, t, k)
          PROVE  \E j \in 1..Len(inbox'[p]) : j > i /\ Word(p, t, j)'
      <4>1. k > d /\ k - d > i
        BY <3>4
      <4> QED BY <1>0, <2>1, <3>4, <4>1, WordsShift
    <3>5. Kept(t) \/ Renewed(t)
      BY DEF HistoryStep
    <3> QED BY <3>1, <3>2, <3>3, <3>4, <3>5 DEF Kept, Renewed
  <2>3. LastWordIsListed(p, t)'
    BY <2>2 DEF LastWordIsListed, Due, Word
  <2> QED BY <2>2, <2>3
<1> QED BY <1>2, <1>3 DEF WordsInv

\* A new record is told; what else is listed stays or is dropped.
LEMMA PutRenews ==
  ASSUME HistoryInv, NEW t \in Task, NEW status \in ActiveStatus \cup EndStatus,
         NEW next, NEW end, Put(t, status, next, end),
         next \in {"reported", "leaving", "stopped"} => status \in EndStatus
  PROVE  /\ HistoryStep
         /\ Due(t)' /\ TellsEnd(t)'
         /\ \A u \in Task \ {t} : job'[u] = job[u]
<1> DEFINE record == RecordOf(status)
           list == ListWith(t, status)
           next_job == [at |-> next, end |-> end, due |-> "persist", record |-> record]
<1>1. /\ tasks' = list /\ now' = now + 1 /\ now \in Nat
      /\ job' = [job EXCEPT ![t] = next_job]
  BY DEF Put, RecordOf, ListWith, HistoryInv
<1>2. /\ list[t] \in {record, NoRecord}
      /\ \A u \in Task \ {t} : list[u] \in {tasks[u], NoRecord}
      /\ record.status = status /\ record.at = now + 1
  BY PutList DEF RecordOf
<1>3. next_job.at = next /\ next_job.due = "persist" /\ next_job.record = record
  OBVIOUS
<1> HIDE DEF record, list, next_job
<1>4. job'[t] = next_job /\ \A u \in Task \ {t} : job'[u] = job[u]
  BY <1>1 DEF HistoryInv
<1>5. Due(t)' /\ TellsEnd(t)'
  BY <1>2, <1>3, <1>4 DEF Due, TellsEnd
<1>6. Renewed(t)
  BY <1>1, <1>2, <1>3, <1>4, <1>5 DEF Renewed
<1>7. \A u \in Task \ {t} : Kept(u)
  BY <1>1, <1>2, <1>4 DEF Kept, Due
<1>8. HistoryStep
  BY <1>1, <1>6, <1>7 DEF HistoryStep
<1> QED BY <1>4, <1>5, <1>8

\* A step of a job keeps its promise to tell its end.
LEMMA JobStepEffect ==
  ASSUME Inv, NEW t \in Task, JobStep(t), \A u \in Task : TellsEnd(u)
  PROVE  /\ HistoryStep
         /\ \A u \in Task : (WillEnd(u) => WillEnd(u)') /\ TellsEnd(u)'
<1>0. /\ HistoryInv /\ job[t] \in Job /\ JobInv(t) /\ now \in Nat
      /\ "queued" \in ActiveStatus /\ "running" \in ActiveStatus
      /\ {"failed", "canceled", "completed"} = EndStatus
  BY DEF Inv, HistoryInv, ActiveStatus, EndStatus
<1>1. ASSUME NEW status \in ActiveStatus \cup EndStatus, NEW next, NEW end,
             Put(t, status, next, end),
             next \in {"reported", "leaving", "stopped"} => status \in EndStatus
      PROVE  /\ HistoryStep
             /\ \A u \in Task : (WillEnd(u) => WillEnd(u)') /\ TellsEnd(u)'
  <2>1. /\ HistoryStep /\ Due(t)' /\ TellsEnd(t)'
        /\ \A u \in Task \ {t} : job'[u] = job[u]
    BY <1>0, <1>1, PutRenews
  <2> QED BY <2>1 DEF WillEnd, TellsEnd, Due
<1>2. ASSUME job' \in [Task -> Job], \A u \in Task \ {t} : job'[u] = job[u],
             UNCHANGED <<tasks, now>>, Due(t)' <=> Due(t),
             Due(t) => job'[t].record = job[t].record /\ job'[t].at = job[t].at,
             WillEnd(t) => WillEnd(t)'
      PROVE  /\ HistoryStep
             /\ \A u \in Task : (WillEnd(u) => WillEnd(u)') /\ TellsEnd(u)'
  <2>1. \A u \in Task : Kept(u)
    BY <1>2 DEF Kept, Due
  <2>2. HistoryStep
    BY <1>0, <1>2, <2>1 DEF HistoryStep
  <2>3. TellsEnd(t)'
    BY <1>2 DEF TellsEnd, Due
  <2> QED BY <1>2, <2>2, <2>3 DEF WillEnd, TellsEnd, Due
<1>3. CASE RecordQueued(t)
  BY <1>0, <1>1, <1>3 DEF RecordQueued
<1>4. CASE Start(t)
  BY <1>0, <1>1, <1>4 DEF Start
<1>5. CASE Progress(t)
  <2> DEFINE record == RecordOf("running")
  <2>1. PICK due \in {"persist", "emit"} :
          job' = [job EXCEPT ![t].due = due, ![t].record = record]
    BY <1>5 DEF Progress, RecordOf
  <2>2. /\ tasks' = ListWith(t, "running") /\ now' = now + 1 /\ job[t].at = "running"
    BY <1>5 DEF Progress, ListWith, RecordOf
  <2>3. /\ tasks'[t] \in {record, NoRecord} /\ record.at = now + 1
        /\ \A u \in Task \ {t} : tasks'[u] \in {tasks[u], NoRecord}
    BY <1>0, <2>2, PutList DEF RecordOf
  <2> HIDE DEF record
  <2>4. /\ job'[t].due = due /\ job'[t].record = record /\ job'[t].at = "running"
        /\ \A u \in Task \ {t} : job'[u] = job[u]
    BY <1>0, <2>1, <2>2 DEF HistoryInv, Job
  <2>5. Renewed(t) /\ \A u \in Task \ {t} : Kept(u)
    BY <2>2, <2>3, <2>4 DEF Renewed, Kept, Due
  <2>6. HistoryStep
    BY <1>0, <2>2, <2>5 DEF HistoryStep
  <2> QED BY <2>4, <2>6 DEF WillEnd, TellsEnd, Due
<1>6. CASE End(t)
  <2>1. PICK end \in EndStatus :
          job' = [job EXCEPT ![t].at = "unregistered", ![t].end = end]
    BY <1>0, <1>6 DEF End
  <2>2. /\ job' \in [Task -> Job] /\ \A u \in Task \ {t} : job'[u] = job[u]
        /\ job'[t].at = "unregistered" /\ job'[t].due = "nothing" /\ job[t].due = "nothing"
        /\ UNCHANGED <<tasks, now>>
    BY <1>0, <1>6, <2>1 DEF End, NothingDue, HistoryInv, Job
  <2> QED BY <1>2, <2>2 DEF Due, WillEnd
<1>7. CASE RecordEnd(t)
  BY <1>0, <1>1, <1>7 DEF RecordEnd, JobInv
<1>8. CASE Leave(t)
  <2>1. CASE job[t].end # "completed" /\ tasks[t] # NoRecord
    BY <1>0, <1>1, <1>8, <2>1 DEF Leave, JobInv
  <2>2. CASE ~(job[t].end # "completed" /\ tasks[t] # NoRecord)
    <3>1. /\ job' \in [Task -> Job] /\ \A u \in Task \ {t} : job'[u] = job[u]
          /\ job'[t].due = "nothing" /\ job[t].due = "nothing" /\ job[t].at = "reported"
          /\ UNCHANGED <<tasks, now>>
      BY <1>0, <1>8, <2>2 DEF Leave, NothingDue, HistoryInv, Job
    <3> QED BY <1>2, <3>1 DEF Due, WillEnd
  <2> QED BY <2>1, <2>2
<1>9. CASE Finish(t)
  <2>1. /\ job' \in [Task -> Job] /\ \A u \in Task \ {t} : job'[u] = job[u]
        /\ job'[t].due = "nothing" /\ job[t].due = "nothing"
        /\ job[t].at \in {"leaving", "stopped"} /\ UNCHANGED <<tasks, now>>
    BY <1>0, <1>9, RecordFacts DEF Finish, NothingDue, HistoryInv
  <2> QED BY <1>2, <2>1 DEF Due, WillEnd
<1>10. CASE Persist(t)
  <2>1. /\ job' \in [Task -> Job] /\ \A u \in Task \ {t} : job'[u] = job[u]
        /\ job'[t].due = "emit" /\ job[t].due = "persist" /\ job'[t].at = job[t].at
        /\ job'[t].record = job[t].record /\ UNCHANGED <<tasks, now>>
    BY <1>0, <1>10 DEF Persist, HistoryInv, Job
  <2> QED BY <1>2, <2>1 DEF Due, WillEnd
<1> QED BY <1>3, <1>4, <1>5, <1>6, <1>7, <1>8, <1>9, <1>10 DEF JobStep

\* The lines of the windows stay, or lose their oldest events.
LEMMA LinesOfSteps ==
  ASSUME inbox \in [Pane -> Seq(Event)], NEW q \in Pane,
         \/ inbox' = inbox
         \/ inbox[q] # <<>> /\ inbox' = [inbox EXCEPT ![q] = Tail(@)]
         \/ inbox' = [inbox EXCEPT ![q] = <<>>]
  PROVE  /\ LinesShift /\ inbox' \in [Pane -> Seq(Event)]
         /\ \A p \in Pane \ {q} : inbox'[p] = inbox[p]
<1>1. ASSUME NEW p \in Pane, inbox'[p] = inbox[p] PROVE Shifted(p, 0)
  <2>1. inbox[p] \in Seq(Event) /\ Len(inbox[p]) \in Nat
    OBVIOUS
  <2> QED BY <1>1, <2>1 DEF Shifted
<1>2. CASE inbox' = inbox
  BY <1>1, <1>2 DEF LinesShift
<1>3. CASE inbox[q] # <<>> /\ inbox' = [inbox EXCEPT ![q] = Tail(@)]
  <2>1. /\ inbox'[q] = Tail(inbox[q]) /\ \A p \in Pane \ {q} : inbox'[p] = inbox[p]
        /\ inbox[q] \in Seq(Event)
    BY <1>3
  <2>2. /\ Tail(inbox[q]) \in Seq(Event) /\ Len(inbox[q]) = Len(Tail(inbox[q])) + 1
        /\ \A i \in 1..Len(Tail(inbox[q])) : Tail(inbox[q])[i] = inbox[q][i + 1]
    BY <1>3, <2>1
  <2>3. Shifted(q, 1)
    BY <2>1, <2>2 DEF Shifted
  <2> QED BY <1>1, <1>3, <2>1, <2>2, <2>3 DEF LinesShift
<1>4. CASE inbox' = [inbox EXCEPT ![q] = <<>>]
  <2>1. /\ inbox'[q] = <<>> /\ \A p \in Pane \ {q} : inbox'[p] = inbox[p]
        /\ inbox[q] \in Seq(Event) /\ Len(inbox[q]) \in Nat
    BY <1>4
  <2>2. Shifted(q, Len(inbox[q]))
    BY <2>1 DEF Shifted
  <2>3. inbox' \in [Pane -> Seq(Event)]
    BY <1>4
  <2> QED BY <1>1, <2>1, <2>2, <2>3 DEF LinesShift
<1> QED BY <1>2, <1>3, <1>4

\* Steps that make no record.
LEMMA QuietStep ==
  ASSUME Inv, WordsI, UNCHANGED <<now, job>>, \A t \in Task : tasks'[t] \in {tasks[t], NoRecord}
  PROVE  /\ HistoryStep
         /\ \A t \in Task : (WillEnd(t) => WillEnd(t)') /\ TellsEnd(t)'
<1>1. now \in Nat
  BY DEF Inv, HistoryInv
<1>2. \A t \in Task : Kept(t)
  BY DEF Kept, Due
<1>3. HistoryStep
  BY <1>1, <1>2 DEF HistoryStep
<1> QED BY <1>3 DEF WordsI, TellsEnd, WillEnd, Due

\* What any step but a restart and the telling of a record does to the
\* history and to the lines of the windows.
LEMMA OtherSteps ==
  ASSUME Inv, WordsI, [ViewsNext]_viewVars, ~RestartProgram, \A t \in Task : ~Emit(t)
  PROVE  /\ HistoryStep /\ LinesShift
         /\ \A t \in Task : (WillEnd(t) => WillEnd(t)') /\ TellsEnd(t)'
<1>0. /\ inbox \in [Pane -> Seq(Event)] /\ "queue" \in Pane /\ "center" \in Pane
      /\ job \in [Task -> Job] /\ now \in Nat
  BY DEF Inv, ViewsInv, HistoryInv, Pane
<1>1. inbox' = inbox => LinesShift
  BY <1>0, LinesOfSteps
<1>2. UNCHANGED <<tasks, now, job>> =>
        /\ HistoryStep
        /\ \A t \in Task : (WillEnd(t) => WillEnd(t)') /\ TellsEnd(t)'
  BY QuietStep
<1>3. ASSUME NEW t \in Task, JobStep(t), UNCHANGED Untouched
      PROVE  /\ HistoryStep /\ LinesShift
             /\ \A u \in Task : (WillEnd(u) => WillEnd(u)') /\ TellsEnd(u)'
  BY <1>1, <1>3, JobStepEffect DEF Untouched, WordsI
<1>4. ASSUME NEW t \in Task, ServeSubmit(t)
      PROVE  /\ HistoryStep /\ LinesShift
             /\ \A u \in Task : (WillEnd(u) => WillEnd(u)') /\ TellsEnd(u)'
  <2>1. UNCHANGED <<tasks, now, inbox>>
    BY <1>4 DEF ServeSubmit
  <2>2. CASE job[t] = IdleJob /\ job' = [job EXCEPT ![t].at = "registered"]
    <3>1. /\ job'[t].at = "registered" /\ job'[t].due = "nothing" /\ job[t].due = "nothing"
          /\ \A u \in Task \ {t} : job'[u] = job[u]
      BY <1>0, <2>2, RecordFacts DEF IdleJob
    <3>2. \A u \in Task : Kept(u)
      BY <2>1, <3>1 DEF Kept, Due
    <3>3. HistoryStep
      BY <1>0, <2>1, <3>2 DEF HistoryStep
    <3> QED BY <1>1, <2>1, <3>1, <3>3 DEF WillEnd, TellsEnd, Due, WordsI
  <2>3. CASE UNCHANGED job
    BY <1>1, <1>2, <2>1, <2>3
  <2> QED BY <1>4, <2>2, <2>3 DEF ServeSubmit
<1>5. ASSUME NEW gone, tasks' = Without(gone), UNCHANGED <<now, job, inbox>>
      PROVE  /\ HistoryStep /\ LinesShift
             /\ \A u \in Task : (WillEnd(u) => WillEnd(u)') /\ TellsEnd(u)'
  <2>1. \A u \in Task : tasks'[u] \in {tasks[u], NoRecord}
    BY <1>5 DEF Without
  <2> QED BY <1>1, <1>5, <2>1, QuietStep
<1>6. ASSUME NEW t \in Task, BackendStep(t)
      PROVE  /\ HistoryStep /\ LinesShift
             /\ \A u \in Task : (WillEnd(u) => WillEnd(u)') /\ TellsEnd(u)'
  <2>1. CASE ServeRemove(t)
    BY <1>5, <2>1 DEF ServeRemove
  <2>2. CASE ServeCancel(t) \/ PersistRemoval(t)
    BY <1>1, <1>2, <2>2 DEF ServeCancel, PersistRemoval
  <2> QED BY <1>3, <1>4, <1>6, <2>1, <2>2 DEF BackendStep
<1>7. CASE ServeCenter
  <2>1. CASE ServeChore
    BY <1>5, <2>1 DEF ServeChore
  <2>2. CASE PersistChore \/ ServeRefresh
    BY <1>1, <1>2, <2>2 DEF PersistChore, ServeRefresh, historyVars
  <2> QED BY <1>7, <2>1, <2>2 DEF ServeCenter
<1>8. ASSUME NEW t \in Task, HandleAnswer(t) \/ QueueUser(t)
      PROVE  UNCHANGED <<tasks, now, job, inbox>>
  BY <1>8 DEF HandleAnswer, QueueUser, Enqueue, RestartTask, Pause, Cancel, CancelPaused,
              Remove, historyVars
<1>9. CASE QueueStep \/ CenterStep \/ CenterUser
  <2>1. UNCHANGED <<tasks, now, job>>
    BY <1>9 DEF QueueStep, CenterStep, CenterUser, HandleQueueEvent, FlushProgress,
         HandleRestore, Attach, ServeRestore, HandleCenterEvent, HandleRefresh, HandleChore,
         Subscribe, Unsubscribe, ClearFinished, Reload, RemoveShown, historyVars, QuietHistory
  <2>2. \E q \in Pane :
          \/ inbox' = inbox
          \/ inbox[q] # <<>> /\ inbox' = [inbox EXCEPT ![q] = Tail(@)]
          \/ inbox' = [inbox EXCEPT ![q] = <<>>]
    BY <1>0, <1>9 DEF QueueStep, CenterStep, CenterUser, HandleQueueEvent, FlushProgress,
         HandleRestore, Attach, ServeRestore, HandleCenterEvent, HandleRefresh, HandleChore,
         Subscribe, Unsubscribe, ClearFinished, Reload, RemoveShown
  <2>3. LinesShift
    BY <1>0, <2>2, LinesOfSteps
  <2> QED BY <1>2, <2>1, <2>3
<1>10. CASE UNCHANGED viewVars
  BY <1>1, <1>2, <1>10 DEF viewVars, historyVars
<1> QED BY <1>1, <1>2, <1>6, <1>7, <1>8, <1>9, <1>10 DEF ViewsNext, SystemStep

\* What telling the record of t does to the line of p: nothing, or its event
\* is last, or its event and one of progress are.
Extended(p, t, n) ==
  /\ Len(inbox'[p]) = Len(inbox[p]) + n
  /\ \A i \in 1..Len(inbox[p]) : inbox'[p][i] = inbox[p][i]
  /\ n > 0 => inbox'[p][Len(inbox[p]) + 1] = TaskEvent(t)
  /\ n = 2 => inbox'[p][Len(inbox[p]) + 2] = ProgressEvent(t)

LEMMA EmitLines ==
  ASSUME inbox \in [Pane -> Seq(Event)], NEW t \in Task, Emit(t), job[t].record \in Record
  PROVE  /\ inbox' \in [Pane -> Seq(Event)]
         /\ Extended("queue", t, IF job[t].record.status = "running" THEN 2 ELSE 1)
         /\ Extended("center", t, IF listening["center"] = "closed" THEN 0 ELSE 1)
<1> DEFINE e == TaskEvent(t)
           g == ProgressEvent(t)
           q == inbox["queue"]
           c == inbox["center"]
<1>1. e \in Event /\ g \in Event
  BY RecordFacts DEF TaskEvent, ProgressEvent, Event
<1>2. q \in Seq(Event) /\ c \in Seq(Event) /\ Pane = {"queue", "center"}
  BY DEF Pane
<1>3. inbox' = [inbox EXCEPT
         !["queue"] = q \o (IF job[t].record.status = "running" THEN <<e, g>> ELSE <<e>>),
         !["center"] = IF listening["center"] = "closed" THEN c ELSE Append(c, e)]
  BY <1>2 DEF Emit
<1> HIDE DEF e, g
<1>4. /\ q \o <<e, g>> \in Seq(Event) /\ Len(q \o <<e, g>>) = Len(q) + 2
      /\ \A i \in 1..Len(q) : (q \o <<e, g>>)[i] = q[i]
      /\ (q \o <<e, g>>)[Len(q) + 1] = e /\ (q \o <<e, g>>)[Len(q) + 2] = g
  BY <1>1, <1>2
<1>5. /\ q \o <<e>> \in Seq(Event) /\ Len(q \o <<e>>) = Len(q) + 1
      /\ \A i \in 1..Len(q) : (q \o <<e>>)[i] = q[i]
      /\ (q \o <<e>>)[Len(q) + 1] = e
  BY <1>1, <1>2
<1>6. /\ Append(c, e) \in Seq(Event) /\ Len(Append(c, e)) = Len(c) + 1
      /\ \A i \in 1..Len(c) : Append(c, e)[i] = c[i]
      /\ Append(c, e)[Len(c) + 1] = e
  BY <1>1, <1>2
<1>7. /\ inbox'["queue"] = IF job[t].record.status = "running" THEN q \o <<e, g>> ELSE q \o <<e>>
      /\ inbox'["center"] = IF listening["center"] = "closed" THEN c ELSE Append(c, e)
  BY <1>2, <1>3
<1>8. inbox' \in [Pane -> Seq(Event)]
  <2> DEFINE s1 == IF job[t].record.status = "running" THEN q \o <<e, g>> ELSE q \o <<e>>
             s2 == IF listening["center"] = "closed" THEN c ELSE Append(c, e)
  <2>1. s1 \in Seq(Event) /\ s2 \in Seq(Event)
    BY <1>2, <1>4, <1>5, <1>6
  <2>2. inbox' = [inbox EXCEPT !["queue"] = s1, !["center"] = s2]
    BY <1>3
  <2> HIDE DEF s1, s2, q, c
  <2> QED BY <1>2, <2>1, <2>2
<1> HIDE DEF q, c
<1>9. Extended("queue", t, IF job[t].record.status = "running" THEN 2 ELSE 1)
  BY <1>2, <1>4, <1>5, <1>7 DEF Extended, q, e, g
<1>10. Extended("center", t, IF listening["center"] = "closed" THEN 0 ELSE 1)
  BY <1>2, <1>6, <1>7 DEF Extended, c, e
<1> QED BY <1>8, <1>9, <1>10

LEMMA EmitEffect ==
  ASSUME Inv, WordsI, NEW t \in Task, Emit(t)
  PROVE  /\ UNCHANGED <<tasks, now>> /\ ~Due(t)' /\ Due(t)
         /\ job'[t].at = job[t].at
         /\ \A u \in Task \ {t} : job'[u] = job[u]
         /\ job[t].record \in Record
<1>1. UNCHANGED <<tasks, now>> /\ job[t].due = "emit" /\ job \in [Task -> Job]
      /\ job' = [job EXCEPT ![t].due = "nothing"] /\ job[t] \in Job
  BY DEF Emit, Inv, HistoryInv
<1> QED BY <1>1, RecordFacts DEF Due, Job

LEMMA EmitWords ==
  ASSUME Inv, WordsI, LineInv, NEW t \in Task, Emit(t)
  PROVE  WordsI' /\ LineInv'
<1>0. /\ inbox \in [Pane -> Seq(Event)] /\ inbox' \in [Pane -> Seq(Event)]
      /\ "queue" \in Pane /\ "center" \in Pane /\ Pane = {"queue", "center"}
      /\ \A p \in Pane : \E n \in 0..2 :
           Extended(p, t, n) /\ (n = 0 => Len(inbox[p]) = 0)
  <2>1. /\ inbox \in [Pane -> Seq(Event)] /\ Pane = {"queue", "center"}
        /\ job[t].record \in Record
    BY EmitEffect DEF Inv, ViewsInv, Pane
  <2>2. /\ inbox' \in [Pane -> Seq(Event)]
        /\ Extended("queue", t, IF job[t].record.status = "running" THEN 2 ELSE 1)
        /\ Extended("center", t, IF listening["center"] = "closed" THEN 0 ELSE 1)
    BY <2>1, EmitLines
  <2>3. listening["center"] = "closed" => Len(inbox["center"]) = 0
    BY DEF LineInv
  <2>4. \E n \in 0..2 : Extended("queue", t, n) /\ (n = 0 => Len(inbox["queue"]) = 0)
    <3>1. CASE job[t].record.status = "running"
      BY <2>2, <3>1
    <3>2. CASE job[t].record.status # "running"
      BY <2>2, <3>2
    <3> QED BY <3>1, <3>2
  <2>5. \E n \in 0..2 : Extended("center", t, n) /\ (n = 0 => Len(inbox["center"]) = 0)
    <3>1. CASE listening["center"] = "closed"
      BY <2>2, <2>3, <3>1
    <3>2. CASE listening["center"] # "closed"
      BY <2>2, <3>2
    <3> QED BY <3>1, <3>2
  <2> QED BY <2>1, <2>2, <2>4, <2>5
<1>1. /\ UNCHANGED <<tasks, now>> /\ ~Due(t)' /\ Due(t) /\ job'[t].at = job[t].at
      /\ \A u \in Task \ {t} : job'[u] = job[u]
      /\ job[t].record \in Record
  BY EmitEffect
<1>2. /\ tasks[t] \in {NoRecord, job[t].record} /\ WasListed(job[t].record, t)
  BY <1>1 DEF WordsI, WordsInv
<1>3. \A r, u : WasListed(r, u) => WasListed(r, u)'
  BY <1>1 DEF WasListed
<1>4. ASSUME NEW p \in Pane, NEW u \in Task, NEW i \in 1..Len(inbox'[p]), Word(p, u, i)'
      PROVE  /\ WasListed(inbox[p][i].record, u)'
             /\ \/ Due(u)'
                \/ tasks'[u] \in {NoRecord, inbox'[p][i].record}
                \/ \E k \in 1..Len(inbox'[p]) : k > i /\ Word(p, u, k)'
  <2>1. PICK n \in 0..2 : Extended(p, t, n) /\ (n = 0 => Len(inbox[p]) = 0)
    BY <1>0
  <2>2. Len(inbox[p]) \in Nat /\ Len(inbox'[p]) = Len(inbox[p]) + n
    BY <1>0, <2>1 DEF Extended
  <2>3. \A k \in 1..Len(inbox[p]) : /\ k \in 1..Len(inbox'[p]) /\ inbox'[p][k] = inbox[p][k]
                                    /\ \A v : Word(p, v, k)' <=> Word(p, v, k)
    BY <2>1, <2>2 DEF Extended, Word
  <2>4. CASE i <= Len(inbox[p])
    <3>1. i \in 1..Len(inbox[p]) /\ Word(p, u, i) /\ inbox'[p][i] = inbox[p][i]
      BY <1>4, <2>2, <2>3, <2>4
    <3>2. WasListed(inbox[p][i].record, u)
      BY <3>1 DEF WordsI, WordsInv
    <3>3. WasListed(inbox[p][i].record, u)'
      BY <1>3, <3>1, <3>2
    <3>4. CASE u = t
      <4>1. n > 0
        BY <2>1, <2>2, <3>1
      <4>2. PICK m \in 1..Len(inbox'[p]) : m = Len(inbox[p]) + 1
        BY <2>2, <4>1
      <4>3. inbox'[p][m] = TaskEvent(t) /\ m > i
        BY <2>1, <2>2, <3>1, <4>1, <4>2 DEF Extended
      <4>4. Word(p, t, m)'
        BY <4>3 DEF Word, TaskEvent
      <4> QED BY <3>3, <3>4, <4>3, <4>4
    <3>5. CASE u # t
      <4>1. \/ Due(u)
            \/ tasks[u] \in {NoRecord, inbox[p][i].record}
            \/ \E k \in 1..Len(inbox[p]) : k > i /\ Word(p, u, k)
        BY <3>1 DEF WordsI, WordsInv, LastWordIsListed
      <4>2. Due(u) => Due(u)'
        BY <1>1, <3>5 DEF Due
      <4> QED BY <1>1, <2>3, <3>1, <3>3, <4>1, <4>2
    <3> QED BY <3>4, <3>5
  <2>5. CASE i > Len(inbox[p])
    <3>1. i = Len(inbox[p]) + 1 \/ i = Len(inbox[p]) + 2
      BY <2>2, <2>5
    <3>2. i = Len(inbox[p]) + 1 /\ n > 0
      <4>1. ASSUME i = Len(inbox[p]) + 2 PROVE FALSE
        <5>1. n = 2
          BY <2>2, <4>1
        <5>2. inbox'[p][i] = ProgressEvent(t)
          BY <2>1, <4>1, <5>1 DEF Extended
        <5> QED BY <1>4, <5>2 DEF Word, ProgressEvent
      <4> QED BY <2>2, <3>1, <4>1
    <3>3. inbox'[p][i] = TaskEvent(t)
      BY <2>1, <3>2 DEF Extended
    <3>4. u = t /\ inbox'[p][i].record = job[t].record
      BY <1>4, <3>3 DEF Word, TaskEvent
    <3>5. WasListed(inbox[p][i].record, u)'
      BY <1>2, <1>3, <3>4
    <3> QED BY <1>1, <1>2, <3>4, <3>5
  <2> QED BY <1>0, <2>2, <2>4, <2>5
<1>5. ASSUME NEW u \in Task PROVE WordsInv(u)'
  <2>1. Due(u)' => tasks'[u] \in {NoRecord, job'[u].record} /\ WasListed(job[u].record, u)'
    <3>1. CASE u = t
      BY <1>1, <3>1
    <3>2. CASE u # t
      <4>1. job'[u] = job[u] /\ (Due(u)' <=> Due(u))
        BY <1>1, <3>2 DEF Due
      <4>2. Due(u) => tasks[u] \in {NoRecord, job[u].record} /\ WasListed(job[u].record, u)
        BY DEF WordsI, WordsInv
      <4> QED BY <1>1, <1>3, <4>1, <4>2
    <3> QED BY <3>1, <3>2
  <2>2. \A p \in Pane : LastWordIsListed(p, u)'
    BY <1>4 DEF LastWordIsListed, Due, Word
  <2>3. \A p \in Pane : \A i \in 1..Len(inbox'[p]) :
          Word(p, u, i)' => WasListed(inbox[p][i].record, u)'
    BY <1>4
  <2> QED BY <2>1, <2>2, <2>3 DEF WordsInv
<1>6. \A u \in Task : TellsEnd(u)'
  BY <1>1 DEF WordsI, TellsEnd, Due
<1>7. LineInv'
  <2>1. Extended("center", t, IF listening["center"] = "closed" THEN 0 ELSE 1)
    BY <1>0, <1>1, EmitLines
  <2>2. PICK n \in 0..1 : Extended("center", t, n) /\ (listening["center"] = "closed" => n = 0)
    BY <2>1
  <2>3. UNCHANGED listening
    BY DEF Emit
  <2>4. /\ inbox["center"] \in Seq(Event) /\ inbox'["center"] \in Seq(Event)
        /\ Len(inbox'["center"]) = Len(inbox["center"]) + n
    BY <1>0, <2>2 DEF Extended
  <2>5. listening'["center"] = "closed" => inbox'["center"] = <<>>
    <3>1. listening["center"] = "closed" => Len(inbox["center"]) = 0
      BY DEF LineInv
    <3>2. Len(inbox'["center"]) = 0 => inbox'["center"] = <<>>
      BY <2>4
    <3> QED BY <2>2, <2>3, <2>4, <3>1, <3>2
  <2>6. ASSUME NEW i \in 1..Len(inbox'["center"]) PROVE inbox'["center"][i].kind = "task"
    <3>1. CASE i <= Len(inbox["center"])
      BY <2>2, <2>4, <3>1 DEF Extended, LineInv
    <3>2. CASE ~(i <= Len(inbox["center"]))
      <4>1. n > 0 /\ i = Len(inbox["center"]) + 1
        BY <2>4, <3>2
      <4> QED BY <2>2, <4>1 DEF Extended, TaskEvent
    <3> QED BY <3>1, <3>2
  <2> QED BY <2>3, <2>5, <2>6 DEF LineInv
<1> QED BY <1>5, <1>6, <1>7 DEF WordsI

LEMMA WordsInit == ViewsInit => WordsI /\ LineInv
<1> SUFFICES ASSUME ViewsInit PROVE WordsI /\ LineInv
  OBVIOUS
<1>1. job = [t \in Task |-> IdleJob] /\ inbox = [p \in Pane |-> <<>>] /\ "center" \in Pane
  BY DEF ViewsInit, HistoryInit, Pane
<1>2. \A t \in Task : ~Due(t)
  BY <1>1, RecordFacts DEF Due
<1>3. \A p \in Pane : Len(inbox[p]) = 0
  BY <1>1
<1>4. LineInv
  BY <1>1 DEF ViewsInit, LineInv
<1> QED BY <1>2, <1>3, <1>4 DEF WordsI, WordsInv, LastWordIsListed, TellsEnd

LEMMA WordsNext == Inv /\ WordsI /\ LineInv /\ [ViewsNext]_viewVars => WordsI' /\ LineInv'
<1> SUFFICES ASSUME Inv, WordsI, LineInv, [ViewsNext]_viewVars PROVE WordsI' /\ LineInv'
  OBVIOUS
<1>0. Inv'
  BY InvNext
<1>1. CASE RestartProgram
  <2>1. job' = [t \in Task |-> IdleJob] /\ inbox' = [p \in Pane |-> <<>>] /\ "center" \in Pane
    BY <1>1 DEF RestartProgram, Pane
  <2>2. \A t \in Task : ~Due(t)'
    BY <2>1, RecordFacts DEF Due
  <2>3. \A p \in Pane : Len(inbox'[p]) = 0
    BY <2>1
  <2>4. LineInv'
    BY <1>1, <2>1 DEF RestartProgram, LineInv, Pane
  <2> QED BY <2>2, <2>3, <2>4 DEF WordsI, WordsInv, LastWordIsListed, TellsEnd
<1>2. ASSUME NEW t \in Task, Emit(t) PROVE WordsI' /\ LineInv'
  BY <1>2, EmitWords
<1>3. CASE ~RestartProgram /\ \A t \in Task : ~Emit(t)
  <2>1. /\ HistoryStep /\ LinesShift
        /\ \A t \in Task : (WillEnd(t) => WillEnd(t)') /\ TellsEnd(t)'
    BY <1>3, OtherSteps
  <2>2. inbox' \in [Pane -> Seq(Event)] /\ job' \in [Task -> Job]
    BY <1>0 DEF Inv, ViewsInv, HistoryInv
  <2>3. \A t \in Task : WordsInv(t)'
    BY <2>1, <2>2, WordsStep
  <2>4. LineInv'
    <3>1. inbox["center"] = <<>> => inbox'["center"] = <<>>
      <4> SUFFICES ASSUME inbox["center"] = <<>> PROVE inbox'["center"] = <<>>
        OBVIOUS
      <4>1. "center" \in Pane
        BY DEF Pane
      <4>2. PICK d \in Nat : Shifted("center", d)
        BY <2>1, <4>1 DEF LinesShift
      <4>3. inbox'["center"] \in Seq(Event) /\ Len(inbox["center"]) = 0
        BY <2>2, <4>1
      <4>4. Len(inbox'["center"]) \in Nat /\ 0 = Len(inbox'["center"]) + d
        BY <4>2, <4>3 DEF Shifted
      <4>5. Len(inbox'["center"]) = 0
        BY <4>4
      <4> QED BY <4>3, <4>5, SMTT(20)
    <3>2. /\ listening' \in [Pane -> {"closed", "attaching", "open"}]
          /\ \/ listening'["center"] = "closed" => listening["center"] = "closed"
             \/ inbox'["center"] = <<>>
      <4>1. CASE Unsubscribe
        BY <4>1 DEF Unsubscribe, LineInv, Inv, ViewsInv, Pane
      <4>2. CASE Reload
        BY <4>2 DEF Reload, LineInv, Inv, ViewsInv, Pane
      <4>3. CASE Subscribe
        BY <4>3 DEF Subscribe, LineInv, Inv, ViewsInv, Pane
      <4>4. CASE Attach("queue") \/ Attach("center")
        BY <4>4 DEF Attach, LineInv, Inv, ViewsInv, Pane
      <4>5. CASE UNCHANGED listening
        BY <4>5 DEF LineInv
      <4>6. UNCHANGED listening \/ Unsubscribe \/ Reload \/ Subscribe \/ Attach("queue")
              \/ Attach("center")
        BY <1>3 DEF ViewsNext, SystemStep, BackendStep, Untouched, ServeSubmit, ServeCancel,
             ServeRemove, PersistRemoval, HandleAnswer, QueueStep, HandleQueueEvent,
             FlushProgress, HandleRestore, ServeRestore, CenterStep, HandleCenterEvent,
             HandleRefresh, HandleChore, ServeCenter, ServeChore, PersistChore, ServeRefresh,
             QueueUser, Enqueue, RestartTask, Pause, Cancel, CancelPaused, Remove,
             CenterUser, ClearFinished, RemoveShown, viewVars
      <4> QED BY <4>1, <4>2, <4>3, <4>4, <4>5, <4>6
    <3>3. ASSUME NEW i \in 1..Len(inbox'["center"]) PROVE inbox'["center"][i].kind = "task"
      <4>1. "center" \in Pane
        BY DEF Pane
      <4>2. PICK d \in Nat : Shifted("center", d)
        BY <2>1, <4>1 DEF LinesShift
      <4>3. /\ inbox["center"] \in Seq(Event) /\ inbox'["center"] \in Seq(Event)
            /\ Len(inbox["center"]) = Len(inbox'["center"]) + d
        BY <2>2, <4>1, <4>2 DEF Shifted, Inv, ViewsInv
      <4>4. i + d \in 1..Len(inbox["center"]) /\ inbox'["center"][i] = inbox["center"][i + d]
        BY <4>2, <4>3 DEF Shifted
      <4> QED BY <4>4 DEF LineInv
    <3> QED BY <3>1, <3>2, <3>3 DEF LineInv
  <2> QED BY <2>1, <2>3, <2>4 DEF WordsI
<1> QED BY <1>1, <1>2, <1>3

\* The file is written from the list alone.
LEMMA FileOfSteps ==
  ASSUME [ViewsNext]_viewVars, ~RestartProgram
  PROVE  file' \in {file, Pruned(tasks)}
<1>1. ASSUME NEW t \in Task, BackendStep(t) PROVE file' \in {file, Pruned(tasks)}
  <2>1. ASSUME JobStep(t) PROVE file' \in {file, Pruned(tasks)}
    BY <2>1 DEF JobStep, RecordQueued, Start, Progress, End, RecordEnd, Leave, Finish,
         Persist, Put
  <2> QED
    BY <1>1, <2>1 DEF BackendStep, Emit, ServeSubmit, ServeCancel, ServeRemove, PersistRemoval
<1>2. ASSUME NEW t \in Task, HandleAnswer(t) \/ QueueUser(t) PROVE file' = file
  BY <1>2 DEF HandleAnswer, QueueUser, Enqueue, RestartTask, Pause, Cancel, CancelPaused,
              Remove, historyVars
<1>3. CASE QueueStep \/ CenterStep \/ CenterUser \/ ServeCenter
  BY <1>3 DEF QueueStep, CenterStep, CenterUser, HandleQueueEvent, FlushProgress,
       HandleRestore, Attach, ServeRestore, HandleCenterEvent, HandleRefresh, HandleChore,
       Subscribe, Unsubscribe, ClearFinished, Reload, RemoveShown, historyVars, QuietHistory,
       ServeCenter, ServeChore, PersistChore, ServeRefresh
<1>4. CASE UNCHANGED viewVars
  BY <1>4 DEF viewVars, historyVars
<1> QED BY <1>1, <1>2, <1>3, <1>4 DEF ViewsNext, SystemStep

\* A restart ends what it finds running within the time it takes.
LEMMA ClockAfterRestart ==
  ASSUME HistoryInv, ClockInv, RestartProgram
  PROVE  ClockInv'
<1>1. /\ now \in Nat /\ Cardinality(Task) \in Nat /\ file \in [Task -> Record]
      /\ tasks' = Pruned(Interrupted(file)) /\ file' = tasks' /\ now' = now + Cardinality(Task)
  BY HistoryAssumption, FS_CardinalityType DEF RestartProgram, HistoryInv
<1>2. ASSUME NEW t \in Task
      PROVE  Interrupted(file)[t] \in Record /\ Interrupted(file)[t].at <= now'
  <2> DEFINE later == {u \in Task : file[u].status \in ActiveStatus /\ file[u].at > file[t].at}
  <2>1. later \subseteq Task \ {t}
    BY <1>1, RecordFacts
  <2>2. /\ Cardinality(Task \ {t}) = Cardinality(Task) - 1
        /\ IsFiniteSet(Task \ {t})
    BY HistoryAssumption, FS_RemoveElement
  <2>3. Cardinality(later) \in Nat /\ Cardinality(later) <= Cardinality(Task) - 1
    BY <2>1, <2>2, FS_Subset, FS_CardinalityType
  <2>4. file[t] \in Record /\ file[t].at <= now /\ file[t].at \in Nat
    BY <1>1, RecordFacts DEF ClockInv
  <2>5. CASE file[t].status \in ActiveStatus
    <3>1. Interrupted(file)[t] = [status |-> "failed", at |-> now + 1 + Cardinality(later)]
      BY <2>5 DEF Interrupted
    <3> HIDE DEF later
    <3> QED BY <1>1, <2>3, <3>1 DEF Record, EndStatus
  <2>6. CASE file[t].status \notin ActiveStatus
    <3>1. Interrupted(file)[t] = file[t]
      BY <2>6 DEF Interrupted
    <3> QED BY <1>1, <2>4, <3>1
  <2> QED BY <2>5, <2>6
<1>3. Interrupted(file) \in [Task -> Record]
  BY <1>2 DEF Interrupted
<1>4. \A t \in Task : tasks'[t] \in {Interrupted(file)[t], NoRecord}
  BY <1>1, <1>3, PrunedDrops
<1>5. NoRecord.at <= now'
  BY <1>1 DEF NoRecord
<1> QED BY <1>1, <1>2, <1>4, <1>5 DEF ClockInv

LEMMA ClockInit == ViewsInit => ClockInv
BY RecordFacts DEF ViewsInit, HistoryInit, ClockInv, NoRecord

LEMMA ClockNext == Inv /\ WordsI /\ ClockInv /\ [ViewsNext]_viewVars => ClockInv'
<1> SUFFICES ASSUME Inv, WordsI, ClockInv, [ViewsNext]_viewVars PROVE ClockInv'
  OBVIOUS
<1>1. CASE RestartProgram
  BY <1>1, ClockAfterRestart DEF Inv
<1>2. ASSUME HistoryStep, ~RestartProgram PROVE ClockInv'
  <2>1. /\ tasks \in [Task -> Record] /\ file \in [Task -> Record]
        /\ now \in Nat /\ now' \in Nat /\ now <= now'
        /\ file' \in {file, Pruned(tasks)}
    BY <1>2, FileOfSteps DEF Inv, HistoryInv, HistoryStep
  <2>2. \A t \in Task : Pruned(tasks)[t] \in {tasks[t], NoRecord}
    BY <2>1, PrunedDrops
  <2> SUFFICES ASSUME NEW t \in Task PROVE tasks'[t].at <= now' /\ file'[t].at <= now'
    BY DEF ClockInv
  <2>3. \A r \in {tasks[t], file[t], NoRecord} : r.at \in Nat /\ r.at <= now
    BY <2>1, RecordFacts DEF ClockInv, NoRecord
  <2>4. file'[t] \in {file[t], tasks[t], NoRecord}
    BY <2>1, <2>2
  <2>5. tasks'[t] \in {tasks[t], NoRecord} \/ tasks'[t].at = now'
    BY <1>2, <2>1 DEF HistoryStep, Kept, Renewed
  <2>6. \A r \in {tasks[t], file[t], NoRecord} : r.at <= now'
    BY <2>1, <2>3
  <2> QED BY <2>1, <2>4, <2>5, <2>6
<1>3. ASSUME NEW t \in Task, Emit(t) PROVE ClockInv'
  BY <1>3 DEF Emit, ClockInv
<1>4. CASE ~RestartProgram /\ \A t \in Task : ~Emit(t)
  BY <1>2, <1>4, OtherSteps
<1> QED BY <1>1, <1>3, <1>4

-----------------------------------------------------------------------------
(* The steps of the center                                                 *)

\* Steps that leave alone what the center shows and reads.
LEMMA CenterKept ==
  ASSUME CenterI, UNCHANGED <<shown, refresh, revised>>,
         listening'["center"] = listening["center"],
         chore' = NoChore \/ chore # NoChore \/ refresh.at = "none",
         \A t \in Task, r \in Record : WasListed(r, t) => WasListed(r, t)',
         \A t \in Task :
           \/ Pending("center", t)'
           \/ /\ tasks'[t] \in {tasks[t], NoRecord}
              /\ listening["center"] = "open" => ~Pending("center", t)
  PROVE  CenterI'
<1>1. ListeningInv'
  BY DEF CenterI, ListeningInv
<1>2. ASSUME NEW t \in Task PROVE ShownInv(t)'
  BY DEF CenterI, ListeningInv, Listing, ShownInv
<1>3. ASSUME NEW t \in Task PROVE CenterInv(t)'
  BY DEF CenterI, CenterInv
<1> QED BY <1>1, <1>2, <1>3 DEF CenterI

LEMMA PendingStays ==
  ASSUME Inv, HistoryStep, NEW p \in Pane, inbox'[p] = inbox[p], NEW t \in Task
  PROVE  \/ Pending(p, t)'
         \/ /\ tasks'[t] \in {tasks[t], NoRecord}
            /\ ~Pending(p, t)
<1>1. Pending(p, t) => Pending(p, t)'
  BY DEF Pending, HistoryStep, Kept, Renewed, Word
<1>2. tasks'[t] \in {tasks[t], NoRecord} \/ Pending(p, t)'
  BY DEF Pending, HistoryStep, Kept, Renewed
<1> QED BY <1>1, <1>2

\* A record that is listed was listed.
LEMMA ListedWasListed ==
  ASSUME HistoryInv, ClockInv, NEW t \in Task
  PROVE  WasListed(tasks[t], t) /\ tasks[t] \in Record
BY RecordFacts DEF HistoryInv, ClockInv, WasListed

LEMMA CenterEmit ==
  ASSUME Inv, WordsI, CenterI, NEW t \in Task, Emit(t)
  PROVE  CenterI'
<1>1. /\ UNCHANGED <<tasks, now>> /\ Due(t)
      /\ \A u \in Task \ {t} : job'[u] = job[u]
      /\ job[t].record \in Record
  BY EmitEffect
<1>2. /\ inbox \in [Pane -> Seq(Event)] /\ inbox' \in [Pane -> Seq(Event)]
      /\ Extended("center", t, IF listening["center"] = "closed" THEN 0 ELSE 1)
      /\ "center" \in Pane
  BY <1>1, EmitLines DEF Inv, ViewsInv, Pane
<1>3. UNCHANGED <<shown, refresh, revised, chore, listening>>
  BY DEF Emit, centerVars
<1>4. \A u \in Task, r \in Record : WasListed(r, u) => WasListed(r, u)'
  BY <1>1 DEF WasListed
<1>5. ASSUME NEW u \in Task, listening["center"] = "open", Pending("center", u)
      PROVE  Pending("center", u)'
  <2>1. Extended("center", t, 1)
    BY <1>2, <1>5
  <2>2. /\ Len(inbox["center"]) \in Nat /\ Len(inbox'["center"]) = Len(inbox["center"]) + 1
        /\ \A i \in 1..Len(inbox["center"]) : inbox'["center"][i] = inbox["center"][i]
    BY <1>2, <2>1 DEF Extended
  <2>3. CASE u = t
    <3>1. PICK m \in 1..Len(inbox'["center"]) : m = Len(inbox["center"]) + 1
      BY <2>2
    <3>2. inbox'["center"][m] = TaskEvent(t)
      BY <2>1, <3>1 DEF Extended
    <3> QED BY <2>3, <3>2 DEF Pending, Word, TaskEvent
  <2>4. CASE u # t
    <3>1. CASE Due(u)
      BY <1>1, <2>4, <3>1 DEF Pending, Due
    <3>2. CASE \E i \in 1..Len(inbox["center"]) : Word("center", u, i)
      <4>1. PICK i \in 1..Len(inbox["center"]) : Word("center", u, i)
        BY <3>2
      <4>2. i \in 1..Len(inbox'["center"]) /\ inbox'["center"][i] = inbox["center"][i]
        BY <2>2
      <4> QED BY <4>1, <4>2 DEF Pending, Word
    <3> QED BY <1>5, <3>1, <3>2 DEF Pending
  <2> QED BY <2>3, <2>4
<1> QED BY <1>1, <1>3, <1>4, <1>5, CenterKept

\* The center hears of a record: it shows what is listed, or hears more.
LEMMA CenterHears ==
  ASSUME Inv, WordsI, LineInv, CenterI, HandleCenterEvent
  PROVE  CenterI'
<1> DEFINE line == inbox["center"]
           e == Head(line)
<1>1. /\ line \in Seq(Event) /\ line # <<>> /\ "center" \in Pane
      /\ inbox' = [inbox EXCEPT !["center"] = Tail(line)]
      /\ UNCHANGED <<historyVars, refresh, chore, listening>>
      /\ inbox \in [Pane -> Seq(Event)]
  BY DEF HandleCenterEvent, Inv, ViewsInv, Pane
<1>2. /\ e = line[1] /\ Len(line) \in Nat /\ 1 \in 1..Len(line)
      /\ Tail(line) \in Seq(Event) /\ Len(Tail(line)) = Len(line) - 1
      /\ \A k \in 1..Len(line) : k > 1 =>
           k - 1 \in 1..Len(Tail(line)) /\ Tail(line)[k - 1] = line[k]
  BY <1>1
<1>3. inbox'["center"] = Tail(line)
  BY <1>1
<1>4. e.kind = "task" /\ e.task \in Task /\ e.record \in Record
  <2>1. e \in Event
    BY <1>1, <1>2
  <2>2. e.kind = "task"
    BY <1>2 DEF LineInv
  <2> QED BY <2>1, <2>2 DEF Event
<1>5. UNCHANGED <<tasks, now, job>>
  BY <1>1 DEF historyVars
<1>6. \A u, r : WasListed(r, u)' <=> WasListed(r, u)
  BY <1>5 DEF WasListed
<1>7. ASSUME NEW u \in Task, NEW k \in 1..Len(line), k > 1, Word("center", u, k)
      PROVE  Pending("center", u)'
  <2>1. PICK i \in 1..Len(Tail(line)) : Tail(line)[i] = line[k]
    BY <1>2, <1>7
  <2>2. i \in 1..Len(inbox'["center"]) /\ inbox'["center"][i] = line[k]
    BY <1>3, <2>1
  <2> QED BY <1>7, <2>2 DEF Pending, Word
<1>8. \A u \in Task : Due(u) => Pending("center", u)'
  BY <1>5 DEF Pending, Due
<1>9. CASE listening["center"] = "open"
  <2>1. shown' = [shown EXCEPT ![e.task] = e.record] /\ revised' = TRUE
    BY <1>9 DEF HandleCenterEvent
  <2>2. /\ shown' \in [Task -> Record] /\ shown'[e.task] = e.record
        /\ \A u \in Task \ {e.task} : shown'[u] = shown[u]
    BY <1>4, <2>1 DEF CenterI, ListeningInv
  <2>3. Word("center", e.task, 1)
    BY <1>2, <1>4 DEF Word
  <2>4. ListeningInv'
    BY <1>1, <2>2 DEF CenterI, ListeningInv
  <2>5. ASSUME NEW u \in Task PROVE ShownInv(u)'
    <3>1. WasListed(e.record, e.task)
      BY <1>1, <1>2, <1>4, <2>3 DEF WordsI, WordsInv
    <3>2. WasListed(shown'[u], u)
      BY <2>2, <3>1 DEF CenterI, ShownInv
    <3> QED BY <1>1, <1>6, <3>2 DEF CenterI, ShownInv
  <2>6. ASSUME NEW u \in Task, tasks[u] # NoRecord, ~Pending("center", u)'
        PROVE  IF u = e.task THEN shown'[u] = tasks[u] ELSE ~Pending("center", u)
    <3>1. CASE u = e.task
      <4>1. \/ Due(u)
            \/ tasks[u] \in {NoRecord, line[1].record}
            \/ \E k \in 1..Len(line) : k > 1 /\ Word("center", u, k)
        BY <1>1, <1>2, <2>3, <3>1 DEF WordsI, WordsInv, LastWordIsListed
      <4> QED BY <1>2, <1>7, <1>8, <2>2, <2>6, <3>1, <4>1
    <3>2. CASE u # e.task
      <4>1. ~Word("center", u, 1)
        BY <1>2, <3>2 DEF Word
      <4>2. ASSUME NEW k \in 1..Len(line), Word("center", u, k) PROVE FALSE
        BY <1>2, <1>7, <2>6, <4>1, <4>2
      <4> QED BY <1>8, <2>6, <3>2, <4>2 DEF Pending
    <3> QED BY <3>1, <3>2
  <2>7. ASSUME NEW u \in Task PROVE CenterInv(u)'
    BY <1>1, <1>5, <1>9, <2>1, <2>2, <2>6 DEF CenterI, CenterInv
  <2> QED BY <2>4, <2>5, <2>7 DEF CenterI
<1>10. CASE listening["center"] # "open"
  <2>1. UNCHANGED <<shown, revised>>
    BY <1>10 DEF HandleCenterEvent
  <2> QED BY <1>1, <1>5, <1>6, <1>10, <2>1, CenterKept
<1> QED BY <1>9, <1>10

\* The answer of a listing is merged with what events have said since.
LEMMA CenterRefreshed ==
  ASSUME Inv, CenterI, HandleRefresh
  PROVE  CenterI'
<1>1. /\ refresh.at = "answered" /\ refresh' = NoListing
      /\ shown' = IF revised THEN Merge(refresh.list) ELSE refresh.list
      /\ UNCHANGED <<tasks, now, job, revised, chore, listening, inbox>>
      /\ shown \in [Task -> Record] /\ refresh.list \in [Task -> Record]
      /\ tasks \in [Task -> Record]
  BY DEF HandleRefresh, historyVars, CenterI, ListeningInv, Listing, Inv, HistoryInv
<1>2. \A t \in Task :
        shown'[t] = IF revised /\ shown[t] # NoRecord /\ shown[t].at >= refresh.list[t].at
                    THEN shown[t] ELSE refresh.list[t]
  BY <1>1 DEF Merge
<1>3. /\ NoListing \in Listing /\ NoListing.at = "none"
  BY RecordFacts DEF NoListing, Listing
<1>4. shown' \in [Task -> Record]
  BY <1>1 DEF Merge
<1>5. ListeningInv'
  BY <1>1, <1>3, <1>4 DEF CenterI, ListeningInv
<1>6. ASSUME NEW t \in Task PROVE ShownInv(t)' /\ CenterInv(t)'
  <2>1. WasListed(shown[t], t) /\ WasListed(refresh.list[t], t)
    BY <1>1 DEF CenterI, ShownInv
  <2>2. WasListed(shown'[t], t)
    BY <1>2, <2>1
  <2>3. ShownInv(t)'
    BY <1>1, <1>3, <2>2 DEF ShownInv, WasListed
  <2>4. shown[t].at \in Nat /\ refresh.list[t].at \in Nat /\ tasks[t].at \in Nat
        /\ NoRecord.at = 0
    BY <1>1, RecordFacts DEF NoRecord
  <2>5. ASSUME tasks[t] # NoRecord,
               \/ refresh.list[t] = tasks[t]
               \/ revised /\ shown[t] = tasks[t],
               ~revised => refresh.list[t] = tasks[t]
        PROVE  shown'[t] = tasks[t]
    <3>1. CASE refresh.list[t] = tasks[t]
      BY <1>2, <2>1, <2>4, <2>5, <3>1 DEF WasListed
    <3>2. CASE revised /\ shown[t] = tasks[t]
      BY <1>2, <2>1, <2>4, <2>5, <3>2 DEF WasListed
    <3> QED BY <2>5, <3>1, <3>2
  <2>6. ASSUME (listening["center"] = "open" /\ tasks[t] # NoRecord /\ ~Pending("center", t))'
        PROVE  shown'[t] = tasks'[t]
    <3>1. listening["center"] = "open" /\ tasks[t] # NoRecord /\ ~Pending("center", t)
      BY <1>1, <2>6 DEF Pending, Due, Word
    <3> QED BY <1>1, <2>5, <3>1 DEF CenterI, CenterInv
  <2>7. CenterInv(t)'
    BY <1>1, <1>3, <2>6 DEF CenterInv
  <2> QED BY <2>3, <2>7
<1> QED BY <1>5, <1>6 DEF CenterI

\* The other steps of the center, of its user and of its calls.
LEMMA CenterOther ==
  ASSUME Inv, WordsI, LineInv, ClockInv, CenterI,
         NoCenterRace,
         \/ ServeRefresh \/ HandleChore \/ Subscribe \/ Unsubscribe \/ Attach("center")
         \/ ClearFinished \/ \E t \in Task : RemoveShown(t)
  PROVE  CenterI'
<1>1. /\ UNCHANGED <<tasks, now, job>> /\ "center" \in Pane
      /\ inbox \in [Pane -> Seq(Event)]
      /\ listening \in [Pane -> {"closed", "attaching", "open"}]
      /\ tasks \in [Task -> Record]
  BY DEF ServeRefresh, HandleChore, Subscribe, Unsubscribe, Attach, ClearFinished,
         RemoveShown, historyVars, QuietHistory, Inv, HistoryInv, ViewsInv, LineInv, Pane
<1>2. \A u, r : WasListed(r, u)' <=> WasListed(r, u)
  BY <1>1 DEF WasListed
<1>3. shown \in [Task -> Record] /\ refresh \in Listing
      /\ \A u \in Task : ShownInv(u) /\ CenterInv(u)
  BY DEF CenterI, ListeningInv
<1>4. CASE ServeRefresh
  <2>1. /\ refresh' = [at |-> "answered", list |-> tasks] /\ refresh.at = "asked"
        /\ listening["center"] # "attaching"
        /\ UNCHANGED <<shown, revised, chore, listening, inbox>>
    BY <1>4 DEF ServeRefresh, MayList, NoCenterRace
  <2>2. refresh'.at = "answered" /\ refresh'.list = tasks /\ refresh' \in Listing
    BY <1>1, <2>1 DEF Listing
  <2>3. ListeningInv'
    BY <1>3, <2>1, <2>2 DEF CenterI, ListeningInv
  <2>4. ASSUME NEW u \in Task PROVE ShownInv(u)' /\ CenterInv(u)'
    <3>1. WasListed(tasks[u], u) /\ WasListed(shown[u], u)
      BY <1>3, ListedWasListed DEF Inv, ShownInv
    <3>2. ShownInv(u)'
      BY <1>2, <2>1, <2>2, <3>1 DEF ShownInv
    <3>3. CenterInv(u)'
      BY <1>1, <2>2 DEF CenterInv
    <3> QED BY <3>2, <3>3
  <2> QED BY <2>3, <2>4 DEF CenterI
<1>5. CASE HandleChore
  <2>1. /\ chore.at = "answered" /\ chore' = NoChore
        /\ UNCHANGED <<refresh, listening, inbox>>
        /\ \E gone : shown' = [u \in Task |-> IF u \in gone THEN NoRecord ELSE shown[u]]
    BY <1>5 DEF HandleChore
  <2>2. refresh.at = "none"
    <3>1. chore.at = "answered" /\ NoChore.at = "none"
      BY <2>1 DEF NoChore
    <3>2. chore # NoChore
      BY <3>1
    <3> QED BY <3>2 DEF CenterI, ListeningInv
  <2>3. /\ shown' \in [Task -> Record]
        /\ \A u \in Task : shown'[u] \in {shown[u], NoRecord}
    BY <1>3, <2>1, RecordFacts
  <2>4. ListeningInv'
    BY <1>3, <2>1, <2>3 DEF CenterI, ListeningInv
  <2>5. ASSUME NEW u \in Task PROVE ShownInv(u)' /\ CenterInv(u)'
    <3>1. ShownInv(u)'
      BY <1>1, <1>3, <2>1, <2>2, <2>3 DEF ShownInv, WasListed
    <3>2. Pending("center", u)' <=> Pending("center", u)
      BY <1>1, <2>1 DEF Pending, Due, Word
    <3>3. CenterInv(u)'
      BY <1>1, <1>3, <2>1, <2>2, <2>3, <3>2 DEF CenterInv
    <3> QED BY <3>1, <3>3
  <2> QED BY <2>4, <2>5 DEF CenterI
<1>6. CASE Subscribe \/ Unsubscribe
  <2>1. /\ UNCHANGED <<shown, chore>> /\ listening'["center"] # "open"
        /\ \/ refresh' = Asked /\ chore = NoChore
           \/ refresh' = refresh /\ listening'["center"] = "closed"
    BY <1>1, <1>6 DEF Subscribe, Unsubscribe, centerVars, NoCenterRace
  <2>2. Asked \in Listing /\ Asked.at = "asked"
    BY RecordFacts DEF Asked, NoListing, Listing
  <2>3. ListeningInv'
    BY <1>3, <2>1, <2>2 DEF CenterI, ListeningInv
  <2>4. \A u \in Task : ShownInv(u)'
    BY <1>2, <1>3, <2>1, <2>2 DEF ShownInv
  <2>5. \A u \in Task : CenterInv(u)'
    BY <2>1 DEF CenterInv
  <2> QED BY <2>3, <2>4, <2>5 DEF CenterI
<1>7. CASE Attach("center")
  <2>1. /\ UNCHANGED <<shown, refresh, chore>> /\ refresh.at = "asked"
        /\ listening'["center"] = "open"
    BY <1>1, <1>7 DEF Attach, centerVars, CenterI, ListeningInv
  <2>2. ListeningInv'
    BY <1>3, <2>1 DEF CenterI, ListeningInv
  <2>3. \A u \in Task : ShownInv(u)' /\ CenterInv(u)'
    BY <1>2, <1>3, <2>1 DEF ShownInv, CenterInv
  <2> QED BY <2>2, <2>3 DEF CenterI
<1>8. CASE ClearFinished \/ \E t \in Task : RemoveShown(t)
  <2>1. /\ UNCHANGED <<shown, refresh, revised, listening, inbox>> /\ refresh.at = "none"
    BY <1>8 DEF ClearFinished, RemoveShown, NoCenterRace
  <2>2. \A u \in Task : Pending("center", u)' <=> Pending("center", u)
    BY <1>1, <2>1 DEF Pending, Due, Word
  <2> QED BY <1>1, <1>2, <2>1, <2>2, CenterKept
<1> QED BY <1>4, <1>5, <1>6, <1>7, <1>8

\* What the other steps leave alone of the center.
LEMMA StepsBesideCenter ==
  ASSUME [ViewsNext]_viewVars, ~RestartProgram, \A t \in Task : ~Emit(t),
         ~CenterStep, ~ServeRefresh,
         ~Subscribe, ~Unsubscribe, ~ClearFinished, \A t \in Task : ~RemoveShown(t),
         inbox \in [Pane -> Seq(Event)],
         listening \in [Pane -> {"closed", "attaching", "open"}]
  PROVE  /\ UNCHANGED <<shown, refresh, revised>>
         /\ listening'["center"] = listening["center"] /\ inbox'["center"] = inbox["center"]
         /\ chore' = NoChore \/ chore # NoChore
<1>0. "center" \in Pane /\ "queue" \in Pane
  BY DEF Pane
<1>1. ASSUME NEW t \in Task, BackendStep(t) \/ HandleAnswer(t) \/ QueueUser(t)
      PROVE  UNCHANGED <<shown, refresh, revised, chore, listening, inbox>>
  <2>1. CASE BackendStep(t)
    BY <2>1 DEF BackendStep, Untouched, ServeSubmit, ServeCancel, ServeRemove,
       PersistRemoval, centerVars
  <2>2. CASE HandleAnswer(t) \/ QueueUser(t)
    BY <2>2 DEF HandleAnswer, QueueUser, Enqueue, RestartTask, Pause, Cancel, CancelPaused,
       Remove, centerVars
  <2> QED BY <1>1, <2>1, <2>2
<1>2. CASE QueueStep \/ Reload
  <2>1. UNCHANGED <<shown, refresh, revised, chore>>
    BY <1>2 DEF QueueStep, Reload, HandleQueueEvent, FlushProgress, HandleRestore, Attach,
       ServeRestore, centerVars
  <2>2. \/ inbox' = inbox
        \/ inbox' = [inbox EXCEPT !["queue"] = Tail(@)]
        \/ inbox' = [inbox EXCEPT !["queue"] = <<>>]
    BY <1>2 DEF QueueStep, Reload, HandleQueueEvent, FlushProgress, HandleRestore, Attach,
       ServeRestore
  <2>3. \/ listening' = listening
        \/ listening' = [listening EXCEPT !["queue"] = "open"]
        \/ listening' = [listening EXCEPT !["queue"] = "attaching"]
    BY <1>2 DEF QueueStep, Reload, HandleQueueEvent, FlushProgress, HandleRestore, Attach,
       ServeRestore
  <2> QED BY <1>0, <2>1, <2>2, <2>3
<1>3. CASE ServeChore \/ PersistChore
  <2>1. chore # NoChore
    BY <1>3 DEF ServeChore, PersistChore, NoChore
  <2> QED BY <1>3, <2>1 DEF ServeChore, PersistChore
<1>4. CASE UNCHANGED viewVars
  BY <1>4 DEF viewVars, centerVars
<1> QED
  BY <1>1, <1>2, <1>3, <1>4 DEF ViewsNext, SystemStep, CenterUser, ServeCenter

LEMMA CenterInit == ViewsInit => CenterI
<1> SUFFICES ASSUME ViewsInit PROVE CenterI
  OBVIOUS
<1>1. /\ shown = [t \in Task |-> NoRecord] /\ refresh = NoListing /\ chore = NoChore
      /\ listening["center"] = "closed"
  BY DEF ViewsInit, Pane
<1>2. NoListing \in Listing /\ NoListing.at = "none"
  BY RecordFacts DEF NoListing, Listing
<1>3. ListeningInv
  BY <1>1, <1>2, RecordFacts DEF ListeningInv
<1>4. \A t \in Task : ShownInv(t) /\ CenterInv(t)
  BY <1>1, <1>2 DEF ShownInv, CenterInv, WasListed
<1> QED BY <1>3, <1>4 DEF CenterI

LEMMA CenterNext ==
  ASSUME NoCenterRace
  PROVE  Inv /\ WordsI /\ LineInv /\ ClockInv /\ CenterI /\ [ViewsNext]_viewVars => CenterI'
<1> SUFFICES ASSUME Inv, WordsI, LineInv, ClockInv, CenterI, [ViewsNext]_viewVars
             PROVE  CenterI'
  OBVIOUS
<1>1. CASE RestartProgram
  <2>1. /\ shown' = [t \in Task |-> NoRecord] /\ refresh' = NoListing /\ chore' = NoChore
        /\ listening'["center"] = "closed"
    BY <1>1 DEF RestartProgram, LineInv, Pane
  <2>2. NoListing \in Listing /\ NoListing.at = "none"
    BY RecordFacts DEF NoListing, Listing
  <2>3. ListeningInv'
    BY <2>1, <2>2, RecordFacts DEF ListeningInv
  <2>4. \A t \in Task : ShownInv(t)' /\ CenterInv(t)'
    BY <2>1, <2>2 DEF ShownInv, CenterInv, WasListed
  <2> QED BY <2>3, <2>4 DEF CenterI
<1>2. CASE \/ ServeRefresh \/ CenterStep
           \/ Subscribe \/ Unsubscribe \/ ClearFinished \/ \E t \in Task : RemoveShown(t)
  BY <1>2, CenterHears, CenterRefreshed, CenterOther DEF CenterStep
<1>3. CASE \E t \in Task : Emit(t)
  BY <1>3, CenterEmit
<1>4. CASE /\ ~RestartProgram /\ \A t \in Task : ~Emit(t)
           /\ ~CenterStep /\ ~ServeRefresh
           /\ ~Subscribe /\ ~Unsubscribe /\ ~ClearFinished /\ \A t \in Task : ~RemoveShown(t)
  <2>1. HistoryStep
    BY <1>4, OtherSteps
  <2>2. /\ UNCHANGED <<shown, refresh, revised>>
        /\ listening'["center"] = listening["center"] /\ inbox'["center"] = inbox["center"]
        /\ chore' = NoChore \/ chore # NoChore
    BY <1>4, StepsBesideCenter DEF Inv, ViewsInv, LineInv
  <2>3. \A t \in Task, r \in Record : WasListed(r, t) => WasListed(r, t)'
    BY <2>1, WasListedStays DEF Inv
  <2>4. ASSUME NEW t \in Task
        PROVE  \/ Pending("center", t)'
               \/ /\ tasks'[t] \in {tasks[t], NoRecord}
                  /\ ~Pending("center", t)
    <3>1. "center" \in Pane
      BY DEF Pane
    <3> QED BY <2>1, <2>2, <3>1, PendingStays
  <2> QED BY <2>2, <2>3, <2>4, CenterKept
<1> QED BY <1>1, <1>2, <1>3, <1>4

LEMMA CenterIsSettled ==
  ASSUME Inv, CenterI
  PROVE  CenterSettles
<1> SUFFICES ASSUME NEW t \in Task, CenterIsQuiet(t), shown[t] # NoRecord, tasks[t] # NoRecord
             PROVE  shown[t] = tasks[t]
  BY DEF CenterSettles
<1>1. /\ job[t].at = "idle" /\ refresh.at = "none" /\ listening["center"] = "open"
      /\ inbox["center"] = <<>>
  BY DEF CenterIsQuiet
<1>2. ~Due(t)
  BY <1>1 DEF Inv, HistoryInv, JobInv, Due
<1>3. Len(inbox["center"]) = 0
  BY <1>1
<1>4. ~Pending("center", t)
  BY <1>2, <1>3 DEF Pending
<1> QED BY <1>1, <1>4 DEF CenterI, CenterInv

\* Once all is quiet the transfer center shows of a transfer what is listed, if
\* its listeners are attached before it asks for the list and nobody removes
\* transfers while it reads: what remains of the races that TransferViews names
\* is settled by the merge (mergeConcurrentTaskChanges).
THEOREM CenterTellsTheHistory ==
  NoCenterRace => (ViewsSpec => []CenterSettles)
<1> SUFFICES ASSUME NoCenterRace
             PROVE  ViewsSpec => []CenterSettles
  OBVIOUS
<1> DEFINE I == Inv /\ WordsI /\ LineInv /\ ClockInv /\ CenterI
<1>1. ViewsInit => I
  BY InvInit, WordsInit, ClockInit, CenterInit
<1>2. I /\ [ViewsNext]_viewVars => I'
  BY InvNext, WordsNext, ClockNext, CenterNext
<1>3. I => CenterSettles
  BY CenterIsSettled
<1> HIDE DEF I
<1> QED BY <1>1, <1>2, <1>3, PTL DEF ViewsSpec

-----------------------------------------------------------------------------
(* The steps of the queue                                                  *)

\* Words that move up in the line of the queue go on promising an end.
LEMMA EndsShift ==
  ASSUME inbox \in [Pane -> Seq(Event)], inbox' \in [Pane -> Seq(Event)], LinesShift,
         NEW t \in Task, WillEnd(t) => WillEnd(t)', EndsAreTold(t)
  PROVE  EndsAreTold(t)'
<1>1. PICK d \in Nat : Shifted("queue", d)
  BY DEF LinesShift, Pane
<1>2. /\ \A i \in 1..Len(inbox'["queue"]) :
           i + d \in 1..Len(inbox["queue"]) /\ inbox'["queue"][i] = inbox["queue"][i + d]
      /\ \A k \in 1..Len(inbox["queue"]) : k > d =>
           k - d \in 1..Len(inbox'["queue"]) /\ inbox'["queue"][k - d] = inbox["queue"][k]
  BY <1>1, WordsShift DEF Pane
<1> SUFFICES ASSUME NEW i \in 1..Len(inbox'["queue"]), inbox'["queue"][i].task = t, ~WillEnd(t)'
             PROVE  \E k \in 1..Len(inbox'["queue"]) : k >= i /\ EndWord(t, k)'
  BY DEF EndsAreTold, EndWord, Word
<1>3. PICK k \in 1..Len(inbox["queue"]) : k >= i + d /\ EndWord(t, k)
  BY <1>2 DEF EndsAreTold
<1>4. /\ Len(inbox["queue"]) \in Nat /\ Len(inbox'["queue"]) \in Nat
  BY DEF Pane
<1>5. CASE k > d
  <2>1. PICK j \in 1..Len(inbox'["queue"]) : j = k - d
    BY <1>2, <1>5
  <2>2. inbox'["queue"][j] = inbox["queue"][k] /\ j >= i
    BY <1>2, <1>3, <1>4, <1>5, <2>1
  <2> QED BY <1>3, <2>2 DEF EndWord, Word
<1> QED BY <1>3, <1>4, <1>5

\* Steps after which no end and no word of the queue is lost.
LEMMA QueueKept ==
  ASSUME QueueI, AttachInv',
         \A t \in Task :
           /\ EndsAreTold(t)'
           /\ EndAhead(t) => EndAhead(t)'
           /\ \/ Pending("queue", t)'
              \/ tasks'[t] \in {tasks[t], NoRecord} /\ ~Pending("queue", t)
           /\ t \in frame' => t \in frame
           /\ view'[t] \in ActiveStatus =>
                \/ EndAhead(t)' \/ Submitting(t)'
                \/ view'[t] = view[t] /\ ~Submitting(t)
           /\ view'[t] = "completed" =>
                \/ view[t] = "completed"
                \/ restore.at = "answered" /\ restore.list[t].status = "completed"
           /\ \/ restore' = restore \/ restore'.at # "answered"
              \/ /\ restore'.list[t] = tasks[t]
                 /\ tasks[t].status \in ActiveStatus => EndAhead(t)
  PROVE  QueueI'
<1>1. ASSUME NEW t \in Task PROVE ActiveInv(t)'
  <2>1. EndAhead(t) => EndAhead(t)'
    OBVIOUS
  <2>2. t \in frame' => EndAhead(t)'
    BY <2>1 DEF QueueI, ActiveInv
  <2>3. view'[t] \in ActiveStatus => EndAhead(t)' \/ Submitting(t)'
    BY <2>1 DEF QueueI, ActiveInv
  <2>4. restore'.at = "answered" /\ restore'.list[t].status \in ActiveStatus => EndAhead(t)'
    BY <2>1 DEF QueueI, ActiveInv
  <2> QED BY <2>2, <2>3, <2>4 DEF ActiveInv
<1>2. ASSUME NEW t \in Task PROVE CompletedInv(t)'
  <2>1. CASE Pending("queue", t)'
    BY <2>1 DEF CompletedInv
  <2>2. CASE tasks'[t] \in {tasks[t], NoRecord} /\ ~Pending("queue", t)
    BY <2>2 DEF QueueI, CompletedInv
  <2> QED BY <2>1, <2>2
<1> QED BY <1>1, <1>2 DEF QueueI

\* What steps that leave the line of the queue alone keep.
LEMMA QueueLineStays ==
  ASSUME Inv, Inv', HistoryStep, LinesShift, QueueI, inbox'["queue"] = inbox["queue"],
         NEW t \in Task, WillEnd(t) => WillEnd(t)'
  PROVE  /\ EndsAreTold(t)'
         /\ EndAhead(t) => EndAhead(t)'
         /\ \/ Pending("queue", t)'
            \/ tasks'[t] \in {tasks[t], NoRecord} /\ ~Pending("queue", t)
<1>1. EndsAreTold(t)'
  BY EndsShift DEF Inv, ViewsInv, QueueI
<1>2. EndAhead(t) => EndAhead(t)'
  BY DEF EndAhead, EndWord, Word
<1>3. "queue" \in Pane
  BY DEF Pane
<1>4. \/ Pending("queue", t)'
      \/ tasks'[t] \in {tasks[t], NoRecord} /\ ~Pending("queue", t)
  BY <1>3, PendingStays
<1> QED BY <1>1, <1>2, <1>4

LEMMA QueueEmit ==
  ASSUME Inv, WordsI, QueueI, NEW t \in Task, Emit(t)
  PROVE  QueueI'
<1>1. /\ UNCHANGED <<tasks, now>> /\ Due(t) /\ ~Due(t)' /\ job'[t].at = job[t].at
      /\ \A u \in Task \ {t} : job'[u] = job[u]
      /\ job[t].record \in Record
  BY EmitEffect
<1>2. /\ inbox \in [Pane -> Seq(Event)] /\ inbox' \in [Pane -> Seq(Event)]
      /\ Extended("queue", t, IF job[t].record.status = "running" THEN 2 ELSE 1)
      /\ "queue" \in Pane
  BY <1>1, EmitLines DEF Inv, ViewsInv, Pane
<1>3. PICK n \in {1, 2} : Extended("queue", t, n) /\ (n = 2 => job[t].record.status = "running")
  BY <1>2
<1>4. /\ Len(inbox["queue"]) \in Nat /\ Len(inbox'["queue"]) = Len(inbox["queue"]) + n
      /\ \A i \in 1..Len(inbox["queue"]) :
           i \in 1..Len(inbox'["queue"]) /\ inbox'["queue"][i] = inbox["queue"][i]
  BY <1>2, <1>3 DEF Extended
<1>5. PICK m \in 1..Len(inbox'["queue"]) : m = Len(inbox["queue"]) + 1
  BY <1>4
<1>6. inbox'["queue"][m] = TaskEvent(t)
  BY <1>3, <1>4, <1>5 DEF Extended
<1>7. Word("queue", t, m)' /\ inbox'["queue"][m].record = job[t].record
  BY <1>6 DEF Word, TaskEvent
<1>8. ~WillEnd(t)' => job[t].record.status \in EndStatus
  <2>1. job[t].at \in {"idle", "reported", "leaving", "stopped"} \/ WillEnd(t)'
    BY <1>1 DEF WillEnd, Inv, HistoryInv, Job
  <2>2. job[t].at # "idle"
    BY <1>1 DEF Due, Inv, HistoryInv, JobInv
  <2>3. TellsEnd(t)
    BY DEF WordsI
  <2> QED BY <1>1, <2>1, <2>2, <2>3 DEF TellsEnd
<1>9. ~WillEnd(t)' => EndWord(t, m)'
  BY <1>7, <1>8 DEF EndWord
<1>10. ASSUME NEW u \in Task PROVE EndAhead(u) => EndAhead(u)'
  <2>1. CASE u = t
    BY <1>9, <2>1 DEF EndAhead
  <2>2. CASE u # t
    <3>1. WillEnd(u)' <=> WillEnd(u)
      BY <1>1, <2>2 DEF WillEnd, Due
    <3>2. \A i \in 1..Len(inbox["queue"]) : EndWord(u, i) => EndWord(u, i)'
      BY <1>4 DEF EndWord, Word
    <3> QED BY <1>4, <3>1, <3>2 DEF EndAhead
  <2> QED BY <2>1, <2>2
<1>11. ASSUME NEW u \in Task, NEW i \in 1..Len(inbox'["queue"]), inbox'["queue"][i].task = u,
              ~WillEnd(u)'
       PROVE  \E k \in 1..Len(inbox'["queue"]) : k >= i /\ EndWord(u, k)'
  <2>1. CASE u = t
    <3>1. EndWord(t, m)'
      BY <1>9, <1>11, <2>1
    <3>2. n = 1
      BY <1>3, <1>8, <1>11, <2>1 DEF EndStatus
    <3>3. m >= i
      BY <1>4, <1>5, <3>2
    <3> QED BY <2>1, <3>1, <3>3
  <2>2. CASE u # t
    <3>1. i <= Len(inbox["queue"])
      <4>1. ASSUME i > Len(inbox["queue"]) PROVE FALSE
        <5>1. i = m \/ (n = 2 /\ i = Len(inbox["queue"]) + 2)
          BY <1>4, <1>5, <4>1
        <5>2. i = m => inbox'["queue"][i].task = t
          BY <1>7 DEF Word
        <5>3. n = 2 /\ i = Len(inbox["queue"]) + 2 => inbox'["queue"][i].task = t
          BY <1>3 DEF Extended, ProgressEvent
        <5> QED BY <1>11, <2>2, <5>1, <5>2, <5>3
      <4> QED BY <1>4, <4>1
    <3>2. i \in 1..Len(inbox["queue"]) /\ inbox["queue"][i].task = u
      BY <1>4, <1>11, <3>1
    <3>3. ~WillEnd(u)
      BY <1>1, <1>11, <2>2 DEF WillEnd, Due
    <3>4. PICK k \in 1..Len(inbox["queue"]) : k >= i /\ EndWord(u, k)
      BY <3>2, <3>3 DEF QueueI, EndsAreTold
    <3>5. k \in 1..Len(inbox'["queue"]) /\ EndWord(u, k)'
      BY <1>4, <3>4 DEF EndWord, Word
    <3> QED BY <3>4, <3>5
  <2> QED BY <2>1, <2>2
<1>12. \A u \in Task : EndsAreTold(u)'
  BY <1>11 DEF EndsAreTold, EndWord, Word
<1>13. ASSUME NEW u \in Task, Pending("queue", u) PROVE Pending("queue", u)'
  <2>1. CASE u = t
    BY <1>7, <2>1 DEF Pending
  <2>2. CASE u # t
    <3>1. Due(u)' <=> Due(u)
      BY <1>1, <2>2 DEF Due
    <3>2. \A i \in 1..Len(inbox["queue"]) : Word("queue", u, i) => Word("queue", u, i)'
      BY <1>4 DEF Word
    <3> QED BY <1>4, <1>13, <3>1, <3>2 DEF Pending
  <2> QED BY <2>1, <2>2
<1>14. ASSUME NEW u \in Task, Submitting(u) PROVE Submitting(u)' \/ EndAhead(u)'
  <2>1. CASE call'[u] = call[u]
    BY <1>14, <2>1 DEF Submitting
  <2>2. CASE call'[u] # call[u]
    <3>1. u = t /\ job[t].record.status = "queued"
      BY <2>2 DEF Emit, Inv, ViewsInv
    <3>2. job[t].at = "waiting"
      BY <1>1, <3>1 DEF Inv, HistoryInv, JobInv, Due
    <3> QED BY <1>1, <3>1, <3>2 DEF EndAhead, WillEnd
  <2> QED BY <2>1, <2>2
<1>15. UNCHANGED <<view, frame, restore, listening>>
  BY DEF Emit
<1>16. AttachInv'
  BY <1>15 DEF QueueI, AttachInv
<1>17. \A u \in Task : view'[u] \in ActiveStatus =>
         EndAhead(u)' \/ Submitting(u)' \/ (view'[u] = view[u] /\ ~Submitting(u))
  BY <1>14, <1>15
<1> QED BY <1>1, <1>10, <1>12, <1>13, <1>15, <1>16, <1>17, QueueKept

\* The first event of a line, and those behind it.
LEMMA FirstOfLine ==
  ASSUME NEW line \in Seq(Event), line # <<>>
  PROVE  /\ Head(line) = line[1] /\ Head(line) \in Event
         /\ Len(line) \in Nat /\ 1 \in 1..Len(line)
         /\ \A k \in 1..Len(line) : k # 1 =>
              k > 1 /\ k - 1 \in 1..Len(Tail(line)) /\ Tail(line)[k - 1] = line[k]
         /\ Tail(line) \in Seq(Event)
<1>1. /\ Head(line) = line[1] /\ Head(line) \in Event
      /\ Len(line) \in Nat /\ 1 \in 1..Len(line)
      /\ Tail(line) \in Seq(Event) /\ Len(Tail(line)) = Len(line) - 1
      /\ \A i \in 1..Len(Tail(line)) : Tail(line)[i] = line[i + 1]
  OBVIOUS
<1>2. ASSUME NEW k \in 1..Len(line), k # 1
      PROVE  k > 1 /\ k - 1 \in 1..Len(Tail(line)) /\ Tail(line)[k - 1] = line[k]
  <2>1. k > 1 /\ k - 1 \in 1..Len(Tail(line)) /\ (k - 1) + 1 = k
    BY <1>1, <1>2
  <2>2. Tail(line)[k - 1] = line[(k - 1) + 1]
    BY <1>1, <2>1
  <2> QED BY <2>1, <2>2
<1> QED BY <1>1, <1>2

\* The queue hears of a transfer: what it takes back was drawn before, and an
\* end it does not hear of is still to come.
LEMMA QueueHears ==
  ASSUME Inv, WordsI, LineInv, QueueI, HandleQueueEvent,
         NoQueueRace
  PROVE  QueueI'
<1> DEFINE line == inbox["queue"]
           e == Head(line)
<1>0. line \in Seq(Event) /\ line # <<>>
  BY DEF HandleQueueEvent, Inv, ViewsInv, Pane
<1>1. /\ line \in Seq(Event) /\ line # <<>> /\ "queue" \in Pane
      /\ inbox' = [inbox EXCEPT !["queue"] = Tail(line)]
      /\ UNCHANGED <<historyVars, call, restore, listening>>
      /\ inbox \in [Pane -> Seq(Event)]
      /\ restore.at # "answered" /\ (e.task \in frame => e.record.status \notin EndStatus)
  BY DEF HandleQueueEvent, NoQueueRace, Inv, ViewsInv, Pane
<1>2. /\ e = line[1] /\ e \in Event
      /\ Len(line) \in Nat /\ 1 \in 1..Len(line)
      /\ \A k \in 1..Len(line) : k # 1 =>
           k > 1 /\ k - 1 \in 1..Len(Tail(line)) /\ Tail(line)[k - 1] = line[k]
      /\ Tail(line) \in Seq(Event)
  BY <1>0, FirstOfLine
<1>3. inbox'["queue"] = Tail(line) /\ inbox' \in [Pane -> Seq(Event)]
  BY <1>1, <1>2
<1>4. /\ e \in Event /\ e.task \in Task /\ e.kind \in {"task", "progress"}
      /\ e.record \in Record
  BY <1>2 DEF Event
<1>5. UNCHANGED <<tasks, now, job>> /\ \A u : (WillEnd(u)' <=> WillEnd(u)) /\ (Due(u)' <=> Due(u))
  BY <1>1 DEF historyVars, WillEnd, Due
<1>6. ASSUME NEW u \in Task, NEW k \in 1..Len(line), k > 1
      PROVE  \E i \in 1..Len(inbox'["queue"]) :
               (Word("queue", u, k) => Word("queue", u, i)') /\ (EndWord(u, k) => EndWord(u, i)')
  <2>0. k # 1
    BY <1>6
  <2>1. PICK i \in 1..Len(Tail(line)) : Tail(line)[i] = line[k]
    BY <1>2, <2>0
  <2>2. i \in 1..Len(inbox'["queue"]) /\ inbox'["queue"][i] = line[k]
    BY <1>3, <2>1
  <2> QED BY <2>2 DEF EndWord, Word
<1>7. ASSUME NEW u \in Task PROVE EndsAreTold(u)'
  <2>1. LinesShift
    BY <1>1, LinesOfSteps
  <2> QED BY <1>1, <1>3, <1>5, <2>1, EndsShift DEF QueueI
<1>8. ASSUME NEW u \in Task, EndAhead(u), ~EndWord(u, 1) PROVE EndAhead(u)'
  <2>1. CASE WillEnd(u)
    BY <1>5, <2>1 DEF EndAhead
  <2>2. CASE \E k \in 1..Len(line) : EndWord(u, k)
    <3>1. PICK k \in 1..Len(line) : EndWord(u, k)
      BY <2>2
    <3>2. k > 1
      <4>1. k # 1
        BY <1>8, <3>1
      <4> QED BY <1>2, <4>1
    <3> QED BY <1>6, <3>1, <3>2 DEF EndAhead
  <2> QED BY <1>8, <2>1, <2>2 DEF EndAhead
<1>9. ASSUME NEW u \in Task, Pending("queue", u), ~Word("queue", u, 1)
      PROVE  Pending("queue", u)'
  <2>1. CASE Due(u)
    BY <1>5, <2>1 DEF Pending
  <2>2. CASE \E k \in 1..Len(line) : Word("queue", u, k)
    <3>1. PICK k \in 1..Len(line) : Word("queue", u, k)
      BY <2>2
    <3>2. k > 1
      <4>1. k # 1
        BY <1>9, <3>1
      <4> QED BY <1>2, <4>1
    <3> QED BY <1>6, <3>1, <3>2 DEF Pending
  <2> QED BY <1>9, <2>1, <2>2 DEF Pending
\* The oldest event promises an end that is still ahead, unless it is one.
<1>10. ASSUME NEW u \in Task, u = e.task, ~EndWord(u, 1) PROVE EndAhead(u)'
  <2>1. WillEnd(u) \/ \E k \in 1..Len(line) : k >= 1 /\ EndWord(u, k)
    BY <1>2, <1>10 DEF QueueI, EndsAreTold
  <2>2. EndAhead(u)
    BY <2>1 DEF EndAhead
  <2> QED BY <1>8, <1>10, <2>2
<1>11. /\ \A u \in Task \ {e.task} : ~Word("queue", u, 1) /\ ~EndWord(u, 1)
       /\ Word("queue", e.task, 1) <=> e.kind = "task"
       /\ EndWord(e.task, 1) <=> e.kind = "task" /\ e.record.status \in EndStatus
  BY <1>2 DEF EndWord, Word
<1>12. /\ frame' \in {frame, frame \cup {e.task}}
       /\ e.task \in frame' => e.task \in frame \/ e.kind = "progress"
  BY DEF HandleQueueEvent
<1>13. /\ \A u \in Task \ {e.task} : view'[u] = view[u]
       /\ \/ view'[e.task] = view[e.task]
          \/ view'[e.task] = e.record.status /\ e.kind = "task"
          \/ view'[e.task] = "paused"
       /\ e.kind = "task" /\ view[e.task] # "none" => view'[e.task] \in {"paused", e.record.status}
       /\ \A u \in Task : listening["queue"] # "open" => view'[u] = view[u]
       /\ view' \in [Task -> ViewStatus]
  <2>1. view \in [Task -> ViewStatus] /\ "paused" \in ViewStatus
    BY DEF QueueI, AttachInv, ViewStatus
  <2>2. e.record.status \in ViewStatus
    BY <1>4 DEF Record, ViewStatus
  <2>3. listening["queue"] # "open" => view[e.task] = "none"
    BY <1>4 DEF QueueI, AttachInv
  <2>4. \/ view' = view /\ ~(e.kind = "task" /\ view[e.task] # "none")
        \/ /\ e.kind = "task" /\ listening["queue"] = "open"
           /\ \E s \in {"paused", e.record.status} : view' = [view EXCEPT ![e.task] = s]
    BY <2>3 DEF HandleQueueEvent
  <2> HIDE DEF e
  <2>5. CASE view' = view /\ ~(e.kind = "task" /\ view[e.task] # "none")
    BY <2>1, <2>5
  <2>6. CASE /\ e.kind = "task" /\ listening["queue"] = "open"
             /\ \E s \in {"paused", e.record.status} : view' = [view EXCEPT ![e.task] = s]
    <3>1. PICK s \in {"paused", e.record.status} : view' = [view EXCEPT ![e.task] = s]
      BY <2>6
    <3>2. s \in ViewStatus
      BY <2>1, <2>2
    <3> QED BY <1>4, <2>1, <2>6, <3>1, <3>2
  <2> QED BY <2>4, <2>5, <2>6
<1>14. AttachInv'
  <2>1. frame' \subseteq Task
    BY <1>4, <1>12 DEF QueueI, AttachInv
  <2>2. listening'["queue"] # "open" => restore'.at = "asked" /\ \A t \in Task : view'[t] = "none"
    BY <1>1, <1>13 DEF QueueI, AttachInv
  <2> QED BY <1>1, <1>13, <2>1, <2>2 DEF QueueI, AttachInv
<1>15. \A u \in Task : Submitting(u)' <=> Submitting(u)
  BY <1>1 DEF Submitting
<1>16. ASSUME NEW u \in Task PROVE ActiveInv(u)' /\ CompletedInv(u)'
  <2>0. ActiveInv(u) /\ CompletedInv(u)
    BY DEF QueueI
  <2>1. CASE u # e.task
    <3>1. EndAhead(u) => EndAhead(u)'
      BY <1>8, <1>11, <2>1
    <3>2. Pending("queue", u) => Pending("queue", u)'
      BY <1>9, <1>11, <2>1
    <3>3. u \in frame' => u \in frame
      BY <1>12, <2>1
    <3>4. view'[u] = view[u]
      BY <1>13, <2>1
    <3>5. ActiveInv(u)'
      BY <1>1, <1>15, <2>0, <3>1, <3>3, <3>4 DEF ActiveInv
    <3>6. CompletedInv(u)'
      BY <1>1, <1>5, <2>0, <3>2, <3>4 DEF CompletedInv
    <3> QED BY <3>5, <3>6
  <2>2. CASE u = e.task /\ ~EndWord(u, 1)
    <3>1. EndAhead(u)'
      BY <1>10, <2>2
    <3>2. ActiveInv(u)'
      BY <3>1 DEF ActiveInv
    <3>3. CASE e.kind = "progress"
      <4>1. Pending("queue", u) => Pending("queue", u)'
        BY <1>9, <1>11, <2>2, <3>3
      <4>2. view'[u] = view[u] \/ view'[u] = "paused"
        BY <1>13, <2>2, <3>3
      <4>3. CompletedInv(u)'
        BY <1>1, <1>5, <2>0, <4>1, <4>2 DEF CompletedInv
      <4> QED BY <3>2, <4>3
    <3>4. CASE e.kind = "task"
      <4>1. e.record.status # "completed"
        BY <1>11, <2>2, <3>4 DEF EndStatus
      <4>2. view'[u] # "completed"
        BY <1>13, <2>2, <3>4, <4>1
      <4>3. CompletedInv(u)'
        BY <1>1, <4>2 DEF CompletedInv
      <4> QED BY <3>2, <4>3
    <3> QED BY <1>4, <3>3, <3>4
  <2>3. CASE u = e.task /\ EndWord(u, 1)
    <3>1. e.kind = "task" /\ e.record.status \in EndStatus
      BY <1>11, <2>3
    <3>2. u \notin frame'
      BY <1>1, <1>12, <2>3, <3>1
    <3>3. view'[u] \in {"none", "paused", e.record.status}
      BY <1>13, <2>3, <3>1
    <3>4. view'[u] \notin ActiveStatus
      BY <3>1, <3>3 DEF ActiveStatus, EndStatus
    <3>5. ActiveInv(u)'
      BY <1>1, <3>2, <3>4 DEF ActiveInv
    <3>6. ASSUME e.record.status = "completed"
          PROVE  tasks[u] = NoRecord \/ tasks[u].status = "completed" \/ Pending("queue", u)'
      <4>1. \/ Due(u)
            \/ tasks[u] \in {NoRecord, line[1].record}
            \/ \E k \in 1..Len(line) : k > 1 /\ Word("queue", u, k)
        BY <1>1, <1>2, <1>11, <2>3, <3>1 DEF WordsI, WordsInv, LastWordIsListed
      <4>2. Due(u) => Pending("queue", u)'
        BY <1>5 DEF Pending
      <4>3. (\E k \in 1..Len(line) : k > 1 /\ Word("queue", u, k)) => Pending("queue", u)'
        BY <1>6 DEF Pending
      <4> QED BY <1>2, <3>6, <4>1, <4>2, <4>3
    <3>7. CompletedInv(u)'
      BY <1>1, <1>5, <3>3, <3>6 DEF CompletedInv
    <3> QED BY <3>5, <3>7
  <2> QED BY <2>1, <2>2, <2>3
<1> QED BY <1>7, <1>14, <1>16 DEF QueueI

\* The other steps of the queue and of its user.
LEMMA QueueUpdates ==
  ASSUME Inv, Inv', LineInv, QueueI, NEW t,
         NoQueueRace,
         \/ FlushProgress \/ ServeRestore \/ HandleRestore \/ Attach("queue")
         \/ t \in Task /\ (HandleAnswer(t) \/ QueueUser(t))
  PROVE  QueueI'
<1>1. /\ UNCHANGED <<tasks, now, job, inbox>> /\ "queue" \in Pane
  BY DEF FlushProgress, ServeRestore, HandleRestore, Attach, HandleAnswer, QueueUser, Enqueue,
         RestartTask, Pause, Cancel, CancelPaused, Remove, historyVars, Pane
<1>2. ASSUME NEW u \in Task
      PROVE  /\ EndsAreTold(u)'
             /\ EndAhead(u)' <=> EndAhead(u)
             /\ \/ Pending("queue", u)'
                \/ tasks'[u] \in {tasks[u], NoRecord} /\ ~Pending("queue", u)
  <2>1. EndsAreTold(u)
    BY DEF QueueI
  <2>2. /\ WillEnd(u)' <=> WillEnd(u)
        /\ \A i : Word("queue", u, i)' <=> Word("queue", u, i)
    BY <1>1 DEF WillEnd, Due, Word
  <2>3. EndsAreTold(u)'
    BY <1>1, <2>1, <2>2 DEF EndsAreTold, EndWord, Word
  <2>4. EndAhead(u)' <=> EndAhead(u)
    BY <1>1, <2>2 DEF EndAhead, EndWord, Word
  <2>5. Pending("queue", u)' <=> Pending("queue", u)
    BY <1>1, <2>2 DEF Pending, Due, Word
  <2> QED BY <1>1, <2>3, <2>4, <2>5
<1>3. /\ view \in [Task -> ViewStatus] /\ frame \subseteq Task /\ restore \in Listing
      /\ listening["queue"] # "open" =>
           restore.at = "asked" /\ \A u \in Task : view[u] = "none"
      /\ \A u \in Task : ActiveInv(u)
  BY DEF QueueI, AttachInv
<1>4. \A u \in Task : UNCHANGED call => (Submitting(u)' <=> Submitting(u))
  BY DEF Submitting
<1>5. CASE FlushProgress
  <2>1. /\ frame' = {} /\ UNCHANGED <<call, restore, listening>>
        /\ \A u \in Task : \/ view'[u] = view[u]
                           \/ u \in frame /\ view'[u] \in {"paused", "running"} /\ view[u] # "none"
        /\ view' \in [Task -> ViewStatus]
    BY <1>3, <1>5 DEF FlushProgress, ViewStatus, ActiveStatus
  <2>2. AttachInv'
    BY <1>3, <2>1 DEF AttachInv
  <2>3. \A u \in Task : view'[u] \in ActiveStatus =>
          EndAhead(u)' \/ (view'[u] = view[u] /\ ~Submitting(u)) \/ Submitting(u)'
    BY <1>2, <1>3, <1>4, <2>1 DEF ActiveInv
  <2> QED BY <1>2, <2>1, <2>2, <2>3, QueueKept
<1>6. CASE ServeRestore
  <2>1. /\ restore' = [at |-> "answered", list |-> tasks]
        /\ listening["queue"] = "open" /\ UNCHANGED <<view, frame, call, listening>>
    BY <1>6 DEF ServeRestore, MayList, NoQueueRace
  <2>2. restore'.at = "answered" /\ restore'.list = tasks /\ restore' \in Listing
    BY <2>1 DEF Listing, Inv, HistoryInv
  <2>3. AttachInv'
    BY <1>3, <2>1, <2>2 DEF AttachInv
  <2>4. ASSUME NEW u \in Task, tasks[u].status \in ActiveStatus PROVE EndAhead(u)
    <3>1. JobInv(u) /\ job[u] \in Job
      BY DEF Inv, HistoryInv
    <3>2. job[u].at \in {"registered", "waiting", "running", "unregistered"}
      BY <2>4, <3>1 DEF JobInv, Job
    <3> QED BY <3>2 DEF EndAhead, WillEnd
  <2>5. \A u \in Task : view'[u] \in ActiveStatus =>
          EndAhead(u)' \/ (view'[u] = view[u] /\ ~Submitting(u)) \/ Submitting(u)'
    BY <1>4, <2>1
  <2> QED BY <1>2, <2>1, <2>2, <2>3, <2>4, <2>5, QueueKept
<1>7. CASE HandleRestore
  <2>1. /\ restore.at = "answered" /\ restore' = NoListing
        /\ UNCHANGED <<frame, call, listening>> /\ listening["queue"] = "open"
        /\ \A u \in Task : view'[u] \in {view[u], restore.list[u].status}
    BY <1>3, <1>7 DEF HandleRestore
  <2>2. NoListing.at = "none" /\ NoListing \in Listing
    BY RecordFacts DEF NoListing, Listing
  <2>3. \A u \in Task : restore.list[u].status \in ViewStatus
    BY <1>3 DEF Listing, Record, ViewStatus
  <2>4. view' \in [Task -> ViewStatus]
    <3>1. view' = [u \in Task |-> view'[u]]
      BY <1>7 DEF HandleRestore
    <3>2. \A u \in Task : view'[u] \in ViewStatus
      BY <1>3, <2>1, <2>3
    <3> QED BY <3>1, <3>2
  <2>5. AttachInv'
    BY <1>3, <2>1, <2>2, <2>4 DEF AttachInv
  <2>6. \A u \in Task : view'[u] \in ActiveStatus =>
          EndAhead(u)' \/ (view'[u] = view[u] /\ ~Submitting(u)) \/ Submitting(u)'
    BY <1>2, <1>3, <1>4, <2>1 DEF ActiveInv
  <2> QED BY <1>2, <2>1, <2>2, <2>5, <2>6, QueueKept
<1>8. CASE Attach("queue")
  <2>1. UNCHANGED <<view, frame, call, restore>>
    BY <1>8 DEF Attach, queueVars
  <2>2. AttachInv'
    <3>1. listening'["queue"] = "open"
      BY <1>1, <1>8 DEF Attach, LineInv
    <3> QED BY <1>3, <2>1, <3>1 DEF AttachInv
  <2> QED BY <1>2, <1>4, <2>1, <2>2, QueueKept
<1>9. CASE t \in Task /\ HandleAnswer(t)
  <2>1. /\ call[t].at = "answered" /\ call' = [call EXCEPT ![t] = NoCall]
        /\ view' = [view EXCEPT ![t] = AfterAnswer(t)]
        /\ UNCHANGED <<frame, restore, listening>>
        /\ call \in [Task -> CallRecord]
    BY <1>9 DEF HandleAnswer, Inv, ViewsInv
  <2>2. /\ AfterAnswer(t) \in {view[t], "failed", "paused", "canceled", "none"}
        /\ view[t] = "none" => AfterAnswer(t) = "none"
        /\ Submitting(t) => AfterAnswer(t) \in {"none", "failed"}
    <3>1. call[t].lost \in BOOLEAN /\ call[t].ok \in BOOLEAN
      BY <1>9, <2>1 DEF CallRecord
    <3>2. ASSUME Submitting(t) PROVE AfterAnswer(t) \in {"none", "failed"}
      <4>1. call[t].kind = "submit" /\ ~call[t].lost /\ ~call[t].ok
        BY <2>1, <3>2 DEF Submitting
      <4> QED BY <4>1 DEF AfterAnswer
    <3>3. view[t] = "none" => AfterAnswer(t) = "none"
      BY DEF AfterAnswer
    <3>4. AfterAnswer(t) \in {view[t], "failed", "paused", "canceled", "none"}
      BY <3>1 DEF AfterAnswer
    <3> QED BY <3>2, <3>3, <3>4
  <2>3. {view[t], "failed", "paused", "canceled", "none"} \subseteq ViewStatus
    BY <1>3, <1>9 DEF ViewStatus, EndStatus
  <2>4. /\ view' \in [Task -> ViewStatus] /\ view'[t] = AfterAnswer(t)
        /\ \A u \in Task \ {t} : view'[u] = view[u]
    BY <1>3, <1>9, <2>1, <2>2, <2>3
  <2>5. AttachInv'
    BY <1>3, <2>1, <2>2, <2>4 DEF AttachInv
  <2>6. ASSUME NEW u \in Task, view'[u] \in ActiveStatus
        PROVE  EndAhead(u)' \/ (view'[u] = view[u] /\ ~Submitting(u)) \/ Submitting(u)'
    <3>1. CASE u = t
      <4>1. {"failed", "paused", "canceled", "none"} \cap ActiveStatus = {}
        BY DEF ActiveStatus
      <4> QED BY <2>2, <2>4, <2>6, <3>1, <4>1
    <3>2. CASE u # t
      <4>1. call'[u] = call[u]
        BY <2>1, <3>2
      <4> QED BY <2>4, <3>2, <4>1 DEF Submitting
    <3> QED BY <3>1, <3>2
  <2>7. \A u \in Task : view'[u] = "completed" => view[u] = "completed"
    BY <2>2, <2>4
  <2> QED BY <1>2, <2>1, <2>5, <2>6, <2>7, QueueKept
<1>10. ASSUME t \in Task, UNCHANGED <<view, frame, restore, listening>>,
              NEW kind \in {"pause", "cancel", "remove"}, Press(t, kind)
       PROVE  QueueI'
  <2>1. \A u \in Task : Submitting(u) => Submitting(u)'
    <3>1. ~Submitting(t)
      <4>1. call[t].kind = "none"
        BY <1>10 DEF Press, NoCall
      <4> QED BY <4>1 DEF Submitting
    <3>2. \A u \in Task \ {t} : call'[u] = call[u]
      BY <1>10 DEF Press, Inv, ViewsInv
    <3> QED BY <3>1, <3>2 DEF Submitting
  <2>2. AttachInv'
    BY <1>3, <1>10 DEF AttachInv
  <2> QED BY <1>2, <1>10, <2>1, <2>2, QueueKept
<1>11. ASSUME t \in Task, UNCHANGED <<frame, restore, listening>>, Press(t, "submit"),
              view' = [view EXCEPT ![t] = "queued"]
       PROVE  QueueI'
  <2>1. listening["queue"] = "open" /\ call' = [call EXCEPT ![t] =
          [NoCall EXCEPT !.kind = "submit", !.at = "asked"]]
    BY <1>11 DEF Press, MayList, NoQueueRace
  <2>2. /\ Submitting(t)'
        /\ \A u \in Task \ {t} : Submitting(u)' <=> Submitting(u)
    BY <2>1 DEF Submitting, NoCall, Inv, ViewsInv
  <2>3. /\ view' \in [Task -> ViewStatus] /\ view'[t] = "queued"
        /\ \A u \in Task \ {t} : view'[u] = view[u]
    BY <1>3, <1>11 DEF ViewStatus, ActiveStatus
  <2>4. AttachInv'
    BY <1>3, <1>11, <2>1, <2>3 DEF AttachInv
  <2>5. \A u \in Task : view'[u] \in ActiveStatus =>
          EndAhead(u)' \/ (view'[u] = view[u] /\ ~Submitting(u)) \/ Submitting(u)'
    BY <2>2, <2>3
  <2> QED BY <1>2, <1>11, <2>3, <2>4, <2>5, QueueKept
<1>12. ASSUME t \in Task, CancelPaused(t) PROVE QueueI'
  <2>1. /\ view[t] = "paused" /\ view' = [view EXCEPT ![t] = "canceled"]
        /\ UNCHANGED <<frame, restore, listening, call>>
    BY <1>12 DEF CancelPaused
  <2>2. /\ view' \in [Task -> ViewStatus] /\ view'[t] = "canceled"
        /\ \A u \in Task \ {t} : view'[u] = view[u]
    BY <1>3, <1>12, <2>1 DEF ViewStatus, EndStatus
  <2>3. AttachInv'
    BY <1>3, <2>1, <2>2 DEF AttachInv
  <2>4. \A u \in Task : view'[u] \in ActiveStatus =>
          EndAhead(u)' \/ (view'[u] = view[u] /\ ~Submitting(u)) \/ Submitting(u)'
    BY <1>4, <2>1, <2>2 DEF ActiveStatus
  <2> QED BY <1>2, <2>1, <2>2, <2>3, <2>4, QueueKept
<1>13. CASE t \in Task /\ QueueUser(t)
  BY <1>10, <1>11, <1>12, <1>13 DEF QueueUser, Enqueue, RestartTask, Pause, Cancel, Remove
<1> QED BY <1>5, <1>6, <1>7, <1>8, <1>9, <1>13

LEMMA QueueReload ==
  ASSUME Inv, LineInv, QueueI, Reload
  PROVE  QueueI'
<1>1. /\ view' = [t \in Task |-> "none"] /\ frame' = {} /\ restore' = Asked
      /\ inbox'["queue"] = <<>>
  BY DEF Reload, Inv, ViewsInv, Pane
<1>2. Asked.at = "asked" /\ Asked \in Listing
  BY RecordFacts DEF Asked, NoListing, Listing
<1>3. view' \in [Task -> ViewStatus] /\ \A t \in Task : view'[t] = "none"
  BY <1>1 DEF ViewStatus
<1>4. AttachInv'
  BY <1>1, <1>2, <1>3 DEF AttachInv
<1>5. "none" \notin ActiveStatus /\ Len(inbox'["queue"]) = 0
  BY <1>1 DEF ActiveStatus
<1>6. \A t \in Task : EndsAreTold(t)'
  BY <1>5 DEF EndsAreTold
<1>7. \A t \in Task : ActiveInv(t)' /\ CompletedInv(t)'
  BY <1>1, <1>2, <1>3, <1>5 DEF ActiveInv, CompletedInv
<1> QED BY <1>4, <1>6, <1>7 DEF QueueI

LEMMA QueueRestart ==
  ASSUME LineInv, RestartProgram
  PROVE  QueueI'
<1>1. /\ view' = [t \in Task |-> "none"] /\ frame' = {} /\ restore' = NoListing
      /\ inbox'["queue"] = <<>> /\ listening'["queue"] = "open"
  BY DEF RestartProgram, LineInv, Pane
<1>2. NoListing.at = "none" /\ NoListing \in Listing
  BY RecordFacts DEF NoListing, Listing
<1>3. view' \in [Task -> ViewStatus] /\ \A t \in Task : view'[t] = "none"
  BY <1>1 DEF ViewStatus
<1>4. AttachInv'
  BY <1>1, <1>2, <1>3 DEF AttachInv
<1>5. "none" \notin ActiveStatus /\ Len(inbox'["queue"]) = 0
  BY <1>1 DEF ActiveStatus
<1>6. \A t \in Task : EndsAreTold(t)'
  BY <1>5 DEF EndsAreTold
<1>7. \A t \in Task : ActiveInv(t)' /\ CompletedInv(t)'
  BY <1>1, <1>2, <1>3, <1>5 DEF ActiveInv, CompletedInv
<1> QED BY <1>4, <1>6, <1>7 DEF QueueI

LEMMA QueueInit == ViewsInit => QueueI
<1> SUFFICES ASSUME ViewsInit PROVE QueueI
  OBVIOUS
<1>1. /\ view = [t \in Task |-> "none"] /\ frame = {} /\ restore = NoListing
      /\ inbox["queue"] = <<>> /\ listening["queue"] = "open"
  BY DEF ViewsInit, Pane
<1>2. NoListing.at = "none" /\ NoListing \in Listing
  BY RecordFacts DEF NoListing, Listing
<1>3. view \in [Task -> ViewStatus] /\ \A t \in Task : view[t] = "none"
  BY <1>1 DEF ViewStatus
<1>4. AttachInv
  BY <1>1, <1>2, <1>3 DEF AttachInv
<1>5. "none" \notin ActiveStatus /\ Len(inbox["queue"]) = 0
  BY <1>1 DEF ActiveStatus
<1>6. \A t \in Task : EndsAreTold(t)
  BY <1>5 DEF EndsAreTold
<1>7. \A t \in Task : ActiveInv(t) /\ CompletedInv(t)
  BY <1>1, <1>2, <1>3, <1>5 DEF ActiveInv, CompletedInv
<1> QED BY <1>4, <1>6, <1>7 DEF QueueI

\* The back end answers a submission by its job, or refuses it.
LEMMA SubmissionServed ==
  ASSUME Inv, NEW t \in Task, BackendStep(t), ~Emit(t), NEW u \in Task, Submitting(u)
  PROVE  Submitting(u)' \/ EndAhead(u)'
<1>1. /\ call \in [Task -> CallRecord] /\ job \in [Task -> Job]
      /\ call[u].kind = "submit" /\ ~call[u].lost
  BY DEF Inv, HistoryInv, ViewsInv, Submitting
<1>2. CASE call'[u] = call[u]
  BY <1>2 DEF Submitting
<1>3. CASE ServeSubmit(t)
  <2>1. CASE /\ job[t] = IdleJob
             /\ job' = [job EXCEPT ![t].at = "registered"]
             /\ call' = [call EXCEPT ![t].at = "persist"]
    <3>1. job'[t].at = "registered"
      BY <1>1, <2>1 DEF Job
    <3>2. u = t \/ call'[u] = call[u]
      BY <1>1, <2>1
    <3> QED BY <1>2, <3>1, <3>2 DEF EndAhead, WillEnd
  <2>2. CASE call' = [call EXCEPT ![t].at = "answered", ![t].ok = FALSE]
    <3>1. u = t => call'[u] = [call[u] EXCEPT !.at = "answered", !.ok = FALSE]
      BY <1>1, <2>2
    <3>2. u # t => call'[u] = call[u]
      BY <1>1, <2>2
    <3>3. u = t => call'[u].kind = "submit" /\ ~call'[u].lost /\ call'[u].at = "answered"
                   /\ ~call'[u].ok
      BY <1>1, <3>1 DEF CallRecord
    <3> QED BY <1>2, <3>2, <3>3 DEF Submitting
  <2> QED BY <1>3, <2>1, <2>2 DEF ServeSubmit
<1>4. CASE ServeCancel(t) \/ ServeRemove(t) \/ PersistRemoval(t)
  <2>1. call[t].kind # "submit"
    BY <1>4 DEF ServeCancel, ServeRemove, PersistRemoval
  <2>2. \A v \in Task \ {t} : call'[v] = call[v]
    BY <1>1, <1>4 DEF ServeCancel, ServeRemove, PersistRemoval
  <2> QED BY <1>1, <1>2, <2>1, <2>2
<1>5. CASE JobStep(t) /\ UNCHANGED Untouched
  BY <1>2, <1>5 DEF Untouched, queueVars
<1> QED BY <1>3, <1>4, <1>5 DEF BackendStep

\* What the other steps leave alone of the queue.
LEMMA StepsBesideQueue ==
  ASSUME [ViewsNext]_viewVars, ~RestartProgram, ~Reload, ~QueueStep,
         \A t \in Task : ~Emit(t) /\ ~HandleAnswer(t) /\ ~QueueUser(t),
         inbox \in [Pane -> Seq(Event)],
         listening \in [Pane -> {"closed", "attaching", "open"}]
  PROVE  /\ UNCHANGED <<view, frame, restore>>
         /\ listening'["queue"] = listening["queue"] /\ inbox'["queue"] = inbox["queue"]
         /\ UNCHANGED call \/ \E t \in Task : BackendStep(t)
<1>0. "center" \in Pane /\ "queue" \in Pane
  BY DEF Pane
<1>1. ASSUME NEW t \in Task, BackendStep(t)
      PROVE  UNCHANGED <<view, frame, restore, listening, inbox>>
  BY <1>1 DEF BackendStep, Untouched, ServeSubmit, ServeCancel, ServeRemove,
       PersistRemoval, queueVars
<1>2. CASE CenterStep \/ CenterUser \/ ServeCenter
  <2>1. UNCHANGED queueVars
    BY <1>2 DEF CenterStep, CenterUser, ServeCenter, HandleCenterEvent, HandleRefresh,
       HandleChore, Attach, Subscribe, Unsubscribe, ClearFinished, RemoveShown, ServeChore,
       PersistChore, ServeRefresh
  <2>2. \/ inbox' = inbox
        \/ inbox' = [inbox EXCEPT !["center"] = Tail(@)]
        \/ inbox' = [inbox EXCEPT !["center"] = <<>>]
    BY <1>2 DEF CenterStep, CenterUser, ServeCenter, HandleCenterEvent, HandleRefresh,
       HandleChore, Attach, Subscribe, Unsubscribe, ClearFinished, RemoveShown, ServeChore,
       PersistChore, ServeRefresh
  <2>3. \/ listening' = listening
        \/ \E s : listening' = [listening EXCEPT !["center"] = s]
    BY <1>2 DEF CenterStep, CenterUser, ServeCenter, HandleCenterEvent, HandleRefresh,
       HandleChore, Attach, Subscribe, Unsubscribe, ClearFinished, RemoveShown, ServeChore,
       PersistChore, ServeRefresh
  <2>4. listening'["queue"] = listening["queue"] /\ inbox'["queue"] = inbox["queue"]
    BY <1>0, <2>2, <2>3
  <2> QED BY <2>1, <2>4 DEF queueVars
<1>3. CASE UNCHANGED viewVars
  BY <1>3 DEF viewVars, queueVars
<1> QED BY <1>1, <1>2, <1>3 DEF ViewsNext, SystemStep

LEMMA QueueNext ==
  ASSUME NoQueueRace
  PROVE  Inv /\ WordsI /\ LineInv /\ QueueI /\ [ViewsNext]_viewVars => QueueI'
<1> SUFFICES ASSUME Inv, WordsI, LineInv, QueueI, [ViewsNext]_viewVars
             PROVE  QueueI'
  OBVIOUS
<1>0. Inv'
  BY InvNext
<1>1. CASE RestartProgram
  BY <1>1, QueueRestart
<1>2. CASE Reload
  BY <1>2, QueueReload
<1>3. CASE QueueStep
  BY <1>0, <1>3, QueueHears, QueueUpdates DEF QueueStep
<1>4. ASSUME NEW t \in Task, HandleAnswer(t) \/ QueueUser(t) PROVE QueueI'
  BY <1>0, <1>4, QueueUpdates
<1>5. CASE \E t \in Task : Emit(t)
  BY <1>5, QueueEmit
<1>6. CASE /\ ~RestartProgram /\ ~Reload /\ ~QueueStep
           /\ \A t \in Task : ~Emit(t) /\ ~HandleAnswer(t) /\ ~QueueUser(t)
  <2>1. /\ HistoryStep /\ LinesShift
        /\ \A t \in Task : WillEnd(t) => WillEnd(t)'
    BY <1>6, OtherSteps
  <2>2. /\ UNCHANGED <<view, frame, restore>>
        /\ listening'["queue"] = listening["queue"] /\ inbox'["queue"] = inbox["queue"]
        /\ UNCHANGED call \/ \E t \in Task : BackendStep(t)
    BY <1>6, StepsBesideQueue DEF Inv, ViewsInv, LineInv
  <2>3. AttachInv'
    BY <2>2 DEF QueueI, AttachInv
  <2>4. ASSUME NEW t \in Task
        PROVE  /\ EndsAreTold(t)'
               /\ EndAhead(t) => EndAhead(t)'
               /\ \/ Pending("queue", t)'
                  \/ tasks'[t] \in {tasks[t], NoRecord} /\ ~Pending("queue", t)
    BY <1>0, <2>1, <2>2, QueueLineStays
  <2>5. ASSUME NEW t \in Task, Submitting(t) PROVE Submitting(t)' \/ EndAhead(t)'
    <3>1. CASE UNCHANGED call
      BY <2>5, <3>1 DEF Submitting
    <3>2. ASSUME NEW u \in Task, BackendStep(u) PROVE Submitting(t)' \/ EndAhead(t)'
      BY <1>6, <2>5, <3>2, SubmissionServed
    <3> QED BY <2>2, <3>1, <3>2
  <2> QED BY <2>2, <2>3, <2>4, <2>5, QueueKept
<1> QED BY <1>1, <1>2, <1>3, <1>4, <1>5, <1>6

LEMMA QueueIsSettled ==
  ASSUME Inv, QueueI
  PROVE  ViewSettles
<1> SUFFICES ASSUME NEW t \in Task, QueueIsQuiet(t)
             PROVE  /\ view[t] \notin ActiveStatus
                    /\ view[t] = "completed" /\ tasks[t] # NoRecord =>
                         tasks[t].status = "completed"
  BY DEF ViewSettles
<1>1. /\ job[t].at = "idle" /\ call[t] = NoCall /\ inbox["queue"] = <<>>
  BY DEF QueueIsQuiet
<1>2. ~Due(t) /\ ~WillEnd(t)
  BY <1>1 DEF Inv, HistoryInv, JobInv, Due, WillEnd
<1>3. Len(inbox["queue"]) = 0
  BY <1>1
<1>4. ~Pending("queue", t) /\ ~EndAhead(t)
  BY <1>2, <1>3 DEF Pending, EndAhead
<1>5. ~Submitting(t)
  BY <1>1 DEF Submitting, NoCall
<1> QED BY <1>4, <1>5 DEF QueueI, ActiveInv, CompletedInv

\* Once all is quiet the queue of a window shows no transfer as waiting or
\* running that has ended, and none as completed that is listed as anything
\* else, if progress is drawn before the event that ends it and the page listens
\* before it asks for the list (useTransferQueue.ts).
THEOREM QueueTellsTheHistory ==
  NoQueueRace => (ViewsSpec => []ViewSettles)
<1> SUFFICES ASSUME NoQueueRace
             PROVE  ViewsSpec => []ViewSettles
  OBVIOUS
<1> DEFINE I == Inv /\ WordsI /\ LineInv /\ QueueI
<1>1. ViewsInit => I
  BY InvInit, WordsInit, QueueInit
<1>2. I /\ [ViewsNext]_viewVars => I'
  BY InvNext, WordsNext, QueueNext
<1>3. I => ViewSettles
  BY QueueIsSettled
<1> HIDE DEF I
<1> QED BY <1>1, <1>2, <1>3, PTL DEF ViewsSpec

=============================================================================
