--------------------------- MODULE TransferViews ----------------------------
(***************************************************************************)
(* What two windows show of the transfers in TransferHistory: the queue of *)
(* an SFTP window (useTransferQueue.ts), whose user submits, pauses,       *)
(* cancels and retries, and the transfer center of the main window         *)
(* (transferActivityStore.ts).  Events reach a window in the order they    *)
(* are emitted; answers of calls overtake them and are overtaken.          *)
(***************************************************************************)
EXTENDS TransferHistory, Sequences

CONSTANTS MaxClicks,    \* bound on the calls that users make
          MaxInTransit, \* bound on the events on their way to one window
          Race          \* the races that may happen, see below

\* With Race = {} the events that end a transfer are handled after the frame
\* that draws its progress ("late frame"), a list of transfers is asked for
\* only once the window listens to events ("late listener"), a reloaded queue
\* gets its list before the events that follow it ("late list"), and nobody
\* removes records while the center reads them ("removal while reading").

ASSUME RaceAssumption ==
  Race \subseteq {"late frame", "late listener", "late list", "removal while reading"}

VARIABLES view,      \* view[t]: the status in the window's queue
          mine,      \* the transfers of this connection
          paused,    \* pauseRequestedRef
          frame,     \* pendingProgressRef: progress to draw in the next frame
          call,      \* call[t]: what the queue has asked for t
          restore,   \* the queue's call of listTransfers
          shown,     \* the center's tasks
          revised,   \* has eventRevision changed since refresh began?
          refresh,   \* the center's call of listTransfers
          chore,     \* the center's call of remove or clearFinished
          listening, \* do the window's listeners get events?
          inbox,     \* the events on their way
          clicks

queueVars == <<view, mine, paused, frame, call, restore>>
centerVars == <<shown, revised, refresh, chore>>
viewVars == <<historyVars, queueVars, centerVars, listening, inbox, clicks>>

Pane == {"queue", "center"}
ViewStatus == ActiveStatus \cup EndStatus \cup {"none", "paused"}
CallKind == {"submit", "pause", "cancel", "remove"}

\* A call is asked, perhaps persisting, then answered; a listing's answer is
\* the list.  The answer to a page that is gone is lost.
NoCall == [kind |-> "none", at |-> "none", ok |-> FALSE, lost |-> FALSE]
NoListing == [at |-> "none", list |-> [t \in Task |-> NoRecord]]
NoChore == [kind |-> "none", at |-> "none", of |-> {}]
Asked == [at |-> "asked", list |-> NoListing.list]

ViewsTypeOK ==
  /\ HistoryTypeOK
  /\ view \in [Task -> ViewStatus]
  /\ mine \in SUBSET Task /\ paused \in SUBSET Task /\ frame \in SUBSET Task
  /\ \A t \in Task : /\ call[t].kind \in CallKind \cup {"none"}
                     /\ call[t].at \in {"none", "asked", "persist", "answered"}
                     /\ call[t].kind = "none" <=> call[t].at = "none"
  /\ restore.at \in {"none", "asked", "answered"}
  /\ refresh.at \in {"none", "asked", "answered"}
  /\ shown \in [Task -> Record]
  /\ revised \in BOOLEAN
  /\ chore.of \subseteq Task
  /\ listening \in [Pane -> {"closed", "attaching", "open"}]
  /\ \A p \in Pane : Len(inbox[p]) <= MaxInTransit + 2

ViewsInit ==
  /\ HistoryInit
  /\ view = [t \in Task |-> "none"]
  /\ mine = {} /\ paused = {} /\ frame = {}
  /\ call = [t \in Task |-> NoCall]
  /\ restore = NoListing
  /\ shown = [t \in Task |-> NoRecord]
  /\ revised = FALSE
  /\ refresh = NoListing
  /\ chore = NoChore
  /\ listening = [p \in Pane |-> IF p = "queue" THEN "open" ELSE "closed"]
  /\ inbox = [p \in Pane |-> <<>>]
  /\ clicks = 0

Click == clicks < MaxClicks /\ clicks' = clicks + 1

\* Reloads, openings of the center and crashes are counted with the reports.
Turn == turns < MaxTurns /\ turns' = turns + 1

QuietHistory == <<tasks, file, now, job, canceled>>

-----------------------------------------------------------------------------
(* The back end tells the windows, and serves their calls.                 *)

TaskEvent(t) == [kind |-> "task", task |-> t, record |-> job[t].record]
ProgressEvent(t) == [kind |-> "progress", task |-> t, record |-> NoRecord]

\* Mutant: the windows are told before the file is written.
EmitEarly(t) ==
  /\ job[t].due \in {"persist", "emit"}
  /\ \A p \in Pane : Len(inbox[p]) <= MaxInTransit
  /\ inbox' = [p \in Pane |-> Append(inbox[p], TaskEvent(t))]
  /\ job' = [job EXCEPT ![t].due = IF @ = "emit" THEN "nothing" ELSE @]
  /\ call' = IF job[t].record.status = "queued" /\ call[t].at = "persist"
             THEN [call EXCEPT ![t].at = "answered", ![t].ok = TRUE] ELSE call
  /\ UNCHANGED <<tasks, file, now, canceled, turns, view, mine, paused, frame,
                 restore, centerVars, listening, clicks>>

\* transfer:task-changed, and transfer:progress after it while it runs; the
\* call that submitted the transfer returns after the first.
Emit(t) ==
  /\ job[t].due = "emit"
  /\ \A p \in Pane : Len(inbox[p]) <= MaxInTransit
  /\ inbox' = [inbox EXCEPT
       !["queue"] = @ \o (IF job[t].record.status = "running"
                          THEN <<TaskEvent(t), ProgressEvent(t)>>
                          ELSE <<TaskEvent(t)>>),
       !["center"] = IF listening["center"] = "closed" THEN @ ELSE Append(@, TaskEvent(t))]
  /\ job' = [job EXCEPT ![t].due = "nothing"]
  /\ call' = IF job[t].record.status = "queued"
             THEN [call EXCEPT ![t].at = "answered", ![t].ok = TRUE] ELSE call
  /\ UNCHANGED <<tasks, file, now, canceled, turns, view, mine, paused, frame,
                 restore, centerVars, listening, clicks>>

\* An id that is running is refused, and anything once the connection is lost.
\* One whose last job still winds down waits (TransferRuntime has that race).
ServeSubmit(t) ==
  /\ call[t].kind = "submit" /\ call[t].at = "asked"
  /\ \/ /\ job[t] = IdleJob
        /\ job' = [job EXCEPT ![t].at = "registered"]
        /\ call' = [call EXCEPT ![t].at = "persist"]
     \/ /\ Registered(t) \/ job[t] = IdleJob
        /\ call' = [call EXCEPT ![t].at = "answered", ![t].ok = FALSE]
        /\ UNCHANGED job
  /\ UNCHANGED <<tasks, file, now, canceled, turns, view, mine, paused, frame,
                 restore, centerVars, listening, inbox, clicks>>

\* cancel_transfer.
ServeCancel(t) ==
  /\ call[t].kind \in {"pause", "cancel"} /\ call[t].at = "asked"
  /\ canceled' = IF Registered(t) THEN canceled \cup {t} ELSE canceled
  /\ call' = [call EXCEPT ![t].at = "answered", ![t].ok = Registered(t)]
  /\ UNCHANGED <<tasks, file, now, job, turns, view, mine, paused, frame,
                 restore, centerVars, listening, inbox, clicks>>

Without(gone) == [t \in Task |-> IF t \in gone THEN NoRecord ELSE tasks[t]]

\* remove_transfer: nothing active is removed; the file is written after it.
ServeRemove(t) ==
  /\ call[t].kind = "remove" /\ call[t].at = "asked"
  /\ LET gone == {t} \cap {u \in Task : tasks[u].status \in EndStatus} IN
       /\ tasks' = Without(gone)
       /\ call' = [call EXCEPT ![t].at = IF gone = {} THEN "answered" ELSE "persist",
                               ![t].ok = gone # {}]
  /\ UNCHANGED <<file, now, job, canceled, turns, view, mine, paused, frame,
                 restore, centerVars, listening, inbox, clicks>>

PersistRemoval(t) ==
  /\ call[t].kind = "remove" /\ call[t].at = "persist"
  /\ file' = Pruned(tasks)
  /\ call' = [call EXCEPT ![t].at = "answered"]
  /\ UNCHANGED <<tasks, now, job, canceled, turns, view, mine, paused, frame,
                 restore, centerVars, listening, inbox, clicks>>

\* The same calls of the center; what clear_finished removes is up to the list.
ServeChore ==
  /\ chore.at = "asked"
  /\ LET gone == {t \in Task : tasks[t].status \in EndStatus}
                   \cap (IF chore.kind = "clear" THEN Task ELSE chore.of) IN
       /\ tasks' = Without(gone)
       /\ chore' = [chore EXCEPT !.at = IF gone = {} THEN "answered" ELSE "persist",
                                 !.of = gone]
  /\ UNCHANGED <<file, now, job, canceled, turns, queueVars, shown, revised,
                 refresh, listening, inbox, clicks>>

PersistChore ==
  /\ chore.at = "persist"
  /\ file' = Pruned(tasks)
  /\ chore' = [chore EXCEPT !.at = "answered"]
  /\ UNCHANGED <<tasks, now, job, canceled, turns, queueVars, shown, revised,
                 refresh, listening, inbox, clicks>>

MayList(p) == listening[p] = "open" \/ "late listener" \in Race

ServeRestore ==
  /\ restore.at = "asked" /\ MayList("queue")
  /\ restore' = [at |-> "answered", list |-> tasks]
  /\ UNCHANGED <<historyVars, view, mine, paused, frame, call, centerVars,
                 listening, inbox, clicks>>

ServeRefresh ==
  /\ refresh.at = "asked" /\ (listening["center"] # "attaching" \/ MayList("center"))
  /\ refresh' = [at |-> "answered", list |-> tasks]
  /\ UNCHANGED <<historyVars, queueVars, shown, revised, chore, listening, inbox,
                 clicks>>

-----------------------------------------------------------------------------
(* The queue of the SFTP window                                            *)

\* A button is pressed again only when its task's last call was answered.
Press(t, kind) ==
  /\ call[t] = NoCall /\ MayList("queue")
  /\ Click
  /\ call' = [call EXCEPT ![t] = [NoCall EXCEPT !.kind = kind, !.at = "asked"]]

Enqueue(t) ==
  /\ view[t] = "none" /\ t \notin mine /\ tasks[t] = NoRecord
  /\ Press(t, "submit")
  /\ mine' = mine \cup {t}
  /\ view' = [view EXCEPT ![t] = "queued"]
  /\ UNCHANGED <<historyVars, paused, frame, restore, centerVars, listening, inbox>>

\* restartTask, behind both resume and retry.
RestartTask(t) ==
  /\ view[t] \in {"paused", "failed", "canceled"}
  /\ Press(t, "submit")
  /\ paused' = paused \ {t}
  /\ view' = [view EXCEPT ![t] = "queued"]
  /\ UNCHANGED <<historyVars, mine, frame, restore, centerVars, listening, inbox>>

Pause(t) ==
  /\ view[t] \in ActiveStatus
  /\ Press(t, "pause")
  /\ paused' = paused \cup {t}
  /\ UNCHANGED <<historyVars, view, mine, frame, restore, centerVars, listening,
                 inbox>>

Cancel(t) ==
  /\ view[t] \in ActiveStatus
  /\ Press(t, "cancel")
  /\ paused' = paused \ {t}
  /\ UNCHANGED <<historyVars, view, mine, frame, restore, centerVars, listening,
                 inbox>>

CancelPaused(t) ==
  /\ view[t] = "paused" /\ call[t] = NoCall
  /\ paused' = paused \ {t}
  /\ view' = [view EXCEPT ![t] = "canceled"]
  /\ UNCHANGED <<historyVars, mine, frame, call, restore, centerVars, listening,
                 inbox, clicks>>

\* remove, and clearFinished for each of its tasks.
Remove(t) ==
  /\ view[t] \in EndStatus
  /\ Press(t, "remove")
  /\ UNCHANGED <<historyVars, view, mine, paused, frame, restore, centerVars,
                 listening, inbox>>

\* Mutant: a submission that fails leaves its task as it is.
AfterAnswerUnlessRefused(t) ==
  IF call[t].lost \/ view[t] = "none" THEN view[t] ELSE
  CASE call[t].kind = "pause" -> "paused"
    [] call[t].kind = "cancel" /\ call[t].ok -> "canceled"
    [] call[t].kind = "remove" /\ call[t].ok -> "none"
    [] OTHER -> view[t]

\* What follows the await in submitTasks, pause, cancel and remove.
AfterAnswer(t) ==
  IF call[t].lost \/ view[t] = "none" THEN view[t] ELSE
  CASE call[t].kind = "submit" /\ ~call[t].ok -> "failed"
    [] call[t].kind = "pause" -> "paused"
    [] call[t].kind = "cancel" /\ call[t].ok -> "canceled"
    [] call[t].kind = "remove" /\ call[t].ok -> "none"
    [] OTHER -> view[t]

HandleAnswer(t) ==
  /\ call[t].at = "answered"
  /\ call' = [call EXCEPT ![t] = NoCall]
  /\ view' = [view EXCEPT ![t] = AfterAnswer(t)]
  /\ UNCHANGED <<historyVars, mine, paused, frame, restore, centerVars, listening,
                 inbox, clicks>>

\* The listeners of the queue: progress waits for a frame, a change does not.
HandleQueueEvent ==
  /\ inbox["queue"] # <<>>
  /\ LET event == Head(inbox["queue"])
         t == event.task
         status == event.record.status IN
       /\ "late list" \in Race \/ restore.at # "answered"
       /\ "late frame" \in Race \/ t \notin frame \/ status \notin EndStatus
       /\ inbox' = [inbox EXCEPT !["queue"] = Tail(@)]
       /\ frame' = IF event.kind = "progress" /\ listening["queue"] = "open"
                   THEN frame \cup {t} ELSE frame
       /\ view' = IF event.kind = "task" /\ listening["queue"] = "open" /\ view[t] # "none"
                  THEN [view EXCEPT ![t] =
                         IF t \in paused /\ status = "canceled" THEN "paused" ELSE status]
                  ELSE view
  /\ UNCHANGED <<historyVars, mine, paused, call, restore, centerVars, listening,
                 clicks>>

FlushProgress ==
  /\ frame # {}
  /\ frame' = {}
  /\ view' = [t \in Task |->
       IF t \in frame /\ view[t] # "none"
       THEN IF t \in paused THEN "paused" ELSE "running"
       ELSE view[t]]
  /\ UNCHANGED <<historyVars, mine, paused, call, restore, centerVars, listening,
                 inbox, clicks>>

\* The page is loaded anew: it attaches its listeners and asks for the list.
Reload ==
  /\ Turn
  /\ restore.at = "none"
  /\ view' = [t \in Task |-> "none"]
  /\ paused' = {} /\ frame' = {}
  /\ call' = [t \in Task |-> IF call[t] = NoCall THEN NoCall
                             ELSE [call[t] EXCEPT !.lost = TRUE]]
  /\ restore' = Asked
  /\ listening' = [listening EXCEPT !["queue"] = "attaching"]
  /\ inbox' = [inbox EXCEPT !["queue"] = <<>>]
  /\ UNCHANGED <<QuietHistory, mine, centerVars, clicks>>

HandleRestore ==
  /\ restore.at = "answered"
  /\ restore' = NoListing
  /\ view' = [t \in Task |-> IF view[t] = "none" /\ t \in mine
                             THEN restore.list[t].status ELSE view[t]]
  /\ UNCHANGED <<historyVars, mine, paused, frame, call, centerVars, listening,
                 inbox, clicks>>

Attach(p) ==
  /\ listening[p] = "attaching"
  /\ listening' = [listening EXCEPT ![p] = "open"]
  /\ UNCHANGED <<historyVars, queueVars, centerVars, inbox, clicks>>

-----------------------------------------------------------------------------
(* The transfer center                                                     *)

\* The first subscriber starts the store.
Subscribe ==
  /\ Turn
  /\ listening["center"] = "closed" /\ refresh.at = "none"
  /\ "removal while reading" \in Race \/ chore = NoChore
  /\ listening' = [listening EXCEPT !["center"] = "attaching"]
  /\ revised' = FALSE
  /\ refresh' = Asked
  /\ UNCHANGED <<QuietHistory, queueVars, shown, chore, inbox, clicks>>

\* The last one stops it; the tasks stay, and so does a call under way.
Unsubscribe ==
  /\ listening["center"] = "open"
  /\ listening' = [listening EXCEPT !["center"] = "closed"]
  /\ inbox' = [inbox EXCEPT !["center"] = <<>>]
  /\ UNCHANGED <<historyVars, queueVars, centerVars, clicks>>

HandleCenterEvent ==
  /\ inbox["center"] # <<>>
  /\ inbox' = [inbox EXCEPT !["center"] = Tail(@)]
  /\ LET event == Head(inbox["center"]) IN
       IF listening["center"] = "open"
       THEN /\ shown' = [shown EXCEPT ![event.task] = event.record]
            /\ revised' = TRUE
       ELSE UNCHANGED <<shown, revised>>
  /\ UNCHANGED <<historyVars, queueVars, refresh, chore, listening, clicks>>

\* mergeConcurrentTaskChanges: of two records of a task the later one stays.
Merge(list) ==
  [t \in Task |-> IF shown[t] # NoRecord /\ shown[t].at >= list[t].at
                  THEN shown[t] ELSE list[t]]

\* Mutant: a list replaces what events have said since it was asked for.
HandleRefreshUnmerged ==
  /\ refresh.at = "answered"
  /\ refresh' = NoListing
  /\ shown' = refresh.list
  /\ UNCHANGED <<historyVars, queueVars, revised, chore, listening, inbox, clicks>>

HandleRefresh ==
  /\ refresh.at = "answered"
  /\ refresh' = NoListing
  /\ shown' = IF revised THEN Merge(refresh.list) ELSE refresh.list
  /\ UNCHANGED <<historyVars, queueVars, revised, chore, listening, inbox, clicks>>

RemoveShown(t) ==
  /\ shown[t].status \in EndStatus /\ chore = NoChore
  /\ "removal while reading" \in Race \/ refresh.at = "none"
  /\ Click
  /\ chore' = [kind |-> "remove", at |-> "asked", of |-> {t}]
  /\ UNCHANGED <<historyVars, queueVars, shown, revised, refresh, listening, inbox>>

ClearFinished ==
  /\ chore = NoChore
  /\ "removal while reading" \in Race \/ refresh.at = "none"
  /\ Click
  /\ chore' = [kind |-> "clear", at |-> "asked", of |-> {}]
  /\ UNCHANGED <<historyVars, queueVars, shown, revised, refresh, listening, inbox>>

\* After remove the task goes, if it was there to remove; after clearFinished
\* go those that are finished by now.
HandleChore ==
  /\ chore.at = "answered"
  /\ chore' = NoChore
  /\ LET gone == IF chore.kind = "remove" THEN chore.of
                 ELSE {t \in Task : shown[t].status \notin ActiveStatus} IN
       /\ shown' = [t \in Task |-> IF t \in gone THEN NoRecord ELSE shown[t]]
       /\ revised' = (revised \/ chore.kind = "clear" \/ gone # {})
  /\ UNCHANGED <<historyVars, queueVars, refresh, listening, inbox, clicks>>

-----------------------------------------------------------------------------
(* The program ends at any point; the next one reads the file.  Its windows *)
(* are new, with connections of their own.                                 *)

RestartProgram ==
  /\ Turn
  /\ tasks' = Pruned(Interrupted(file))
  /\ file' = tasks'
  /\ now' = now + Cardinality(Task)
  /\ job' = [t \in Task |-> IdleJob]
  /\ canceled' = {}
  /\ view' = [t \in Task |-> "none"]
  /\ mine' = {} /\ paused' = {} /\ frame' = {}
  /\ call' = [t \in Task |-> NoCall]
  /\ restore' = NoListing
  /\ shown' = [t \in Task |-> NoRecord]
  /\ revised' = FALSE
  /\ refresh' = NoListing
  /\ chore' = NoChore
  /\ listening' = [listening EXCEPT !["center"] = "closed", !["queue"] = "open"]
  /\ inbox' = [p \in Pane |-> <<>>]
  /\ UNCHANGED clicks

Untouched == <<queueVars, centerVars, listening, inbox, clicks>>

BackendStep(t) ==
  \/ JobStep(t) /\ UNCHANGED Untouched
  \/ Emit(t) \/ ServeSubmit(t) \/ ServeCancel(t)
  \/ ServeRemove(t) \/ PersistRemoval(t)

ServeCenter == ServeChore \/ PersistChore \/ ServeRefresh

QueueStep ==
  \/ HandleQueueEvent \/ FlushProgress \/ HandleRestore \/ Attach("queue")
  \/ ServeRestore

CenterStep == HandleCenterEvent \/ HandleRefresh \/ HandleChore \/ Attach("center")

QueueUser(t) ==
  Enqueue(t) \/ RestartTask(t) \/ Pause(t) \/ Cancel(t) \/ CancelPaused(t) \/ Remove(t)

CenterUser ==
  \/ Subscribe \/ Unsubscribe \/ ClearFinished \/ Reload
  \/ \E t \in Task : RemoveShown(t)

SystemStep ==
  \/ \E t \in Task : BackendStep(t) \/ HandleAnswer(t)
  \/ QueueStep \/ CenterStep \/ ServeCenter

ViewsNext ==
  \/ SystemStep
  \/ \E t \in Task : QueueUser(t)
  \/ CenterUser
  \/ RestartProgram

\* Jobs go on and end, events and answers arrive, frames are drawn: as long as
\* any of it is possible, some of it happens.  Nobody has to press anything.
ViewsSpec == ViewsInit /\ [][ViewsNext]_viewVars /\ WF_viewVars(SystemStep)

-----------------------------------------------------------------------------
(* Properties                                                              *)

NothingPersisting ==
  /\ \A t \in Task : job[t].due # "persist"
  /\ \A t \in Task : ~(call[t].kind = "remove" /\ call[t].at = "persist")
  /\ chore.at # "persist"

\* Nothing is listed as waiting or running that no job stands behind, after a
\* crash as little as before (normalize_stored_task).
HistoryIsBacked ==
  \A t \in Task : tasks[t].status \in ActiveStatus => job[t].at # "idle"

\* When nobody is about to write it, the file says of each transfer what the
\* list in memory says.
FileIsCurrent ==
  NothingPersisting => \A t \in Task : file[t].status = tasks[t].status

\* An end the windows have been told of is on disk, if it is still listed.
EndsAreOnDisk ==
  \A p \in Pane : \A i \in 1..Len(inbox[p]) :
    LET event == inbox[p][i] IN
      event.record.status \in EndStatus /\ tasks[event.task] = event.record
        => file[event.task] = event.record

QueueIsQuiet(t) ==
  /\ job[t].at = "idle" /\ call[t] = NoCall /\ frame = {}
  /\ restore.at = "none" /\ inbox["queue"] = <<>> /\ listening["queue"] = "open"

\* Once all is quiet the queue shows no transfer as waiting or running that
\* has ended, and none as completed that has not.
ViewSettles ==
  \A t \in Task : QueueIsQuiet(t) =>
    /\ view[t] \notin ActiveStatus
    /\ view[t] = "completed" /\ tasks[t] # NoRecord => tasks[t].status = "completed"

CenterIsQuiet(t) ==
  /\ job[t].at = "idle" /\ refresh.at = "none" /\ chore = NoChore
  /\ inbox["center"] = <<>> /\ listening["center"] = "open"

\* Once all is quiet the center shows of a transfer what the history says.
CenterSettles ==
  \A t \in Task : CenterIsQuiet(t) /\ shown[t] # NoRecord /\ tasks[t] # NoRecord
    => shown[t] = tasks[t]

\* What was submitted does not stay queued for ever.
QueuedMovesOn == \A t \in Task : view[t] = "queued" ~> view[t] \notin ActiveStatus

=============================================================================
