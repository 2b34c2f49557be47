---------------------------- MODULE SaveQueueUse ----------------------------
(***************************************************************************)
(* One save queue (SaveQueue) among callers that enqueue values and wait   *)
(* for it to drain, a save that may fail, and the microtasks in between.   *)
(***************************************************************************)
EXTENDS SaveQueue, Naturals

CONSTANTS Value,   \* the values to save, each with a key of its own
          Caller,  \* the calls of drain
          MaxAsked \* bound on the calls of enqueue outside drain

ASSUME QueueAssumption == None \notin Value /\ MaxAsked \in Nat

VARIABLES queue,  \* the queue's record
          stored, \* the value the last successful save wrote
          drain,  \* drain[c]: where the call c of drain is
          asked   \* how often enqueue was called

queueVars == <<queue, stored, drain, asked>>

\* `enough' (of no effect on the code) holds the values whose save satisfies
\* the call: its own, or one that was asked for later.
NotCalled == [at |-> "not called", enough |-> {}]

Outcome == {"none", "pending", "in-flight", "succeeded", "failed"}

QueueTypeOK ==
  /\ queue \in [pending : Value \cup {None}, inFlight : Value \cup {None},
                latest : Value \cup {None}, outcome : Outcome,
                run : {"none", "scheduled", "saving", "ended"}]
  /\ queue.run = "saving" <=> queue.inFlight # None
  /\ stored \in Value \cup {None}
  /\ drain \in [Caller -> [at : {"not called", "waiting", "resolved", "rejected"},
                           enough : SUBSET Value]]
  /\ asked \in 0..MaxAsked

QueueInit ==
  /\ queue = EmptyQueue
  /\ stored = None
  /\ drain = [c \in Caller |-> NotCalled]
  /\ asked = 0

\* The calls of drain that wait now are also served by a save of v.
AlsoEnough(v) ==
  [c \in Caller |-> IF drain[c].at = "waiting"
                    THEN [drain[c] EXCEPT !.enough = @ \cup {v}] ELSE drain[c]]

EnqueueValue(v) ==
  /\ asked < MaxAsked
  /\ asked' = asked + 1
  /\ queue' = Enqueue(queue, v)
  /\ drain' = AlsoEnough(v)
  /\ UNCHANGED stored

DrainValue(c, v) ==
  /\ drain[c].at = "not called"
  /\ queue' = Enqueue(queue, v)
  /\ drain' = [AlsoEnough(v) EXCEPT ![c] = [at |-> "waiting", enough |-> {v}]]
  /\ UNCHANGED <<stored, asked>>

\* drain() without a value waits for the work there is.
DrainWork(c) ==
  /\ drain[c].at = "not called"
  /\ drain' = [drain EXCEPT ![c] = [at |-> "waiting",
                                    enough |-> {queue.latest} \ {None}]]
  /\ UNCHANGED <<queue, stored, asked>>

StartRun ==
  /\ queue.run = "scheduled"
  /\ queue' = TakePending(queue)
  /\ UNCHANGED <<stored, drain, asked>>

SaveSucceeds ==
  /\ queue.run = "saving"
  /\ stored' = queue.inFlight
  /\ queue' = Finish(queue, "succeeded")
  /\ UNCHANGED <<drain, asked>>

SaveFails ==
  /\ queue.run = "saving"
  /\ queue' = Finish(queue, "failed")
  /\ UNCHANGED <<stored, drain, asked>>

RunSettles ==
  /\ queue.run = "ended"
  /\ queue' = EndRun(queue)
  /\ UNCHANGED <<stored, drain, asked>>

\* Mutant: drain waits for the save in flight only.
DrainReturnsAfterSave(c) ==
  /\ drain[c].at = "waiting"
  /\ queue.inFlight = None
  /\ drain' = [drain EXCEPT ![c].at =
                 IF queue.outcome = "failed" THEN "rejected" ELSE "resolved"]
  /\ UNCHANGED <<queue, stored, asked>>

\* The loop of drain leaves when there is no work, however many runs passed.
DrainReturns(c) ==
  /\ drain[c].at = "waiting"
  /\ ~HasWork(queue)
  /\ drain' = [drain EXCEPT ![c].at =
                 IF queue.outcome = "failed" THEN "rejected" ELSE "resolved"]
  /\ UNCHANGED <<queue, stored, asked>>

QueueNext ==
  \/ \E v \in Value : EnqueueValue(v)
  \/ \E c \in Caller, v \in Value : DrainValue(c, v)
  \/ \E c \in Caller : DrainWork(c) \/ DrainReturns(c)
  \/ StartRun \/ SaveSucceeds \/ SaveFails \/ RunSettles

\* Microtasks run and a save settles; nobody has to ask for one.
QueueFairness ==
  /\ WF_queueVars(StartRun)
  /\ WF_queueVars(SaveSucceeds \/ SaveFails)
  /\ WF_queueVars(RunSettles)
  /\ \A c \in Caller : WF_queueVars(DrainReturns(c))

QueueSpec == QueueInit /\ [][QueueNext]_queueVars /\ QueueFairness

-----------------------------------------------------------------------------
(* Properties                                                              *)

\* The status chip of the settings page says "saved" only when the value that
\* was asked for last is the one in the store (computeStatus, lines 61-78).
SavedIsLatest == Status(queue) = "succeeded" => stored = queue.latest

\* A call of drain returns normally only once its own value was saved, or one
\* that was asked for after the call (lines 159-182; importing a key relies on
\* it).
DrainedIsStored ==
  [][\A c \in Caller :
       drain[c].at = "waiting" /\ drain'[c].at = "resolved" /\ drain[c].enough # {}
         => stored \in drain[c].enough]_queueVars

\* Every call of drain returns: no save is left waiting for a run that nobody
\* starts, whichever microtask an enqueue falls into (lines 118-132).
DrainReturnsInTheEnd ==
  \A c \in Caller : drain[c].at = "waiting" ~> drain[c].at \in {"resolved", "rejected"}

\* The queue keeps the promise of LatestSave.
Latest == INSTANCE LatestSave WITH
  wanted  <- queue.latest,
  outcome <- IF queue.outcome \in {"pending", "in-flight"} THEN "owed" ELSE queue.outcome,
  writing <- queue.inFlight

SavesTheLatest == Latest!LatestSpec

=============================================================================
