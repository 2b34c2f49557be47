-------------------------- MODULE SaveQueueProofs ---------------------------
(***************************************************************************)
(* Proofs about SaveQueueUse, for all values, callers and bounds: the      *)
(* invariant of createLatestWinsSingleFlightQueue, what its status and its *)
(* drains may claim, and that it implements LatestSave.                    *)
(***************************************************************************)
EXTENDS SaveQueueUse, TLAPS

QueueRecord ==
  [pending : Value \cup {None}, inFlight : Value \cup {None},
   latest : Value \cup {None}, outcome : Outcome,
   run : {"none", "scheduled", "saving", "ended"}]

\* What holds of a queue and the store between any two stretches of its code.
QueueInv(q, s) ==
  /\ q \in QueueRecord
  /\ q.run = "saving" <=> q.inFlight # None
  /\ q.pending # None <=> q.outcome = "pending"
  /\ q.pending # None => /\ q.pending = q.latest /\ q.run # "none"
                         /\ q.pending # q.inFlight
  /\ q.outcome = "in-flight" <=> q.inFlight # None /\ q.pending = None
  /\ q.outcome = "in-flight" => q.latest = q.inFlight
  /\ q.outcome = "succeeded" => s = q.latest
  /\ q.outcome = "none" => q.latest = None

DrainRecord ==
  [at : {"not called", "waiting", "resolved", "rejected"}, enough : SUBSET Value]

\* A call of drain that waits for a save is served by that of the last value.
DrainInv ==
  /\ drain \in [Caller -> DrainRecord]
  /\ \A c \in Caller :
       drain[c].at = "waiting" /\ drain[c].enough # {} => queue.latest \in drain[c].enough

Inv ==
  /\ QueueInv(queue, stored)
  /\ stored \in Value \cup {None}
  /\ asked \in 0..MaxAsked
  /\ DrainInv

LEMMA EmptyQueueInv == QueueInv(EmptyQueue, None)
BY DEF QueueInv, EmptyQueue, QueueRecord, Outcome

LEMMA EnqueueInv ==
  ASSUME NEW q, NEW s, QueueInv(q, s), NEW v \in Value
  PROVE  QueueInv(Enqueue(q, v), s) /\ Enqueue(q, v).latest = v
<1> USE QueueAssumption
<1>1. CASE q.pending = v
  BY <1>1 DEF QueueInv, QueueRecord, Outcome, Enqueue
<1>2. CASE q.pending # v /\ q.inFlight = v
  BY <1>2 DEF QueueInv, QueueRecord, Outcome, Enqueue
<1>3. CASE q.pending # v /\ q.inFlight # v
  <2> DEFINE p == [q EXCEPT !.pending = v, !.latest = v, !.outcome = "pending"]
  <2>1. p \in QueueRecord /\ p.pending = v /\ p.latest = v /\ p.outcome = "pending"
        /\ p.inFlight = q.inFlight /\ p.run = q.run
    BY DEF QueueInv, QueueRecord, Outcome
  <2>2. Enqueue(q, v) = EnsureRun(p)
    BY <1>3 DEF Enqueue
  <2> HIDE DEF p
  <2>3. CASE p.run = "none"
    BY <2>1, <2>2, <2>3, <1>3 DEF EnsureRun, QueueInv, QueueRecord, Outcome
  <2>4. CASE p.run # "none"
    BY <2>1, <2>2, <2>4, <1>3 DEF EnsureRun, QueueInv, QueueRecord, Outcome
  <2> QED BY <2>3, <2>4
<1> QED BY <1>1, <1>2, <1>3

\* The head of the save loop, entered when nothing is in flight: from the first
\* microtask, or after a save that has set the outcome of its entry.
LEMMA TakePendingInv ==
  ASSUME NEW q \in QueueRecord, NEW s,
         q.inFlight = None,
         q.pending # None <=> q.outcome = "pending",
         q.pending # None => q.pending = q.latest,
         q.outcome # "in-flight",
         q.outcome = "succeeded" => s = q.latest,
         q.outcome = "none" => q.latest = None
  PROVE  QueueInv(TakePending(q), s) /\ TakePending(q).latest = q.latest
<1>1. CASE q.pending = None
  BY <1>1 DEF TakePending, QueueInv, QueueRecord, Outcome
<1>2. CASE q.pending # None
  BY <1>2 DEF TakePending, QueueInv, QueueRecord, Outcome
<1> QED BY <1>1, <1>2

LEMMA FinishInv ==
  ASSUME NEW q, NEW s, NEW s1, QueueInv(q, s), q.run = "saving",
         NEW result \in {"succeeded", "failed"},
         s1 = IF result = "succeeded" THEN q.inFlight ELSE s
  PROVE  QueueInv(Finish(q, result), s1) /\ Finish(q, result).latest = q.latest
<1> DEFINE p == [q EXCEPT !.inFlight = None,
                          !.outcome = IF @ = "in-flight" THEN result ELSE @]
<1>1. /\ p \in QueueRecord /\ p.inFlight = None /\ p.pending = q.pending
      /\ p.latest = q.latest
      /\ p.outcome = IF q.outcome = "in-flight" THEN result ELSE q.outcome
  BY DEF QueueInv, QueueRecord, Outcome
<1>2. Finish(q, result) = TakePending(p)
  BY DEF Finish
<1> HIDE DEF p
<1>3. /\ p.pending # None <=> p.outcome = "pending"
      /\ p.pending # None => p.pending = p.latest
      /\ p.outcome # "in-flight"
      /\ p.outcome = "succeeded" => s1 = p.latest
      /\ p.outcome = "none" => p.latest = None
  BY <1>1 DEF QueueInv
<1> QED BY <1>1, <1>2, <1>3, TakePendingInv

LEMMA EndRunInv ==
  ASSUME NEW q, NEW s, QueueInv(q, s), q.run = "ended"
  PROVE  QueueInv(EndRun(q), s) /\ EndRun(q).latest = q.latest
<1>1. CASE q.pending = None
  BY <1>1 DEF EndRun, EnsureRun, QueueInv, QueueRecord, Outcome
<1>2. CASE q.pending # None
  BY <1>2 DEF EndRun, EnsureRun, QueueInv, QueueRecord, Outcome
<1> QED BY <1>1, <1>2

LEMMA AlsoEnoughType ==
  ASSUME drain \in [Caller -> DrainRecord], NEW v \in Value
  PROVE  /\ AlsoEnough(v) \in [Caller -> DrainRecord]
         /\ \A c \in Caller : AlsoEnough(v)[c].at = drain[c].at
         /\ \A c \in Caller : AlsoEnough(v)[c].at = "waiting" => v \in AlsoEnough(v)[c].enough
BY DEF AlsoEnough, DrainRecord

LEMMA InvInit == QueueInit => Inv
<1> SUFFICES ASSUME QueueInit PROVE Inv OBVIOUS
<1>1. QueueInv(queue, stored)
  BY EmptyQueueInv DEF QueueInit
<1>2. DrainInv
  BY DEF QueueInit, DrainInv, DrainRecord, NotCalled
<1> QED BY <1>1, <1>2, QueueAssumption DEF QueueInit, Inv

LEMMA InvNext == Inv /\ [QueueNext]_queueVars => Inv'
<1> SUFFICES ASSUME Inv, [QueueNext]_queueVars PROVE Inv'
  OBVIOUS
<1> USE DEF Inv
<1>1. ASSUME NEW v \in Value, EnqueueValue(v) PROVE Inv'
  <2>1. QueueInv(queue, stored)' /\ queue'.latest = v
    BY <1>1, EnqueueInv DEF EnqueueValue
  <2>2. DrainInv'
    BY <1>1, <2>1, AlsoEnoughType DEF EnqueueValue, DrainInv
  <2> QED BY <1>1, <2>1, <2>2, QueueAssumption DEF EnqueueValue
<1>2. ASSUME NEW c \in Caller, NEW v \in Value, DrainValue(c, v) PROVE Inv'
  <2>1. QueueInv(queue, stored)' /\ queue'.latest = v
    BY <1>2, EnqueueInv DEF DrainValue
  <2>2. DrainInv'
    <3>1. [at |-> "waiting", enough |-> {v}] \in DrainRecord
      BY DEF DrainRecord
    <3> QED BY <1>2, <2>1, <3>1, AlsoEnoughType DEF DrainValue, DrainInv
  <2> QED BY <1>2, <2>1, <2>2 DEF DrainValue
<1>3. ASSUME NEW c \in Caller, DrainWork(c) PROVE Inv'
  <2>1. [at |-> "waiting", enough |-> {queue.latest} \ {None}] \in DrainRecord
    BY DEF DrainRecord, QueueInv, QueueRecord
  <2>2. DrainInv'
    BY <1>3, <2>1 DEF DrainWork, DrainInv
  <2> QED BY <1>3, <2>2 DEF DrainWork
<1>4. ASSUME NEW c \in Caller, DrainReturns(c) PROVE Inv'
  <2>1. DrainInv'
    BY <1>4 DEF DrainReturns, DrainInv, DrainRecord
  <2> QED BY <1>4, <2>1 DEF DrainReturns
<1>5. CASE StartRun
  <2>1. queue \in QueueRecord /\ queue.inFlight = None /\ queue.outcome # "in-flight"
    BY <1>5 DEF StartRun, QueueInv
  <2>2. QueueInv(queue, stored)' /\ queue'.latest = queue.latest
    BY <1>5, <2>1, TakePendingInv DEF StartRun, QueueInv
  <2> QED BY <1>5, <2>2 DEF StartRun, DrainInv
<1>6. CASE SaveSucceeds
  <2>1. QueueInv(queue, stored)' /\ queue'.latest = queue.latest
    BY <1>6, FinishInv DEF SaveSucceeds
  <2>2. stored' \in Value \cup {None}
    BY <1>6 DEF SaveSucceeds, QueueInv, QueueRecord
  <2> QED BY <1>6, <2>1, <2>2 DEF SaveSucceeds, DrainInv
<1>7. CASE SaveFails
  <2>1. QueueInv(queue, stored)' /\ queue'.latest = queue.latest
    BY <1>7, FinishInv DEF SaveFails
  <2> QED BY <1>7, <2>1 DEF SaveFails, DrainInv
<1>8. CASE RunSettles
  <2>1. QueueInv(queue, stored)' /\ queue'.latest = queue.latest
    BY <1>8, EndRunInv DEF RunSettles
  <2> QED BY <1>8, <2>1 DEF RunSettles, DrainInv
<1>9. CASE UNCHANGED queueVars
  BY <1>9 DEF queueVars, DrainInv
<1> QED
  BY <1>1, <1>2, <1>3, <1>4, <1>5, <1>6, <1>7, <1>8, <1>9 DEF QueueNext

LEMMA Invariance == QueueSpec => []Inv
BY InvInit, InvNext, PTL DEF QueueSpec

-----------------------------------------------------------------------------

\* The queue's record and the calls of drain keep their types, and a run is
\* saving exactly while an entry is in flight.
THEOREM QueueTypeCorrect == QueueSpec => []QueueTypeOK
<1>1. Inv => QueueTypeOK
  BY DEF Inv, QueueInv, QueueRecord, DrainInv, DrainRecord, QueueTypeOK
<1> QED BY <1>1, Invariance, PTL

\* The status says "succeeded" only when the value asked for last is stored
\* (computeStatus), for any values and any order of enqueues and failures.
THEOREM StatusIsTrue == QueueSpec => []SavedIsLatest
<1>1. Inv => SavedIsLatest
  BY DEF Inv, QueueInv, Status, SavedIsLatest
<1> QED BY <1>1, Invariance, PTL

\* A call of drain that returns normally has seen its value, or one asked for
\* later, stored, for any number of callers.
THEOREM DrainsAreTrue == QueueSpec => DrainedIsStored
<1> DEFINE A == \A c \in Caller :
      drain[c].at = "waiting" /\ drain'[c].at = "resolved" /\ drain[c].enough # {}
        => stored \in drain[c].enough
<1>1. Inv /\ [QueueNext]_queueVars => [A]_queueVars
  <2> SUFFICES ASSUME Inv, QueueNext, NEW c \in Caller,
                      drain[c].at = "waiting", drain'[c].at = "resolved",
                      drain[c].enough # {}
               PROVE  stored \in drain[c].enough
    OBVIOUS
  <2> USE DEF Inv
  <2>1. ASSUME NEW v \in Value, EnqueueValue(v) PROVE FALSE
    BY <2>1, AlsoEnoughType DEF EnqueueValue, DrainInv
  <2>2. ASSUME NEW d \in Caller, NEW v \in Value, DrainValue(d, v) PROVE FALSE
    BY <2>2, AlsoEnoughType DEF DrainValue, DrainInv
  <2>3. ASSUME NEW d \in Caller, DrainWork(d) PROVE FALSE
    BY <2>3 DEF DrainWork, DrainInv
  <2>4. ASSUME NEW d \in Caller, DrainReturns(d) PROVE stored \in drain[c].enough
    <3>1. d = c
      BY <2>4 DEF DrainReturns, DrainInv
    <3>2. ~HasWork(queue) /\ queue.outcome # "failed"
      BY <2>4, <3>1 DEF DrainReturns, DrainInv, DrainRecord
    <3>3. queue.latest \in drain[c].enough /\ queue.latest \in Value
      BY DEF DrainInv, DrainRecord
    <3>4. queue.outcome \in Outcome \ {"pending", "in-flight", "failed", "none"}
      BY <3>2, <3>3, QueueAssumption DEF HasWork, QueueInv, QueueRecord
    <3>5. stored = queue.latest
      BY <3>4 DEF Outcome, QueueInv
    <3> QED BY <3>3, <3>5
  <2>5. CASE StartRun \/ SaveSucceeds \/ SaveFails \/ RunSettles
    BY <2>5 DEF StartRun, SaveSucceeds, SaveFails, RunSettles
  <2> QED BY <2>1, <2>2, <2>3, <2>4, <2>5 DEF QueueNext
<1> QED BY <1>1, Invariance, PTL DEF QueueSpec, DrainedIsStored

\* The queue implements the abstract latest-wins store: one save at a time, of
\* the value wanted last, and an outcome only for the value it is about.
THEOREM QueueImplementsLatestSave == QueueSpec => Latest!LatestSafety
<1> USE DEF Latest!latestVars
<1>1. QueueInit => Latest!LatestInit
  BY DEF QueueInit, EmptyQueue, Latest!LatestInit
<1>2. Inv /\ Inv' /\ [QueueNext]_queueVars => [Latest!LatestNext]_Latest!latestVars
  <2> SUFFICES ASSUME Inv, Inv', [QueueNext]_queueVars
               PROVE  [Latest!LatestNext]_Latest!latestVars
    OBVIOUS
  <2> USE DEF Inv
  <2>1. ASSUME NEW v \in Value, queue' = Enqueue(queue, v), stored' = stored
        PROVE  Latest!Want(v)
    <3>1. queue'.latest = v
      BY <2>1, EnqueueInv
    <3>2. queue'.outcome \in {"pending", "in-flight"} /\ queue'.inFlight = queue.inFlight
      BY <2>1 DEF Enqueue, EnsureRun, QueueInv, QueueRecord
    <3> QED BY <2>1, <3>1, <3>2 DEF Latest!Want
  <2>2. CASE StartRun
    <3>1. CASE queue.pending = None
      BY <2>2, <3>1 DEF StartRun, TakePending, QueueInv, QueueRecord
    <3>2. CASE queue.pending # None
      <4>1. queue.outcome = "pending" /\ queue.inFlight = None /\ queue.latest = queue.pending
        BY <2>2, <3>2 DEF StartRun, QueueInv
      <4>2. /\ queue'.outcome = "in-flight" /\ queue'.inFlight = queue.pending
            /\ queue'.latest = queue.latest /\ stored' = stored
        BY <2>2, <3>2, <4>1 DEF StartRun, TakePending, QueueInv, QueueRecord
      <4>3. Latest!StartSave
        BY <4>1, <4>2 DEF Latest!StartSave
      <4> QED BY <4>3 DEF Latest!LatestNext
    <3> QED BY <3>1, <3>2
  <2>3. ASSUME NEW result \in {"succeeded", "failed"}, queue.run = "saving",
               queue' = Finish(queue, result),
               stored' = IF result = "succeeded" THEN queue.inFlight ELSE stored
        PROVE  Latest!EndSave(result)
    <3>1. queue.inFlight # None
      BY <2>3 DEF QueueInv
    <3>2. CASE queue.pending = None
      <4>1. /\ queue.outcome = "in-flight" /\ queue.latest = queue.inFlight
            /\ queue'.outcome = result /\ queue'.inFlight = None
            /\ queue'.latest = queue.latest
        BY <2>3, <3>1, <3>2 DEF Finish, TakePending, QueueInv, QueueRecord
      <4> QED BY <2>3, <3>1, <4>1 DEF Latest!EndSave
    <3>3. CASE queue.pending # None
      <4>1. /\ queue.outcome = "pending" /\ queue.latest = queue.pending
            /\ queue.latest # queue.inFlight
        BY <3>3 DEF QueueInv
      <4>2. /\ queue'.outcome = "in-flight" /\ queue'.inFlight = queue.pending
            /\ queue'.latest = queue.latest
        BY <2>3, <3>3, <4>1 DEF Finish, TakePending, QueueInv, QueueRecord
      <4> QED BY <2>3, <3>1, <4>1, <4>2 DEF Latest!EndSave
    <3> QED BY <3>2, <3>3
  <2>4. CASE RunSettles
    <3>1. /\ queue'.outcome = queue.outcome /\ queue'.inFlight = queue.inFlight
          /\ queue'.latest = queue.latest /\ stored' = stored
      BY <2>4 DEF RunSettles, EndRun, EnsureRun, QueueInv, QueueRecord
    <3> QED BY <3>1
  <2>5. ASSUME NEW c \in Caller, DrainWork(c) \/ DrainReturns(c)
        PROVE  UNCHANGED <<queue, stored>>
    BY <2>5 DEF DrainWork, DrainReturns
  <2>6. CASE \E v \in Value : EnqueueValue(v)
    BY <2>1, <2>6 DEF EnqueueValue, Latest!LatestNext
  <2>7. CASE \E c \in Caller, v \in Value : DrainValue(c, v)
    BY <2>1, <2>7 DEF DrainValue, Latest!LatestNext
  <2>8. CASE SaveSucceeds
    BY <2>3, <2>8 DEF SaveSucceeds, Latest!LatestNext
  <2>9. CASE SaveFails
    BY <2>3, <2>9 DEF SaveFails, Latest!LatestNext
  <2>10. CASE UNCHANGED queueVars
    BY <2>10 DEF queueVars
  <2> QED
    BY <2>2, <2>4, <2>5, <2>6, <2>7, <2>8, <2>9, <2>10 DEF QueueNext
<1> QED BY <1>1, <1>2, Invariance, PTL DEF QueueSpec, Latest!LatestSafety

\* What the abstract store reports as saved is what was asked for last, so the
\* refinement alone already makes the queue's reports true.
THEOREM AbstractReportsAreTrue == Latest!LatestSafety => []Latest!ReportedIsStored
<1> DEFINE owed == IF queue.outcome \in {"pending", "in-flight"} THEN "owed"
                   ELSE queue.outcome
           AInv == /\ queue.inFlight # None => owed = "owed"
                   /\ owed = "succeeded" => stored = queue.latest
<1>1. Latest!LatestInit => AInv
  BY DEF Latest!LatestInit
<1>2. AInv /\ [Latest!LatestNext]_Latest!latestVars => AInv'
  BY DEF Latest!LatestNext, Latest!latestVars, Latest!Want, Latest!StartSave,
         Latest!EndSave
<1>3. AInv => Latest!ReportedIsStored
  BY DEF Latest!ReportedIsStored
<1> QED BY <1>1, <1>2, <1>3, PTL DEF Latest!LatestSafety

=============================================================================
