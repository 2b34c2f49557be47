----------------------------- MODULE SaveQueue ------------------------------
(***************************************************************************)
(* createLatestWinsSingleFlightQueue (latestSaveQueue.ts): the state of    *)
(* one queue as a record, and one operator per synchronous stretch of its  *)
(* code.  A queue entry is its key (the serialized value); `latest' is the *)
(* key of the entry that was asked for last and `outcome' that entry's.    *)
(* `run' is runPromise: "scheduled" until the first microtask, "saving"    *)
(* while options.save is awaited, "ended" until the finally callback.      *)
(***************************************************************************)

CONSTANT None

EmptyQueue ==
  [pending |-> None, inFlight |-> None, latest |-> None, outcome |-> "none",
   run |-> "none"]

HasWork(q) == q.run # "none" \/ q.pending # None \/ q.inFlight # None

Status(q) ==
  CASE q.inFlight # None -> "saving"
    [] q.inFlight = None /\ q.pending # None -> "pending"
    [] OTHER -> IF q.outcome \in {"succeeded", "failed"} THEN q.outcome ELSE "idle"

EnsureRun(q) ==
  IF q.run = "none" /\ q.pending # None THEN [q EXCEPT !.run = "scheduled"] ELSE q

\* Mutant: a value that is asked for again does not drop the one behind it.
EnqueueKeepingPending(q, key) ==
  IF q.pending = key
  THEN [q EXCEPT !.latest = key, !.outcome = "pending"]
  ELSE IF q.inFlight = key
  THEN [q EXCEPT !.latest = key, !.outcome = "in-flight"]
  ELSE EnsureRun([q EXCEPT !.pending = key, !.latest = key, !.outcome = "pending"])

Enqueue(q, key) ==
  IF q.pending = key
  THEN [q EXCEPT !.latest = key, !.outcome = "pending"]
  ELSE IF q.inFlight = key
  THEN [q EXCEPT !.pending = None, !.latest = key, !.outcome = "in-flight"]
  ELSE EnsureRun([q EXCEPT !.pending = key, !.latest = key, !.outcome = "pending"])

\* The head of the loop in runPending.
TakePending(q) ==
  IF q.pending = None
  THEN [q EXCEPT !.run = "ended"]
  ELSE [q EXCEPT !.inFlight = q.pending, !.pending = None, !.run = "saving",
                 !.outcome = IF @ = "pending" THEN "in-flight" ELSE @]

\* options.save has settled: the entry's outcome, then the loop again.
Finish(q, result) ==
  TakePending([q EXCEPT !.inFlight = None,
                        !.outcome = IF @ = "in-flight" THEN result ELSE @])

\* Mutant: a value enqueued as the run ends is not looked at again.
EndRunAndRest(q) == [q EXCEPT !.run = "none"]

EndRun(q) == EnsureRun([q EXCEPT !.run = "none"])

=============================================================================
