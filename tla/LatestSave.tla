----------------------------- MODULE LatestSave -----------------------------
(***************************************************************************)
(* What a latest-wins save queue promises, whatever its insides are: at    *)
(* most one save runs at a time, it always writes the value that was       *)
(* wanted last when it started, and a value that is wanted stays owed      *)
(* until a save of it has ended.  SaveQueueUse shows that                  *)
(* createLatestWinsSingleFlightQueue implements it.                        *)
(***************************************************************************)

CONSTANTS Value, None

VARIABLES wanted,  \* the value that was asked for last
          outcome, \* what became of it: "none", "owed", "succeeded", "failed"
          writing, \* the value being saved, or None
          stored   \* the value the last successful save wrote

latestVars == <<wanted, outcome, writing, stored>>

LatestInit ==
  /\ wanted = None
  /\ outcome = "none"
  /\ writing = None
  /\ stored = None

Want(v) ==
  /\ wanted' = v
  /\ outcome' = "owed"
  /\ UNCHANGED <<writing, stored>>

StartSave ==
  /\ outcome = "owed"
  /\ writing = None
  /\ writing' = wanted
  /\ UNCHANGED <<wanted, outcome, stored>>

\* A save ends; if a newer value is owed its save may start at once.
EndSave(result) ==
  /\ writing # None
  /\ stored' = IF result = "succeeded" THEN writing ELSE stored
  /\ outcome' = IF outcome = "owed" /\ wanted = writing THEN result ELSE outcome
  /\ writing' \in {None} \cup {v \in {wanted} : outcome' = "owed"}
  /\ wanted' = wanted

LatestNext ==
  \/ \E v \in Value : Want(v)
  \/ StartSave
  \/ \E result \in {"succeeded", "failed"} : EndSave(result)

LatestSpec ==
  /\ LatestInit /\ [][LatestNext]_latestVars
  /\ WF_latestVars(StartSave)
  /\ WF_latestVars(\E result \in {"succeeded", "failed"} : EndSave(result))

LatestSafety == LatestInit /\ [][LatestNext]_latestVars

\* What is reported as saved is what was asked for last.
ReportedIsStored == outcome = "succeeded" => stored = wanted

=============================================================================
