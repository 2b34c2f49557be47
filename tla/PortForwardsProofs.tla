-------------------------- MODULE PortForwardsProofs --------------------------
(***************************************************************************)
(* What holds of port forwards for any numbers of profiles, connections    *)
(* and calls.                                                              *)
(***************************************************************************)
EXTENDS PortForwards, TLAPS

\* What a call has read by the place where it stands.
ArgsAreRead ==
    \A c \in Calls :
        /\ pc[c] \in CallPlaces \union RunPlaces => arg[c] \in Arg
        /\ pc[c] \in {"replace", "insert"} \union RunPlaces =>
             arg[c].connection \in Connections /\ arg[c].settings \in Settings

\* Only a run that was entered can be cancelled.
CancelledHaveBegun == \A r \in cancelled : pc[r] \in RunPlaces \union {"done"}

BaseInv == TypeOK /\ ArgsAreRead /\ CancelledHaveBegun /\ StatusIsTrue

-----------------------------------------------------------------------------
(* The helpers *)

LEMMA StopTypes ==
    ASSUME TypeOK, NEW p \in Profiles, StopRuntime(p)
    PROVE  /\ runtimes' \in [Profiles -> Entry \union {None}]
           /\ cancelled' \subseteq Calls
  BY DEF TypeOK, StopRuntime

LEMMA UpdateTypes ==
    ASSUME TypeOK, NEW r \in Calls, NEW status \in {"trying", "running", "error"},
           UpdateRuntime(r, status)
    PROVE  /\ runtimes' \in [Profiles -> Entry \union {None}]
           /\ \A p \in Profiles :
                IF p = arg[r].profile /\ Current(p, r)
                THEN /\ runtimes'[p] # None
                     /\ runtimes'[p].run = r
                     /\ runtimes'[p].connection = runtimes[p].connection
                     /\ runtimes'[p].status = status
                ELSE runtimes'[p] = runtimes[p]
<1>1. \A p \in Profiles : runtimes[p] # None => runtimes[p] \in Entry
  BY DEF TypeOK
<1>2. \A p \in Profiles : Current(p, r) =>
        LET next == [runtimes[p] EXCEPT !.status = status]
        IN /\ next \in Entry /\ next # None /\ next.run = r /\ next.status = status
           /\ next.connection = runtimes[p].connection
  BY <1>1, ForwardAssumption DEF Current, Entry
<1>3. \A p \in Profiles : runtimes'[p] \in Entry \union {None}
  BY <1>2 DEF UpdateRuntime, TypeOK
<1>4. runtimes' \in [Profiles -> Entry \union {None}]
  BY <1>3 DEF UpdateRuntime
<1> QED
  BY <1>2, <1>4 DEF UpdateRuntime

LEMMA RemoveTypes ==
    ASSUME TypeOK, NEW r \in Calls, RemoveRuntimeIfCurrent(r)
    PROVE  runtimes' \in [Profiles -> Entry \union {None}]
  BY DEF TypeOK, RemoveRuntimeIfCurrent

LEMMA MoveTypes ==
    ASSUME TypeOK, NEW c \in Calls, NEW from,
           NEW to \in CallPlaces \union RunPlaces \union {"idle", "done"}, At(c, from, to)
    PROVE  /\ pc' \in [Calls -> CallPlaces \union RunPlaces \union {"idle", "done"}]
           /\ pc[c] = from /\ pc'[c] = to
           /\ \A d \in Calls : d # c => pc'[d] = pc[d]
  BY DEF TypeOK, At

LEMMA NamesTypes ==
    ASSUME TypeOK, NEW c \in Calls, NEW p \in Profiles, Names(c, p)
    PROVE  /\ arg' \in [Calls -> Arg \union {None}]
           /\ arg'[c] \in Arg /\ arg'[c].profile = p
           /\ \A d \in Calls : d # c => arg'[d] = arg[d]
  BY DEF TypeOK, Names, Arg

\* A step of a run moves that run alone and touches its own entry at most.  The
\* entry goes only when the run is over.
RunEffect(r) ==
    /\ UNCHANGED <<connections, closing, profiles, cancelled, arg>>
    /\ pc[r] \in RunPlaces
    /\ pc'[r] \in RunPlaces \union {"done"}
    /\ \A d \in Calls : d # r => pc'[d] = pc[d]
    /\ \/ UNCHANGED runtimes
       \/ \E status \in {"trying", "running", "error"} : UpdateRuntime(r, status)
       \/ RemoveRuntimeIfCurrent(r) /\ pc'[r] = "done"

LEMMA RunStepEffect ==
    ASSUME TypeOK, NEW r \in Calls, RunStep(r) \/ Lose(r)
    PROVE  TypeOK' /\ RunEffect(r)
<1> USE DEF RunPlaces, CallPlaces
<1>1. CASE Begin(r)
  <2>1. PICK to \in {"connect", "done"} : At(r, "begin", to)
    BY <1>1 DEF Begin
  <2> QED
    BY <1>1, <2>1, MoveTypes, UpdateTypes, RemoveTypes DEF Begin, RunEffect, TypeOK, At
<1>2. ASSUME NEW from \in {"connect", "dropping"}, HandleFailure(r, from),
             UNCHANGED <<connections, closing, profiles, cancelled, arg, losses>>,
             lost' \subseteq Calls
      PROVE  TypeOK' /\ RunEffect(r)
  <2>1. PICK to \in {"waiting", "done"} : At(r, from, to)
    BY <1>2 DEF HandleFailure
  <2>2. PICK status \in {"trying", "error"} : UpdateRuntime(r, status)
    BY <1>2 DEF HandleFailure
  <2> QED
    BY <1>2, <2>1, <2>2, MoveTypes, UpdateTypes DEF RunEffect, TypeOK, At
<1>3. CASE Connect(r)
  <2>1. CASE HandleFailure(r, "connect")
    BY <1>2, <1>3, <2>1 DEF Connect, TypeOK
  <2>2. CASE At(r, "connect", "serving") /\ UpdateRuntime(r, "running")
    BY <1>3, <2>2, MoveTypes, UpdateTypes DEF Connect, RunEffect, TypeOK, At
  <2> QED
    BY <1>3, <2>1, <2>2 DEF Connect
<1>4. CASE Serve(r)
  <2>1. PICK to \in {"stopping", "dropping"} : At(r, "serving", to)
    BY <1>4 DEF Serve
  <2> QED
    BY <1>4, <2>1, MoveTypes DEF Serve, RunEffect, TypeOK, At
<1>5. CASE Shutdown(r)
  <2>1. CASE HandleFailure(r, "dropping")
    BY <1>2, <1>5, <2>1 DEF Shutdown, TypeOK
  <2>2. CASE At(r, "stopping", "done") /\ RemoveRuntimeIfCurrent(r)
    BY <1>5, <2>2, MoveTypes, RemoveTypes DEF Shutdown, RunEffect, TypeOK, At
  <2> QED
    BY <1>5, <2>1, <2>2 DEF Shutdown
<1>6. CASE Wait(r)
  <2>1. PICK to \in {"begin", "done"} : At(r, "waiting", to)
    BY <1>6 DEF Wait
  <2> QED
    BY <1>6, <2>1, MoveTypes DEF Wait, RunEffect, TypeOK, At
<1>7. CASE Lose(r)
  BY <1>7, ForwardAssumption DEF Lose, RunEffect, TypeOK
<1> QED
  BY <1>1, <1>3, <1>4, <1>5, <1>6, <1>7 DEF RunStep

-----------------------------------------------------------------------------
(* Types *)

\* The places of a Next step's actor, one by one.
LEMMA NextCases ==
    ASSUME Next
    PROVE  \/ \E c \in Calls : RunStep(c) \/ Lose(c)
           \/ \E c \in Calls : Start(c)
           \/ \E c \in Calls : StartReplace(c)
           \/ \E c \in Calls : StartInsert(c)
           \/ \E c \in Calls : Stop(c)
           \/ \E c \in Calls : Save(c)
           \/ \E c \in Calls : StopChanged(c)
           \/ \E c \in Calls : Delete(c)
           \/ \E c \in Calls : Erase(c)
           \/ \E k \in Connections : CloseConnection(k)
           \/ \E k \in Connections : CloseForwards(k)
  BY DEF Next, CallStep

LEMMA CloseTypes ==
    ASSUME TypeOK, NEW k \in Connections, CloseForwards(k)
    PROVE  /\ runtimes' \in [Profiles -> Entry \union {None}]
           /\ cancelled' \subseteq Calls
           /\ \A p \in Profiles : runtimes'[p] # None => runtimes'[p] = runtimes[p]
           /\ \A r \in cancelled' : r \in cancelled \/
                \E p \in Profiles : Current(p, r) /\ runtimes'[p] = None
           /\ \A p \in Profiles : runtimes'[p] # runtimes[p] => runtimes[p].run \in cancelled'
<1>1. \A p \in Profiles : runtimes[p] # None => runtimes[p].run \in Calls
  BY DEF TypeOK, Entry
<1> QED
  BY <1>1 DEF TypeOK, CloseForwards, Current

\* What a start has read is an argument with a connection and settings.
LEMMA StartReads ==
    ASSUME TypeOK, NEW c \in Calls, Start(c)
    PROVE  /\ arg' \in [Calls -> Arg \union {None}]
           /\ arg'[c] \in Arg
           /\ arg'[c].connection \in Connections /\ arg'[c].settings \in Settings
           /\ profiles[arg'[c].profile] = arg'[c].settings
           /\ "change while starting" \notin Overlap => ~Calling(arg'[c].profile, {"erase"})
           /\ \A d \in Calls : d # c => arg'[d] = arg[d]
<1>1. PICK p \in Profiles, k \in connections :
        /\ profiles[p] # None
        /\ "change while starting" \notin Overlap => ~Calling(p, {"erase"})
        /\ arg' = [arg EXCEPT ![c] = [profile |-> p, connection |-> k, settings |-> profiles[p]]]
  BY DEF Start
<1>2. k \in Connections /\ profiles[p] \in Settings
  BY <1>1 DEF TypeOK
<1>3. [profile |-> p, connection |-> k, settings |-> profiles[p]] \in Arg
  BY <1>2 DEF Arg
<1> QED
  BY <1>1, <1>2, <1>3 DEF TypeOK

LEMMA TypeInit == Init => TypeOK
<1> SUFFICES ASSUME Init PROVE TypeOK
  OBVIOUS
<1>1. 0 \in 0 .. MaxLosses
  BY ForwardAssumption
<1> QED
  BY <1>1 DEF Init, TypeOK

LEMMA TypeStep == TypeOK /\ ArgsAreRead /\ Next => TypeOK'
<1> SUFFICES ASSUME TypeOK, ArgsAreRead, Next PROVE TypeOK'
  OBVIOUS
<1> USE DEF CallPlaces, RunPlaces
<1>1. ASSUME NEW c \in Calls, RunStep(c) \/ Lose(c) PROVE TypeOK'
  BY <1>1, RunStepEffect
<1>2. ASSUME NEW c \in Calls, Start(c) PROVE TypeOK'
  <2>1. At(c, "idle", "replace")
    BY <1>2 DEF Start, Arrive
  <2> QED
    BY <1>2, <2>1, StartReads, MoveTypes DEF Start, TypeOK
<1>3. ASSUME NEW c \in Calls, StartReplace(c) PROVE TypeOK'
  <2>1. At(c, "replace", "insert") /\ StopRuntime(arg[c].profile)
    BY <1>3 DEF StartReplace
  <2>2. arg[c].profile \in Profiles
    BY <2>1 DEF ArgsAreRead, At, Arg
  <2> QED
    BY <1>3, <2>1, <2>2, StopTypes, MoveTypes DEF StartReplace, TypeOK
<1>4. ASSUME NEW c \in Calls, StartInsert(c) PROVE TypeOK'
  <2>1. At(c, "insert", "begin")
    BY <1>4 DEF StartInsert
  <2>2. arg[c].profile \in Profiles /\ arg[c].connection \in Connections
    BY <2>1 DEF ArgsAreRead, At, Arg
  <2>3. [connection |-> arg[c].connection, run |-> c, status |-> "trying"] \in Entry
    BY <2>2 DEF Entry
  <2> QED
    BY <1>4, <2>1, <2>2, <2>3, MoveTypes DEF StartInsert, TypeOK
<1>5. ASSUME NEW c \in Calls, Stop(c) PROVE TypeOK'
  <2>1. PICK p \in Profiles : At(c, "idle", "done") /\ Names(c, p) /\ StopRuntime(p)
    BY <1>5 DEF Stop, Arrive
  <2> QED
    BY <1>5, <2>1, StopTypes, MoveTypes, NamesTypes DEF Stop, TypeOK
<1>6. ASSUME NEW c \in Calls, Save(c) PROVE TypeOK'
  <2>1. PICK p \in Profiles, s \in Settings :
          /\ Names(c, p) /\ profiles' = [profiles EXCEPT ![p] = s]
          /\ At(c, "idle", "changed") \/ At(c, "idle", "done")
    BY <1>6 DEF Save, Change, Arrive
  <2>2. profiles' \in [Profiles -> Settings \union {None}]
    BY <2>1 DEF TypeOK
  <2> QED
    BY <1>6, <2>1, <2>2, MoveTypes, NamesTypes DEF Save, TypeOK
<1>7. ASSUME NEW c \in Calls, StopChanged(c) PROVE TypeOK'
  <2>1. At(c, "changed", "done") /\ StopRuntime(arg[c].profile)
    BY <1>7 DEF StopChanged
  <2>2. arg[c].profile \in Profiles
    BY <2>1 DEF ArgsAreRead, At, Arg
  <2> QED
    BY <1>7, <2>1, <2>2, StopTypes, MoveTypes DEF StopChanged, TypeOK
<1>8. ASSUME NEW c \in Calls, Delete(c) PROVE TypeOK'
  <2>1. PICK p \in Profiles : At(c, "idle", "erase") /\ Names(c, p) /\ StopRuntime(p)
    BY <1>8 DEF Delete, Change, Arrive
  <2> QED
    BY <1>8, <2>1, StopTypes, MoveTypes, NamesTypes DEF Delete, TypeOK
<1>9. ASSUME NEW c \in Calls, Erase(c) PROVE TypeOK'
  <2>1. At(c, "erase", "done")
    BY <1>9 DEF Erase
  <2> QED
    BY <1>9, <2>1, MoveTypes DEF Erase, TypeOK
<1>10. ASSUME NEW k \in Connections, CloseConnection(k) PROVE TypeOK'
  BY <1>10 DEF CloseConnection, TypeOK
<1>11. ASSUME NEW k \in Connections, CloseForwards(k) PROVE TypeOK'
  BY <1>11, CloseTypes DEF CloseForwards, TypeOK
<1> QED
  BY <1>1, <1>2, <1>3, <1>4, <1>5, <1>6, <1>7, <1>8, <1>9, <1>10, <1>11, NextCases

-----------------------------------------------------------------------------
(* What the entries say *)

LEMMA ArgsStep == BaseInv /\ Next => ArgsAreRead'
<1> SUFFICES ASSUME TypeOK, ArgsAreRead, Next PROVE ArgsAreRead'
  BY DEF BaseInv
<1> USE DEF CallPlaces, RunPlaces
<1>1. ASSUME NEW c \in Calls, RunStep(c) \/ Lose(c) PROVE ArgsAreRead'
  BY <1>1, RunStepEffect DEF RunEffect, ArgsAreRead
<1>2. ASSUME NEW c \in Calls, Start(c) PROVE ArgsAreRead'
  <2>1. At(c, "idle", "replace")
    BY <1>2 DEF Start, Arrive
  <2> QED
    BY ZenonT(40), <1>2, <2>1, StartReads, MoveTypes DEF ArgsAreRead
<1>3. ASSUME NEW c \in Calls, StartReplace(c) PROVE ArgsAreRead'
  BY <1>3, MoveTypes DEF StartReplace, ArgsAreRead
<1>4. ASSUME NEW c \in Calls, StartInsert(c) PROVE ArgsAreRead'
  BY <1>4, MoveTypes DEF StartInsert, ArgsAreRead
<1>5. ASSUME NEW c \in Calls, NEW p \in Profiles, NEW to \in {"done", "changed", "erase"},
             At(c, "idle", to), Names(c, p)
      PROVE  ArgsAreRead'
  BY <1>5, MoveTypes, NamesTypes DEF ArgsAreRead
<1>6. ASSUME NEW c \in Calls, Stop(c) \/ Save(c) \/ Delete(c) PROVE ArgsAreRead'
  BY <1>5, <1>6 DEF Stop, Save, Delete, Change, Arrive
<1>7. ASSUME NEW c \in Calls, StopChanged(c) PROVE ArgsAreRead'
  BY <1>7, MoveTypes DEF StopChanged, ArgsAreRead
<1>8. ASSUME NEW c \in Calls, Erase(c) PROVE ArgsAreRead'
  BY <1>8, MoveTypes DEF Erase, ArgsAreRead
<1>9. ASSUME NEW k \in Connections, CloseConnection(k) \/ CloseForwards(k) PROVE ArgsAreRead'
  BY <1>9 DEF CloseConnection, CloseForwards, ArgsAreRead
<1> QED
  BY <1>1, <1>2, <1>3, <1>4, <1>6, <1>7, <1>8, <1>9, NextCases

\* The run in an entry has begun and was not cancelled, and is in no other entry.
LEMMA EntriesHaveRuns ==
    ASSUME BaseInv, NEW p \in Profiles, NEW r, Current(p, r)
    PROVE  /\ r \in Calls /\ arg[r].profile = p /\ r \notin cancelled
           /\ pc[r] \in RunPlaces \union {"done"}
  BY DEF BaseInv, TypeOK, StatusIsTrue, Current, Entry

\* A call that has not entered a run leaves the entry of p as it is or removes
\* it, and moves between places where no run stands.
Bystander(c) ==
    /\ pc[c] \notin RunPlaces \union {"done"}
    /\ \A d \in Calls : d # c => pc'[d] = pc[d] /\ arg'[d] = arg[d]
    /\ \/ UNCHANGED <<runtimes, cancelled>>
       \/ \E p \in Profiles : StopRuntime(p)

LEMMA BystanderStep ==
    ASSUME BaseInv, NEW c \in Calls,
           Start(c) \/ StartReplace(c) \/ Stop(c) \/ Save(c) \/ StopChanged(c)
             \/ Delete(c) \/ Erase(c)
    PROVE  Bystander(c)
<1> USE DEF BaseInv, CallPlaces, RunPlaces
<1>1. \A d \in Calls : d # c => pc'[d] = pc[d] /\ arg'[d] = arg[d]
  BY DEF Start, StartReplace, Stop, Save, StopChanged, Delete, Erase, Change, Names,
         Arrive, At, TypeOK
<1>2. pc[c] \in {"idle", "replace", "changed", "erase"}
  BY DEF Start, StartReplace, Stop, Save, StopChanged, Delete, Erase, Change, Arrive, At
<1>3. pc[c] \in CallPlaces => arg[c].profile \in Profiles
  BY DEF ArgsAreRead, Arg
<1>4. \/ UNCHANGED <<runtimes, cancelled>>
      \/ \E p \in Profiles : StopRuntime(p)
  BY <1>3 DEF Start, StartReplace, Stop, Save, StopChanged, Delete, Erase, At
<1> QED
  BY <1>1, <1>2, <1>4 DEF Bystander

LEMMA StatusStep == BaseInv /\ Next => CancelledHaveBegun' /\ StatusIsTrue'
<1> SUFFICES ASSUME BaseInv, Next PROVE CancelledHaveBegun' /\ StatusIsTrue'
  OBVIOUS
<1>0. TypeOK /\ TypeOK' /\ ArgsAreRead
  BY TypeStep DEF BaseInv
<1>1. ASSUME NEW c \in Calls, RunStep(c) \/ Lose(c) PROVE CancelledHaveBegun' /\ StatusIsTrue'
  <2>1. RunEffect(c)
    BY <1>0, <1>1, RunStepEffect
  <2>2. CancelledHaveBegun'
    BY <1>0, <2>1 DEF RunEffect, BaseInv, CancelledHaveBegun, TypeOK
  <2>3. ASSUME NEW p \in Profiles, ~Current(p, c) PROVE runtimes'[p] = runtimes[p]
    BY <1>0, <2>1, <2>3, UpdateTypes DEF RunEffect, RemoveRuntimeIfCurrent
  <2>4. StatusIsTrue'
    <3> SUFFICES ASSUME NEW p \in Profiles, runtimes'[p] # None
                 PROVE  LET r == runtimes'[p].run
                        IN /\ arg'[r] # None /\ arg'[r].profile = p
                           /\ arg'[r].connection = runtimes'[p].connection
                           /\ r \notin cancelled'
                           /\ pc'[r] \in RunPlaces \union {"done"}
                           /\ runtimes'[p].status = "error" <=> pc'[r] = "done"
                           /\ runtimes'[p].status = "running" =>
                                pc'[r] \in {"serving", "stopping", "dropping"}
      BY DEF StatusIsTrue
    <3>1. CASE ~Current(p, c)
      BY <2>1, <2>3, <3>1 DEF RunEffect, BaseInv, StatusIsTrue, Current, TypeOK, Entry
    <3>2. CASE Current(p, c)
      <4>1. /\ arg[c] # None /\ arg[c].profile = p /\ arg[c].connection = runtimes[p].connection
            /\ c \notin cancelled /\ runtimes[p] # None /\ runtimes[p].run = c
            /\ runtimes[p].status = "error" <=> pc[c] = "done"
            /\ runtimes[p].status = "running" => pc[c] \in {"serving", "stopping", "dropping"}
        BY <3>2 DEF BaseInv, StatusIsTrue, Current
      <4>2. UNCHANGED <<cancelled, arg>> /\ pc'[c] \in RunPlaces \union {"done"} /\ pc[c] # "done"
        BY <2>1 DEF RunEffect, RunPlaces
      <4>3. /\ runtimes'[p].run = c /\ runtimes'[p].connection = runtimes[p].connection
            /\ \/ UNCHANGED runtimes
               \/ \E status \in {"trying", "running", "error"} : UpdateRuntime(c, status)
        BY <1>0, <2>1, <3>2, <4>1, UpdateTypes DEF RunEffect, RemoveRuntimeIfCurrent
      <4>4. \A status \in {"trying", "running", "error"} :
              UpdateRuntime(c, status) => runtimes'[p].status = status
        BY <1>0, <3>2, <4>1, UpdateTypes
      <4>5. ~RemoveRuntimeIfCurrent(c)
        BY <3>2, <4>1 DEF RemoveRuntimeIfCurrent, Current
      <4>6. ASSUME NEW from, HandleFailure(c, from)
            PROVE  /\ runtimes'[p].status = "error" <=> pc'[c] = "done"
                   /\ runtimes'[p].status # "running"
        BY <1>0, <4>4, <4>6 DEF HandleFailure, At, TypeOK
      <4>7. /\ runtimes'[p].status = "error" <=> pc'[c] = "done"
            /\ runtimes'[p].status = "running" => pc'[c] \in {"serving", "stopping", "dropping"}
        <5>1. CASE Begin(c)
          BY <1>0, <4>4, <4>5, <5>1 DEF Begin, At, TypeOK
        <5>2. CASE Connect(c)
          BY <1>0, <4>4, <4>6, <5>2 DEF Connect, At, TypeOK
        <5>3. CASE Serve(c)
          BY <1>0, <4>1, <5>3 DEF Serve, At, TypeOK
        <5>4. CASE Shutdown(c)
          BY <4>5, <4>6, <5>4 DEF Shutdown
        <5>5. CASE Wait(c)
          BY <1>0, <4>1, <5>5 DEF Wait, At, TypeOK
        <5>6. CASE Lose(c)
          BY <4>1, <5>6 DEF Lose
        <5> QED
          BY <1>1, <5>1, <5>2, <5>3, <5>4, <5>5, <5>6 DEF RunStep
      <4> QED
        BY <4>1, <4>2, <4>3, <4>7
    <3> QED
      BY <3>1, <3>2
  <2> QED
    BY <2>2, <2>4
<1>2. ASSUME NEW c \in Calls, Bystander(c) PROVE CancelledHaveBegun' /\ StatusIsTrue'
  <2>1. \A r \in cancelled' : r \in cancelled \/ \E p \in Profiles : Current(p, r)
    BY <1>2 DEF Bystander, StopRuntime
  <2>2. CancelledHaveBegun'
    BY <1>0, <1>2, <2>1, EntriesHaveRuns DEF Bystander, BaseInv, CancelledHaveBegun, TypeOK
  <2>3. ASSUME NEW p \in Profiles, runtimes'[p] # None
        PROVE  runtimes'[p] = runtimes[p] /\ runtimes[p].run \notin cancelled'
    <3>1. runtimes'[p] = runtimes[p] /\ Current(p, runtimes[p].run)
      BY <1>0, <1>2, <2>3 DEF Bystander, StopRuntime, TypeOK, Current
    <3>2. \A q \in Profiles : Current(q, runtimes[p].run) => q = p
      BY <3>1, EntriesHaveRuns
    <3>3. runtimes[p].run \notin cancelled
      BY <3>1, EntriesHaveRuns
    <3> QED
      BY <1>0, <1>2, <2>3, <3>1, <3>2, <3>3 DEF Bystander, StopRuntime, TypeOK
  <2>4. \A p \in Profiles : runtimes[p] # None =>
          runtimes[p].run \in Calls /\ runtimes[p].run # c
    BY <1>2, EntriesHaveRuns DEF Bystander, Current
  <2>5. StatusIsTrue'
    BY <1>2, <2>3, <2>4 DEF StatusIsTrue, BaseInv, Bystander
  <2> QED
    BY <2>2, <2>5
<1>3. ASSUME NEW c \in Calls, StartInsert(c) PROVE CancelledHaveBegun' /\ StatusIsTrue'
  <2>1. pc[c] = "insert" /\ pc'[c] = "begin" /\ \A d \in Calls : d # c => pc'[d] = pc[d]
    BY <1>0, <1>3, MoveTypes DEF StartInsert, CallPlaces, RunPlaces
  <2>2. UNCHANGED <<cancelled, arg>> /\ c \notin cancelled
    BY <1>3, <2>1 DEF StartInsert, BaseInv, CancelledHaveBegun, RunPlaces
  <2>3. arg[c] \in Arg /\ arg[c] # None /\ arg[c].profile \in Profiles
    BY <2>1, ForwardAssumption DEF BaseInv, ArgsAreRead, CallPlaces, Arg
  <2>4. CancelledHaveBegun'
    BY <1>0, <2>1, <2>2 DEF BaseInv, CancelledHaveBegun, TypeOK
  <2>5. ASSUME NEW p \in Profiles, p # arg[c].profile
        PROVE  runtimes'[p] = runtimes[p]
    BY <1>0, <1>3, <2>5 DEF StartInsert, TypeOK
  <2>6. runtimes'[arg[c].profile] = [connection |-> arg[c].connection, run |-> c, status |-> "trying"]
    BY <1>0, <1>3, <2>3 DEF StartInsert, TypeOK
  <2>7. \A p \in Profiles : runtimes[p] # None =>
          runtimes[p].run \in Calls /\ runtimes[p].run # c
    BY <2>1, EntriesHaveRuns DEF Current, RunPlaces
  <2>8. StatusIsTrue'
    BY <2>1, <2>2, <2>3, <2>5, <2>6, <2>7 DEF StatusIsTrue, BaseInv, RunPlaces
  <2> QED
    BY <2>4, <2>8
<1>4. ASSUME NEW k \in Connections, CloseConnection(k) PROVE CancelledHaveBegun' /\ StatusIsTrue'
  BY <1>4 DEF CloseConnection, BaseInv, CancelledHaveBegun, StatusIsTrue
<1>5. ASSUME NEW k \in Connections, CloseForwards(k) PROVE CancelledHaveBegun' /\ StatusIsTrue'
  <2>1. UNCHANGED <<pc, arg>>
    BY <1>5 DEF CloseForwards
  <2>2. CancelledHaveBegun'
    BY <1>0, <1>5, <2>1, CloseTypes, EntriesHaveRuns DEF BaseInv, CancelledHaveBegun
  <2>3. ASSUME NEW p \in Profiles, runtimes'[p] # None
        PROVE  runtimes'[p] = runtimes[p] /\ runtimes[p].run \notin cancelled'
    <3>1. runtimes'[p] = runtimes[p] /\ Current(p, runtimes[p].run)
      BY <1>0, <1>5, <2>3, CloseTypes DEF Current
    <3>2. \A q \in Profiles : Current(q, runtimes[p].run) => q = p
      BY <3>1, EntriesHaveRuns
    <3>3. runtimes[p].run \notin cancelled
      BY <3>1, EntriesHaveRuns
    <3> QED
      BY <1>0, <1>5, <2>3, <3>1, <3>2, <3>3, CloseTypes
  <2> QED
    BY <2>1, <2>2, <2>3 DEF StatusIsTrue, BaseInv
<1> QED
  BY <1>1, <1>2, <1>3, <1>4, <1>5, NextCases, BystanderStep

LEMMA BaseInitially == Init => BaseInv
<1> SUFFICES ASSUME Init PROVE BaseInv
  OBVIOUS
<1> QED
  BY TypeInit DEF Init, BaseInv, ArgsAreRead, CancelledHaveBegun, StatusIsTrue, CallPlaces, RunPlaces

LEMMA BaseStep == BaseInv /\ [Next]_vars => BaseInv'
<1> SUFFICES ASSUME BaseInv, [Next]_vars PROVE BaseInv'
  OBVIOUS
<1>1. CASE Next
  BY <1>1, TypeStep, ArgsStep, StatusStep DEF BaseInv
<1>2. CASE UNCHANGED vars
  BY <1>2 DEF vars, BaseInv, TypeOK, ArgsAreRead, CancelledHaveBegun, StatusIsTrue
<1> QED
  BY <1>1, <1>2

LEMMA BaseAlways == Spec => []BaseInv
  BY BaseInitially, BaseStep, PTL DEF Spec

\* The state of the forwards keeps its types.
THEOREM TypeCorrect == Spec => []TypeOK
<1>1. BaseInv => TypeOK
  BY DEF BaseInv
<1> QED
  BY <1>1, BaseAlways, PTL

\* However calls, closes and runs interleave, an entry shows the state of a run
\* that belongs to it (update_runtime and remove_runtime_if_current compare the
\* generation).
THEOREM ShownStatusIsTrue == Spec => []StatusIsTrue
<1>1. BaseInv => StatusIsTrue
  BY DEF BaseInv
<1> QED
  BY <1>1, BaseAlways, PTL

-----------------------------------------------------------------------------
(* Runs and entries *)

\* A start that is about to enter its run finds no entry, and is the only one.
InsertsAlone ==
    \A c \in Calls : pc[c] = "insert" =>
        /\ runtimes[arg[c].profile] = None
        /\ \A d \in Calls : pc[d] = "insert" /\ arg[d].profile = arg[c].profile => d = c

ListedInv == BaseInv /\ InsertsAlone /\ RunsAreListed

LEMMA ListedStep ==
    ASSUME "start while starting" \notin Overlap, ListedInv, Next, BaseInv'
    PROVE  InsertsAlone' /\ RunsAreListed'
<1> USE DEF CallPlaces, RunPlaces
<1>0. TypeOK /\ TypeOK' /\ ArgsAreRead
  BY DEF ListedInv, BaseInv
<1>a. \A c \in Calls : pc[c] \in CallPlaces \union RunPlaces => arg[c].profile \in Profiles
  BY <1>0 DEF ArgsAreRead, Arg
<1>1. ASSUME NEW c \in Calls, RunStep(c) \/ Lose(c) PROVE InsertsAlone' /\ RunsAreListed'
  <2>1. RunEffect(c)
    BY <1>0, <1>1, RunStepEffect
  <2>2. ASSUME NEW p \in Profiles, ~Current(p, c) PROVE runtimes'[p] = runtimes[p]
    BY ZenonT(40), <1>0, <2>1, <2>2, UpdateTypes DEF RunEffect, RemoveRuntimeIfCurrent
  <2>3. InsertsAlone'
    <3>1. \A d \in Calls : pc'[d] = "insert" => pc[d] = "insert" /\ d # c /\ arg'[d] = arg[d]
      BY <2>1 DEF RunEffect
    <3>2. \A d \in Calls : pc'[d] = "insert" => ~Current(arg[d].profile, c)
      BY <3>1 DEF ListedInv, InsertsAlone, Current
    <3> QED
      BY <1>a, <2>1, <2>2, <3>1, <3>2 DEF ListedInv, InsertsAlone, RunEffect
  <2>4. ASSUME pc'[c] \in RunPlaces, NEW p \in Profiles, Current(p, c)
        PROVE  Current(p, c)'
    BY ZenonT(40), <1>0, <2>1, <2>4, UpdateTypes DEF RunEffect, Current
  <2>5. RunsAreListed'
    BY ZenonT(40), <1>a, <2>1, <2>2, <2>4 DEF ListedInv, RunsAreListed, Current, RunEffect
  <2> QED
    BY <2>3, <2>5
<1>2. ASSUME NEW c \in Calls, Bystander(c), pc'[c] \notin {"insert"} \union RunPlaces
      PROVE  InsertsAlone' /\ RunsAreListed'
  <2>1. \A p \in Profiles : runtimes[p] = None => runtimes'[p] = None
    BY <1>0, <1>2 DEF Bystander, StopRuntime, TypeOK
  <2>2. InsertsAlone'
    BY ZenonT(40), <1>2, <1>a, <2>1 DEF ListedInv, InsertsAlone, Bystander
  <2>3. ASSUME NEW p \in Profiles, NEW r \in Calls, Current(p, r), r \notin cancelled'
        PROVE  Current(p, r)'
    BY <1>0, <1>2, <2>3 DEF Bystander, StopRuntime, TypeOK, Current
  <2>4. cancelled \subseteq cancelled'
    BY <1>2 DEF Bystander, StopRuntime
  <2>5. RunsAreListed'
    BY <1>2, <1>a, <2>3, <2>4 DEF ListedInv, RunsAreListed, Bystander
  <2> QED
    BY <2>2, <2>5
<1>3. ASSUME NEW c \in Calls, StartReplace(c) PROVE InsertsAlone' /\ RunsAreListed'
  <2>0. PICK p \in Profiles : p = arg[c].profile
    BY <1>3, <1>a DEF StartReplace, At
  <2>1. /\ pc[c] = "replace" /\ pc'[c] = "insert" /\ \A d \in Calls : d # c => pc'[d] = pc[d]
        /\ arg' = arg /\ StopRuntime(p)
        /\ \A d \in Calls : pc[d] = "insert" => arg[d].profile # p
    BY <1>0, <1>3, <2>0, MoveTypes DEF StartReplace, Calling
  <2>2. runtimes'[p] = None /\ \A q \in Profiles : q # p => runtimes'[q] = runtimes[q]
    BY <1>0, <2>1 DEF StopRuntime, TypeOK
  <2>3. \A r \in Calls : Current(p, r) => r \in cancelled'
    BY <2>1 DEF StopRuntime
  <2>4. cancelled \subseteq cancelled'
    BY <2>1 DEF StopRuntime
  <2>5. ASSUME NEW d \in Calls, pc'[d] = "insert"
        PROVE  /\ runtimes'[arg[d].profile] = None
               /\ \A e \in Calls : pc'[e] = "insert" /\ arg[e].profile = arg[d].profile => e = d
    <3>1. CASE d = c
      BY <2>0, <2>1, <2>2, <2>5, <3>1
    <3>2. CASE d # c
      BY ZenonT(40), <1>a, <2>0, <2>1, <2>2, <2>5, <3>2 DEF ListedInv, InsertsAlone
    <3> QED
      BY <3>1, <3>2
  <2>6. InsertsAlone'
    BY <2>1, <2>5 DEF InsertsAlone
  <2>7. ASSUME NEW r \in Calls, pc'[r] \in RunPlaces, r \notin cancelled'
        PROVE  Current(arg[r].profile, r)'
    <3>1. r # c /\ pc[r] \in RunPlaces /\ r \notin cancelled
      BY <2>1, <2>4, <2>7
    <3>2. Current(arg[r].profile, r) /\ arg[r].profile \in Profiles
      BY <1>a, <3>1 DEF ListedInv, RunsAreListed
    <3>3. arg[r].profile # p
      BY <2>3, <2>7, <3>2
    <3> QED
      BY <2>1, <2>2, <3>2, <3>3 DEF Current
  <2> QED
    BY <2>1, <2>6, <2>7 DEF RunsAreListed
<1>4. ASSUME NEW c \in Calls, StartInsert(c) PROVE InsertsAlone' /\ RunsAreListed'
  <2>0. PICK p \in Profiles : p = arg[c].profile
    BY <1>4, <1>a DEF StartInsert, At
  <2>1. /\ pc[c] = "insert" /\ pc'[c] = "begin" /\ \A d \in Calls : d # c => pc'[d] = pc[d]
        /\ arg' = arg /\ cancelled' = cancelled
    BY <1>0, <1>4, MoveTypes DEF StartInsert
  <2>2. /\ runtimes'[p] = [connection |-> arg[c].connection, run |-> c, status |-> "trying"]
        /\ runtimes'[p].run = c
        /\ \A q \in Profiles : q # p => runtimes'[q] = runtimes[q]
    BY <1>0, <1>4, <2>0 DEF StartInsert, TypeOK
  <2>3. runtimes'[p] # None
    <3>1. arg[c].connection \in Connections
      BY <2>1 DEF ListedInv, BaseInv, ArgsAreRead
    <3>2. [connection |-> arg[c].connection, run |-> c, status |-> "trying"] \in Entry
      BY <3>1 DEF Entry
    <3> QED
      BY <2>2, <3>2, ForwardAssumption
  <2>4. \A r \in Calls : ~Current(p, r)
    BY <2>0, <2>1 DEF ListedInv, InsertsAlone, Current
  <2>5. InsertsAlone'
    <3>1. \A d \in Calls : pc'[d] = "insert" => pc[d] = "insert" /\ arg[d].profile # p
      BY <2>0, <2>1 DEF ListedInv, InsertsAlone
    <3> QED
      BY <1>a, <2>1, <2>2, <3>1 DEF ListedInv, InsertsAlone
  <2>6. ASSUME NEW r \in Calls, pc'[r] \in RunPlaces, r \notin cancelled'
        PROVE  Current(arg[r].profile, r)'
    <3>1. CASE r = c
      <4>1. arg'[c].profile = p
        BY <2>0, <2>1
      <4> QED
        BY <2>2, <2>3, <3>1, <4>1 DEF Current
    <3>2. CASE r # c
      <4>1. Current(arg[r].profile, r) /\ arg[r].profile \in Profiles
        BY <1>a, <2>1, <2>6, <3>2 DEF ListedInv, RunsAreListed
      <4> QED
        BY <2>1, <2>2, <2>4, <4>1 DEF Current
    <3> QED
      BY <3>1, <3>2
  <2> QED
    BY <2>1, <2>5, <2>6 DEF RunsAreListed
<1>5. ASSUME NEW c \in Calls, Start(c) \/ Stop(c) \/ Save(c) \/ StopChanged(c) \/ Delete(c) \/ Erase(c)
      PROVE  InsertsAlone' /\ RunsAreListed'
  <2>1. pc'[c] \in {"replace", "changed", "erase", "done"}
    BY <1>0, <1>5 DEF Start, Stop, Save, StopChanged, Delete, Erase, Change, Arrive, At, TypeOK
  <2> QED
    BY <1>2, <1>5, <2>1, BystanderStep DEF ListedInv
<1>6. ASSUME NEW k \in Connections, CloseConnection(k) PROVE InsertsAlone' /\ RunsAreListed'
  BY <1>6 DEF CloseConnection, ListedInv, InsertsAlone, RunsAreListed, Current
<1>7. ASSUME NEW k \in Connections, CloseForwards(k) PROVE InsertsAlone' /\ RunsAreListed'
  <2>1. UNCHANGED <<pc, arg>> /\ cancelled \subseteq cancelled'
    BY <1>7 DEF CloseForwards
  <2>2. \A p \in Profiles : runtimes[p] = None => runtimes'[p] = None
    BY <1>0, <1>7, CloseTypes
  <2>3. ASSUME NEW p \in Profiles, NEW r \in Calls, Current(p, r), r \notin cancelled'
        PROVE  Current(p, r)'
    BY <1>0, <1>7, <2>3, CloseTypes DEF Current
  <2> QED
    BY <1>a, <2>1, <2>2, <2>3 DEF ListedInv, InsertsAlone, RunsAreListed
<1> QED
  BY <1>1, <1>3, <1>4, <1>5, <1>6, <1>7, NextCases

\* If no two starts of a profile overlap, every run that lives and was not
\* cancelled is the one in its profile's entry, where stop, save, delete, the
\* next start and the close of the connection find it.  A profile therefore
\* never has two forwards that go on.
THEOREM LiveRunsAreListed ==
    ASSUME "start while starting" \notin Overlap
    PROVE  Spec => []RunsAreListed
<1>1. Init => ListedInv
  <2> SUFFICES ASSUME Init PROVE ListedInv
    OBVIOUS
  <2> QED
    BY BaseInitially DEF Init, ListedInv, InsertsAlone, RunsAreListed, RunPlaces
<1>2. ListedInv /\ [Next]_vars => ListedInv'
  <2> SUFFICES ASSUME ListedInv, [Next]_vars PROVE ListedInv'
    OBVIOUS
  <2>1. BaseInv'
    BY BaseStep DEF ListedInv
  <2>2. CASE Next
    BY <2>1, <2>2, ListedStep DEF ListedInv
  <2>3. CASE UNCHANGED vars
    BY <2>1, <2>3 DEF vars, ListedInv, InsertsAlone, RunsAreListed, Current
  <2> QED
    BY <2>2, <2>3
<1>3. ListedInv => RunsAreListed
  BY DEF ListedInv
<1> QED
  BY <1>1, <1>2, <1>3, PTL DEF Spec

-----------------------------------------------------------------------------
(* Runs and profiles *)

\* A start works with the settings that are stored, as long as it is a call.
StartsAreFresh ==
    \A c \in Calls, p \in Profiles : pc[c] \in {"replace", "insert"} /\ arg[c].profile = p =>
        arg[c].settings = profiles[p] /\ ~Calling(p, {"erase"})

\* A profile that is not stored, or about to be removed, has no entry.
ErasedHaveNoRun ==
    \A p \in Profiles : profiles[p] = None \/ Calling(p, {"erase"}) => runtimes[p] = None

MatchInv == BaseInv /\ StartsAreFresh /\ ErasedHaveNoRun /\ RunsMatchProfiles

\* Entries are only removed or updated, and their runs keep their arguments.
EntriesOnlyGo ==
    \A p \in Profiles : runtimes'[p] # None =>
        /\ runtimes[p] # None /\ runtimes'[p].run = runtimes[p].run
        /\ arg'[runtimes[p].run] = arg[runtimes[p].run]

\* The calls on a profile other than a start's that are under way, but for c.
OthersStay(c) ==
    \A d \in Calls : d # c => pc'[d] = pc[d] /\ arg'[d] = arg[d]

LEMMA RunsOnlyGo ==
    ASSUME BaseInv, NEW c \in Calls, RunEffect(c)
    PROVE  EntriesOnlyGo
<1>0. TypeOK /\ arg' = arg
  BY DEF BaseInv, RunEffect
<1>1. CASE UNCHANGED runtimes
  BY <1>0, <1>1 DEF EntriesOnlyGo
<1>2. ASSUME NEW status \in {"trying", "running", "error"}, UpdateRuntime(c, status)
      PROVE  EntriesOnlyGo
  BY <1>0, <1>2, UpdateTypes DEF EntriesOnlyGo, Current
<1>3. CASE RemoveRuntimeIfCurrent(c)
  BY <1>0, <1>3 DEF EntriesOnlyGo, RemoveRuntimeIfCurrent
<1> QED
  BY <1>1, <1>2, <1>3 DEF RunEffect

LEMMA BystandersOnlyGo ==
    ASSUME BaseInv, NEW c \in Calls, Bystander(c)
    PROVE  EntriesOnlyGo
<1>1. \A p \in Profiles : runtimes'[p] # None => runtimes'[p] = runtimes[p]
  BY DEF Bystander, StopRuntime, BaseInv, TypeOK
<1>2. \A p \in Profiles : runtimes[p] # None => runtimes[p].run \in Calls /\ runtimes[p].run # c
  BY EntriesHaveRuns DEF Bystander, Current
<1> QED
  BY <1>1, <1>2 DEF EntriesOnlyGo, Bystander

LEMMA MatchStep ==
    ASSUME "change while starting" \notin Overlap, MatchInv, Next, BaseInv'
    PROVE  StartsAreFresh' /\ ErasedHaveNoRun' /\ RunsMatchProfiles'
<1> USE DEF CallPlaces, RunPlaces
<1> DEFINE Goal == StartsAreFresh' /\ ErasedHaveNoRun' /\ RunsMatchProfiles'
<1> SUFFICES Goal
  OBVIOUS
<1>0. TypeOK /\ TypeOK' /\ ArgsAreRead /\ BaseInv
  BY DEF MatchInv, BaseInv
<1>a. \A c \in Calls : pc[c] \in CallPlaces \union RunPlaces => arg[c].profile \in Profiles
  BY <1>0 DEF ArgsAreRead, Arg
\* A step that moves no call between the places that matter, changes no profile
\* and enters no run.
<1>b. ASSUME EntriesOnlyGo, profiles' = profiles,
             \A d \in Calls : pc'[d] \in CallPlaces => arg'[d] = arg[d] /\ pc[d] \in CallPlaces,
             \A d \in Calls : pc'[d] = "erase" => pc[d] = "erase",
             \A d \in Calls : pc'[d] \in {"replace", "insert"} => pc[d] \in {"replace", "insert"},
             \A d \in Calls : pc[d] = "changed" =>
                 \/ pc'[d] = "changed" /\ arg'[d] = arg[d]
                 \/ runtimes'[arg[d].profile] = None
      PROVE  Goal
  <2>1. \A p \in Profiles : Calling(p, {"erase"})' => Calling(p, {"erase"})
    BY <1>b DEF Calling
  <2>2. \A p \in Profiles : Calling(p, {"changed"}) =>
          Calling(p, {"changed"})' \/ runtimes'[p] = None
    BY <1>b DEF Calling
  <2>3. StartsAreFresh'
    <3> SUFFICES ASSUME NEW d \in Calls, NEW q \in Profiles,
                        pc'[d] \in {"replace", "insert"}, arg'[d].profile = q
                 PROVE  arg'[d].settings = profiles'[q] /\ ~Calling(q, {"erase"})'
      BY DEF StartsAreFresh
    <3>1. arg'[d] = arg[d] /\ pc[d] \in {"replace", "insert"}
      BY <1>b
    <3>2. arg[d].settings = profiles[q] /\ ~Calling(q, {"erase"})
      BY <3>1 DEF MatchInv, StartsAreFresh
    <3>3. profiles' = profiles
      BY <1>b
    <3> QED
      BY <2>1, <3>1, <3>2, <3>3
  <2>4. ErasedHaveNoRun'
    BY <1>b, <2>1 DEF MatchInv, ErasedHaveNoRun, EntriesOnlyGo
  <2>5. ASSUME NEW p \in Profiles, runtimes'[p] # None, ~Calling(p, {"changed"})'
        PROVE  arg'[runtimes'[p].run].settings = profiles'[p]
    <3>1. ~Calling(p, {"changed"})
      BY <2>2, <2>5
    <3>2. runtimes[p] # None /\ runtimes'[p].run = runtimes[p].run
            /\ arg'[runtimes[p].run] = arg[runtimes[p].run]
      BY <1>b, <2>5 DEF EntriesOnlyGo
    <3>3. arg[runtimes[p].run].settings = profiles[p]
      BY <3>1, <3>2 DEF MatchInv, RunsMatchProfiles
    <3>4. profiles' = profiles
      BY <1>b
    <3> QED
      BY <3>2, <3>3, <3>4
  <2>6. RunsMatchProfiles'
    BY <2>5 DEF RunsMatchProfiles
  <2> QED
    BY <2>3, <2>4, <2>6
<1>1. ASSUME NEW c \in Calls, RunStep(c) \/ Lose(c) PROVE Goal
  <2>1. RunEffect(c)
    BY <1>0, <1>1, RunStepEffect
  <2>2. EntriesOnlyGo
    BY <1>0, <2>1, RunsOnlyGo
  <2> QED
    BY <1>b, <2>1, <2>2 DEF RunEffect
<1>2. ASSUME NEW c \in Calls, StartReplace(c) \/ Stop(c) \/ StopChanged(c) PROVE Goal
  <2>1. Bystander(c) /\ EntriesOnlyGo
    BY <1>0, <1>2, BystanderStep, BystandersOnlyGo
  <2>2. CASE StartReplace(c)
    BY <1>0, <1>b, <2>1, <2>2, MoveTypes DEF StartReplace
  <2>3. CASE Stop(c)
    <3>1. /\ pc[c] = "idle" /\ pc'[c] = "done" /\ profiles' = profiles
          /\ \A d \in Calls : d # c => pc'[d] = pc[d] /\ arg'[d] = arg[d]
      BY <1>0, <2>1, <2>3, MoveTypes DEF Stop, Arrive, Bystander
    <3> QED
      BY <1>b, <2>1, <3>1
  <2>4. CASE StopChanged(c)
    <3>1. runtimes'[arg[c].profile] = None
      BY <1>0, <1>a, <2>4 DEF StopChanged, StopRuntime, At, TypeOK
    <3> QED
      BY <1>0, <1>b, <2>1, <2>4, <3>1, MoveTypes DEF StopChanged
  <2> QED
    BY <1>2, <2>2, <2>3, <2>4
<1>3. ASSUME NEW k \in Connections, CloseConnection(k) \/ CloseForwards(k) PROVE Goal
  <2>1. UNCHANGED <<profiles, pc, arg>>
    BY <1>3 DEF CloseConnection, CloseForwards
  <2>2. EntriesOnlyGo
    BY <1>0, <1>3, <2>1, CloseTypes DEF CloseConnection, EntriesOnlyGo
  <2> QED
    BY <1>b, <2>1, <2>2
<1>4. ASSUME NEW c \in Calls, Start(c) PROVE Goal
  <2>1. /\ Bystander(c) /\ EntriesOnlyGo /\ UNCHANGED <<profiles, runtimes>>
        /\ pc[c] = "idle" /\ pc'[c] = "replace"
    BY <1>0, <1>4, BystanderStep, BystandersOnlyGo, MoveTypes DEF Start, Arrive
  <2>2. \A d \in Calls : d # c => pc'[d] = pc[d] /\ arg'[d] = arg[d]
    BY <2>1 DEF Bystander
  <2>3. \A p \in Profiles : Calling(p, {"erase"})' = Calling(p, {"erase"})
    BY <2>1, <2>2 DEF Calling
  <2>4. \A p \in Profiles : Calling(p, {"changed"})' = Calling(p, {"changed"})
    BY <2>1, <2>2 DEF Calling
  <2>5. arg'[c].profile \in Profiles /\ arg'[c].settings = profiles[arg'[c].profile]
          /\ ~Calling(arg'[c].profile, {"erase"})
    BY <1>0, <1>4, StartReads DEF Arg
  <2>6. StartsAreFresh'
    <3> SUFFICES ASSUME NEW d \in Calls, NEW q \in Profiles,
                        pc'[d] \in {"replace", "insert"}, arg'[d].profile = q
                 PROVE  arg'[d].settings = profiles'[q] /\ ~Calling(q, {"erase"})'
      BY DEF StartsAreFresh
    <3>1. CASE d = c
      BY <2>1, <2>3, <2>5, <3>1
    <3>2. CASE d # c
      <4>1. arg'[d] = arg[d] /\ pc[d] \in {"replace", "insert"}
        BY <2>2, <3>2
      <4>2. arg[d].settings = profiles[q] /\ ~Calling(q, {"erase"})
        BY <4>1 DEF MatchInv, StartsAreFresh
      <4> QED
        BY <2>1, <2>3, <4>1, <4>2
    <3> QED
      BY <3>1, <3>2
  <2>7. ErasedHaveNoRun' /\ RunsMatchProfiles'
    BY <2>1, <2>3, <2>4 DEF MatchInv, ErasedHaveNoRun, RunsMatchProfiles, EntriesOnlyGo
  <2> QED
    BY <2>6, <2>7
<1>5. ASSUME NEW c \in Calls, StartInsert(c) PROVE Goal
  <2>0. PICK p \in Profiles : p = arg[c].profile
    BY <1>5, <1>a DEF StartInsert, At
  <2>1. /\ pc[c] = "insert" /\ pc'[c] = "begin" /\ \A d \in Calls : d # c => pc'[d] = pc[d]
        /\ UNCHANGED <<arg, profiles>>
    BY <1>0, <1>5, MoveTypes DEF StartInsert
  <2>2. /\ runtimes'[p].run = c
        /\ \A q \in Profiles : q # p => runtimes'[q] = runtimes[q]
    BY <1>0, <1>5, <2>0 DEF StartInsert, TypeOK
  <2>3. arg[c].settings = profiles[p] /\ ~Calling(p, {"erase"})
    BY <2>0, <2>1 DEF MatchInv, StartsAreFresh
  <2>4. arg[c].settings # None
    BY <1>0, <2>1, ForwardAssumption DEF ArgsAreRead
  <2>5. \A q \in Profiles : Calling(q, {"erase"})' = Calling(q, {"erase"})
    BY <2>1 DEF Calling
  <2>6. \A q \in Profiles : Calling(q, {"changed"})' = Calling(q, {"changed"})
    BY <2>1 DEF Calling
  <2>7. StartsAreFresh'
    BY <1>a, <2>1, <2>5 DEF MatchInv, StartsAreFresh
  <2>8. ErasedHaveNoRun'
    BY <2>1, <2>2, <2>3, <2>4, <2>5 DEF MatchInv, ErasedHaveNoRun
  <2>9. RunsMatchProfiles'
    BY <2>1, <2>2, <2>3, <2>6 DEF MatchInv, RunsMatchProfiles
  <2> QED
    BY <2>7, <2>8, <2>9
<1>6. ASSUME NEW c \in Calls, Save(c) PROVE Goal
  <2>1. PICK p \in Profiles, s \in Settings :
          /\ Change(c, p) /\ profiles' = [profiles EXCEPT ![p] = s]
          /\ \/ profiles[p] # None /\ At(c, "idle", "changed")
             \/ profiles[p] = None /\ At(c, "idle", "done")
    BY <1>6 DEF Save, Arrive
  <2>2. /\ pc[c] = "idle" /\ pc'[c] \in {"changed", "done"}
        /\ profiles[p] # None => pc'[c] = "changed"
        /\ \A d \in Calls : d # c => pc'[d] = pc[d] /\ arg'[d] = arg[d]
    BY ZenonT(40), <1>0, <2>1, MoveTypes, NamesTypes DEF Change
  <2>3. arg'[c].profile = p
    BY <1>0, <2>1, NamesTypes DEF Change
  <2>4. ~Calling(p, {"replace", "insert"})
    BY <2>1 DEF Change
  <2>5. profiles'[p] = s /\ s # None /\ \A q \in Profiles : q # p => profiles'[q] = profiles[q]
    BY <1>0, <2>1, ForwardAssumption DEF TypeOK
  <2>6. \A q \in Profiles : Calling(q, {"erase"})' = Calling(q, {"erase"})
    BY <2>2 DEF Calling
  <2>7. \A q \in Profiles : Calling(q, {"changed"}) => Calling(q, {"changed"})'
    BY <2>2 DEF Calling
  <2>8. UNCHANGED runtimes /\ EntriesOnlyGo
    BY <1>0, <1>6, BystanderStep, BystandersOnlyGo DEF Save
  <2>9. StartsAreFresh'
    <3> SUFFICES ASSUME NEW d \in Calls, NEW q \in Profiles,
                        pc'[d] \in {"replace", "insert"}, arg'[d].profile = q
                 PROVE  arg'[d].settings = profiles'[q] /\ ~Calling(q, {"erase"})'
      BY DEF StartsAreFresh
    <3>1. d # c /\ pc'[d] = pc[d] /\ arg'[d] = arg[d]
      BY <2>2
    <3>2. q # p
      BY <2>4, <3>1 DEF Calling
    <3>3. arg[d].settings = profiles[q] /\ ~Calling(q, {"erase"})
      BY <3>1 DEF MatchInv, StartsAreFresh
    <3> QED
      BY <2>5, <2>6, <3>1, <3>2, <3>3
  <2>10. ErasedHaveNoRun'
    BY <2>5, <2>6, <2>8 DEF MatchInv, ErasedHaveNoRun
  <2>11. RunsMatchProfiles'
    <3>1. profiles[p] # None => Calling(p, {"changed"})'
      BY <2>2, <2>3 DEF Calling
    <3>2. profiles[p] = None => runtimes[p] = None
      BY DEF MatchInv, ErasedHaveNoRun
    <3> QED
      BY <2>5, <2>7, <2>8, <3>1, <3>2 DEF MatchInv, RunsMatchProfiles, EntriesOnlyGo
  <2> QED
    BY <2>9, <2>10, <2>11
<1>7. ASSUME NEW c \in Calls, Delete(c) PROVE Goal
  <2>1. PICK p \in Profiles : Change(c, p) /\ StopRuntime(p) /\ At(c, "idle", "erase")
    BY <1>7 DEF Delete, Arrive
  <2>2. /\ pc[c] = "idle" /\ pc'[c] = "erase" /\ arg'[c].profile = p
        /\ \A d \in Calls : d # c => pc'[d] = pc[d] /\ arg'[d] = arg[d]
    BY ZenonT(40), <1>0, <2>1, MoveTypes, NamesTypes DEF Change
  <2>3. ~Calling(p, {"replace", "insert"})
    BY <2>1 DEF Change
  <2>4. UNCHANGED profiles /\ runtimes'[p] = None /\ EntriesOnlyGo
    BY <1>0, <1>7, <2>1, BystanderStep, BystandersOnlyGo DEF Delete, StopRuntime, TypeOK
  <2>5. \A q \in Profiles : q # p => Calling(q, {"erase"})' = Calling(q, {"erase"})
    BY <2>2 DEF Calling
  <2>6. \A q \in Profiles : Calling(q, {"changed"})' = Calling(q, {"changed"})
    BY <2>2 DEF Calling
  <2>7. \A d \in Calls : pc'[d] \in {"replace", "insert"} =>
          /\ d # c /\ pc[d] \in {"replace", "insert"} /\ arg'[d] = arg[d]
          /\ arg[d].profile \in Profiles /\ arg[d].profile # p
    BY <1>a, <2>2, <2>3 DEF Calling
  <2>8. StartsAreFresh'
    <3> SUFFICES ASSUME NEW d \in Calls, NEW q \in Profiles,
                        pc'[d] \in {"replace", "insert"}, arg'[d].profile = q
                 PROVE  arg'[d].settings = profiles'[q] /\ ~Calling(q, {"erase"})'
      BY DEF StartsAreFresh
    <3>1. /\ arg'[d] = arg[d] /\ pc[d] \in {"replace", "insert"} /\ q # p
      BY <2>7
    <3>2. arg[d].settings = profiles[q] /\ ~Calling(q, {"erase"})
      BY <3>1 DEF MatchInv, StartsAreFresh
    <3> QED
      BY <2>4, <2>5, <3>1, <3>2
  <2>9. ErasedHaveNoRun' /\ RunsMatchProfiles'
    BY ZenonT(40), <2>4, <2>5, <2>6 DEF MatchInv, ErasedHaveNoRun, RunsMatchProfiles, EntriesOnlyGo
  <2> QED
    BY <2>8, <2>9
<1>8. ASSUME NEW c \in Calls, Erase(c) PROVE Goal
  <2>0. PICK p \in Profiles : p = arg[c].profile
    BY <1>8, <1>a DEF Erase, At
  <2>1. /\ pc[c] = "erase" /\ pc'[c] = "done" /\ \A d \in Calls : d # c => pc'[d] = pc[d]
        /\ UNCHANGED <<arg, runtimes>>
    BY <1>0, <1>8, MoveTypes DEF Erase
  <2>2. profiles'[p] = None /\ \A q \in Profiles : q # p => profiles'[q] = profiles[q]
    BY <1>0, <1>8, <2>0 DEF Erase, TypeOK
  <2>3. Calling(p, {"erase"}) /\ runtimes[p] = None
    BY <2>0, <2>1 DEF Calling, MatchInv, ErasedHaveNoRun
  <2>4. \A q \in Profiles : Calling(q, {"erase"})' => Calling(q, {"erase"})
    BY <2>1 DEF Calling
  <2>5. \A q \in Profiles : Calling(q, {"changed"})' = Calling(q, {"changed"})
    BY <2>1 DEF Calling
  <2>6. \A d \in Calls : pc'[d] \in {"replace", "insert"} =>
          pc[d] \in {"replace", "insert"} /\ arg[d].profile \in Profiles /\ arg[d].profile # p
    BY <1>a, <2>1, <2>3 DEF MatchInv, StartsAreFresh
  <2>7. StartsAreFresh'
    BY <2>1, <2>2, <2>4, <2>6 DEF MatchInv, StartsAreFresh
  <2>8. ErasedHaveNoRun' /\ RunsMatchProfiles'
    BY <2>1, <2>2, <2>3, <2>4, <2>5 DEF MatchInv, ErasedHaveNoRun, RunsMatchProfiles
  <2> QED
    BY <2>7, <2>8
<1> QED
  BY <1>1, <1>2, <1>3, <1>4, <1>5, <1>6, <1>7, <1>8, NextCases

\* If no profile is saved or deleted while it is being started, a forward in the
\* map is one of a stored profile and has its settings, however many profiles
\* and calls there are; also when two starts of the profile overlap.
THEOREM EntriesMatchProfiles ==
    ASSUME "change while starting" \notin Overlap
    PROVE  Spec => []RunsMatchProfiles
<1>1. Init => MatchInv
  <2> SUFFICES ASSUME Init PROVE MatchInv
    OBVIOUS
  <2> QED
    BY BaseInitially DEF Init, MatchInv, StartsAreFresh, ErasedHaveNoRun, RunsMatchProfiles
<1>2. MatchInv /\ [Next]_vars => MatchInv'
  <2> SUFFICES ASSUME MatchInv, [Next]_vars PROVE MatchInv'
    OBVIOUS
  <2>1. BaseInv'
    BY BaseStep DEF MatchInv
  <2>2. CASE Next
    BY <2>1, <2>2, MatchStep DEF MatchInv
  <2>3. CASE UNCHANGED vars
    BY <2>1, <2>3 DEF vars, MatchInv, StartsAreFresh, ErasedHaveNoRun, RunsMatchProfiles, Calling
  <2> QED
    BY <2>2, <2>3
<1>3. MatchInv => RunsMatchProfiles
  BY DEF MatchInv
<1> QED
  BY <1>1, <1>2, <1>3, PTL DEF Spec

================================================================================
