----------------------------- MODULE PortForwards -----------------------------
(***************************************************************************)
(* The stored port forwards of one host and the tasks that keep them open  *)
(* (port_forward.rs), under the connections to that host and their close   *)
(* (connection.rs).                                                        *)
(*                                                                         *)
(* A call is one IPC request of a window, or one profile's turn in the     *)
(* autostart of a connection: start, stop, save or delete.  A start spawns *)
(* a task, run_profile, which lives on after the call has returned; the    *)
(* call's name serves as the generation of its run.  pc stands between two *)
(* lock sections or awaits, and arg keeps what the thread read before: a   *)
(* profile is read once, when the call begins, and the run works with that *)
(* copy to its end.  A run touches only its own entry, and only while its  *)
(* generation is there; such an update is part of the step before it, for  *)
(* whatever could come between either does not see it or removes the entry *)
(* in any case.                                                            *)
(*                                                                         *)
(* All connections and profiles are of one host, since a start whose       *)
(* profile belongs to another host is refused before it changes anything.  *)
(***************************************************************************)
EXTENDS Integers, FiniteSets

CONSTANTS
    Connections,   \* ids of connections to the host, never used again
    Profiles,      \* ids of profiles
    Settings,      \* what a profile can say
    Reconnecting,  \* the settings with reconnect set
    MaxCalls,      \* how many calls there are
    MaxProfiles,   \* MAX_PROFILES
    MaxLosses,     \* how often a forward's SSH session breaks
    Overlap,       \* which calls on one profile may overlap, see below
    None

\* "start while starting": two starts of a profile at the same time.
\* "change while starting": a profile is saved or deleted during its start.
Overlaps == {"start while starting", "change while starting"}

\* Calls are numbered in the order in which they begin.
Calls == 1 .. MaxCalls

\* An entry of the map; "trying" stands for "starting" and "recovering".
Entry == [connection : Connections, run : Calls, status : {"trying", "running", "error"}]
Arg == [profile : Profiles, connection : Connections \union {None}, settings : Settings \union {None}]

ASSUME ForwardAssumption ==
    /\ IsFiniteSet(Profiles) /\ Reconnecting \subseteq Settings
    /\ None \notin Connections \union Profiles \union Settings
    /\ None \notin Entry /\ None \notin Arg
    /\ MaxCalls \in Nat /\ MaxProfiles \in Nat /\ MaxLosses \in Nat
    /\ Overlap \subseteq Overlaps

VARIABLES
    connections,  \* the keys of state.connections
    closing,      \* connections removed, whose forwards were not yet closed
    profiles,     \* port-forwards.json: profile -> settings
    runtimes,     \* state.port_forward_runtimes: profile -> entry
    cancelled,    \* runs whose token was cancelled
    lost,         \* runs whose forward is broken: is_closed() of its runtime
    pc, arg,      \* call -> where it is, and what it has read
    losses

vars == <<connections, closing, profiles, runtimes, cancelled, lost, pc, arg, losses>>

CallPlaces == {"replace", "insert", "changed", "erase"}
RunPlaces == {"begin", "connect", "serving", "stopping", "dropping", "waiting"}

TypeOK ==
    /\ connections \subseteq Connections /\ closing \subseteq Connections
    /\ profiles \in [Profiles -> Settings \union {None}]
    /\ runtimes \in [Profiles -> Entry \union {None}]
    /\ cancelled \subseteq Calls /\ lost \subseteq Calls
    /\ pc \in [Calls -> CallPlaces \union RunPlaces \union {"idle", "done"}]
    /\ arg \in [Calls -> Arg \union {None}]
    /\ losses \in 0 .. MaxLosses

Init ==
    /\ connections = Connections /\ closing = {}
    /\ profiles \in [Profiles -> Settings \union {None}]
    /\ Cardinality({p \in Profiles : profiles[p] # None}) <= MaxProfiles
    /\ runtimes = [p \in Profiles |-> None]
    /\ cancelled = {} /\ lost = {}
    /\ pc = [c \in Calls |-> "idle"]
    /\ arg = [c \in Calls |-> None]
    /\ losses = 0

-----------------------------------------------------------------------------
(* Helpers *)

At(c, from, to) == pc[c] = from /\ pc' = [pc EXCEPT ![c] = to]

\* The call c is the next one.
Arrive(c, to) == At(c, "idle", to) /\ \A d \in 1 .. c - 1 : pc[d] # "idle"

\* A call on profile p stands at one of these places.
Calling(p, places) == \E c \in Calls : pc[c] \in places /\ arg[c].profile = p

\* The generation in p's entry is that of run r.
Current(p, r) == runtimes[p] # None /\ runtimes[p].run = r

\* stop_runtime
StopRuntime(p) ==
    /\ runtimes' = [runtimes EXCEPT ![p] = None]
    /\ cancelled' = cancelled \union {r \in Calls : Current(p, r)}

\* update_runtime of the run r
UpdateRuntime(r, status) ==
    runtimes' = [p \in Profiles |->
                   IF p = arg[r].profile /\ Current(p, r)
                   THEN [runtimes[p] EXCEPT !.status = status] ELSE runtimes[p]]

\* Mutant: the generation is not compared.
RemoveAny(r) == runtimes' = [runtimes EXCEPT ![arg[r].profile] = None]

RemoveRuntimeIfCurrent(r) ==
    runtimes' = [p \in Profiles |->
                   IF p = arg[r].profile /\ Current(p, r) THEN None ELSE runtimes[p]]

-----------------------------------------------------------------------------
(* The calls *)

\* start and autostart_for_connection read the profile, and start_profile looks
\* for the connection.  A start that misses either changes nothing.
Start(c) ==
    /\ Arrive(c, "replace")
    /\ \E p \in Profiles, k \in connections :
         /\ profiles[p] # None
         /\ "change while starting" \notin Overlap => ~Calling(p, {"erase"})
         /\ arg' = [arg EXCEPT ![c] = [profile |-> p, connection |-> k,
                                       settings |-> profiles[p]]]
    /\ UNCHANGED <<connections, closing, profiles, runtimes, cancelled, lost, losses>>

\* It stops the run that the profile has ...
StartReplace(c) ==
    /\ At(c, "replace", "insert")
    /\ "start while starting" \notin Overlap => ~Calling(arg[c].profile, {"insert"})
    /\ StopRuntime(arg[c].profile)
    /\ UNCHANGED <<connections, closing, profiles, lost, arg, losses>>

\* ... enters its own, whatever is there by now, and spawns run_profile.
StartInsert(c) ==
    /\ At(c, "insert", "begin")
    /\ runtimes' = [runtimes EXCEPT ![arg[c].profile] =
                      [connection |-> arg[c].connection, run |-> c, status |-> "trying"]]
    /\ UNCHANGED <<connections, closing, profiles, cancelled, lost, arg, losses>>

\* The call c is given the id of a profile and nothing else.
Names(c, p) == arg' = [arg EXCEPT ![c] = [profile |-> p, connection |-> None, settings |-> None]]

Stop(c) ==
    /\ Arrive(c, "done")
    /\ \E p \in Profiles : Names(c, p) /\ StopRuntime(p)
    /\ UNCHANGED <<connections, closing, profiles, lost, losses>>

\* The call c begins to change the profile p.
Change(c, p) ==
    /\ "change while starting" \notin Overlap => ~Calling(p, {"replace", "insert"})
    /\ Names(c, p)

\* save of a profile that is stored, which then stops its run, or of a new one.
\* Mutant: the run goes on with the settings it has.
SaveOnly(c) ==
    /\ \E p \in Profiles, s \in Settings :
         /\ Change(c, p)
         /\ Arrive(c, "done")
         /\ Cardinality({q \in Profiles : profiles[q] # None} \union {p}) <= MaxProfiles
         /\ profiles' = [profiles EXCEPT ![p] = s]
    /\ UNCHANGED <<connections, closing, runtimes, cancelled, lost, losses>>

Save(c) ==
    /\ \E p \in Profiles, s \in Settings :
         /\ Change(c, p)
         /\ \/ profiles[p] # None /\ Arrive(c, "changed")
            \/ /\ profiles[p] = None /\ Arrive(c, "done")
               /\ Cardinality({q \in Profiles : profiles[q] # None}) < MaxProfiles
         /\ profiles' = [profiles EXCEPT ![p] = s]
    /\ UNCHANGED <<connections, closing, runtimes, cancelled, lost, losses>>

StopChanged(c) ==
    /\ At(c, "changed", "done")
    /\ StopRuntime(arg[c].profile)
    /\ UNCHANGED <<connections, closing, profiles, lost, arg, losses>>

\* delete stops the run first ...
Delete(c) ==
    /\ Arrive(c, "erase")
    /\ \E p \in Profiles : Change(c, p) /\ StopRuntime(p)
    /\ UNCHANGED <<connections, closing, profiles, lost, losses>>

\* ... and removes the profile from the file after that.
Erase(c) ==
    /\ At(c, "erase", "done")
    /\ profiles' = [profiles EXCEPT ![arg[c].profile] = None]
    /\ UNCHANGED <<connections, closing, runtimes, cancelled, lost, arg, losses>>

-----------------------------------------------------------------------------
(* The close of a connection *)

CloseConnection(k) ==
    /\ k \in connections
    /\ connections' = connections \ {k}
    /\ closing' = closing \union {k}
    /\ UNCHANGED <<profiles, runtimes, cancelled, lost, pc, arg, losses>>

CloseForwards(k) ==
    /\ k \in closing
    /\ closing' = closing \ {k}
    /\ LET closed == {p \in Profiles : runtimes[p] # None /\ runtimes[p].connection = k}
       IN /\ runtimes' = [p \in Profiles |-> IF p \in closed THEN None ELSE runtimes[p]]
          /\ cancelled' = cancelled \union {runtimes[p].run : p \in closed}
    /\ UNCHANGED <<connections, profiles, lost, pc, arg, losses>>

-----------------------------------------------------------------------------
(* run_profile *)

\* Mutant: a run that gives up says nothing.
FailSilently(r, from) ==
    \/ /\ At(r, from, "waiting") /\ arg[r].settings \in Reconnecting
       /\ UpdateRuntime(r, "trying")
    \/ /\ At(r, from, "done") /\ arg[r].settings \notin Reconnecting
       /\ UNCHANGED runtimes

\* handle_failure, up to its sleep
HandleFailure(r, from) ==
    \/ /\ At(r, from, "waiting") /\ arg[r].settings \in Reconnecting
       /\ UpdateRuntime(r, "trying")
    \/ /\ At(r, from, "done") /\ arg[r].settings \notin Reconnecting
       /\ UpdateRuntime(r, "error")

\* Mutant: only the token ends the run.
BeginUnlessCancelled(r) ==
    /\ \/ At(r, "begin", "connect") /\ r \notin cancelled /\ UpdateRuntime(r, "trying")
       \/ At(r, "begin", "done") /\ r \in cancelled /\ RemoveRuntimeIfCurrent(r)
    /\ UNCHANGED <<connections, closing, profiles, cancelled, lost, arg, losses>>

\* The head of the loop: another attempt needs a live token and the connection.
Begin(r) ==
    /\ LET over == r \in cancelled \/ arg[r].connection \notin connections
       IN \/ At(r, "begin", "connect") /\ ~over /\ UpdateRuntime(r, "trying")
          \/ At(r, "begin", "done") /\ over /\ RemoveRuntimeIfCurrent(r)
    /\ UNCHANGED <<connections, closing, profiles, cancelled, lost, arg, losses>>

\* config_from_connection_with_window and create_managed_forward, either of
\* which may fail, the first also because the connection is gone by now.  The
\* forward has a session of its own, so a run that was cancelled or whose
\* connection was closed meanwhile comes up, too.
Connect(r) ==
    /\ \/ At(r, "connect", "serving") /\ UpdateRuntime(r, "running")
       \/ HandleFailure(r, "connect")
    /\ UNCHANGED <<connections, closing, profiles, cancelled, lost, arg, losses>>

\* The branches of the select: the token, and the tick that notices a closed
\* connection or else a session that is lost.
Serve(r) ==
    /\ \/ At(r, "serving", "stopping") /\ r \in cancelled
       \/ At(r, "serving", "stopping") /\ arg[r].connection \notin connections
       \/ At(r, "serving", "dropping") /\ arg[r].connection \in connections /\ r \in lost
    /\ UNCHANGED <<connections, closing, profiles, runtimes, cancelled, lost, arg, losses>>

\* The end of shutdown: the forward listens no more, and the run either ends
\* or has failed.
Shutdown(r) ==
    /\ \/ At(r, "stopping", "done") /\ RemoveRuntimeIfCurrent(r)
       \/ HandleFailure(r, "dropping")
    /\ lost' = lost \ {r}
    /\ UNCHANGED <<connections, closing, profiles, cancelled, arg, losses>>

\* The sleep of handle_failure: a cancelled run ends as it is, another goes
\* round again.
Wait(r) ==
    /\ \/ At(r, "waiting", "done") /\ r \in cancelled
       \/ At(r, "waiting", "begin")
    /\ UNCHANGED <<connections, closing, profiles, runtimes, cancelled, lost, arg, losses>>

\* The SSH session of a forward breaks, or its listener fails.
Lose(r) ==
    /\ pc[r] = "serving" /\ r \notin lost
    /\ losses < MaxLosses
    /\ lost' = lost \union {r}
    /\ losses' = losses + 1
    /\ UNCHANGED <<connections, closing, profiles, runtimes, cancelled, pc, arg>>

-----------------------------------------------------------------------------

\* What a thread does once it has begun.
CallStep(c) == StartReplace(c) \/ StartInsert(c) \/ StopChanged(c) \/ Erase(c)

RunStep(r) ==
    Begin(r) \/ Connect(r) \/ Serve(r) \/ Shutdown(r) \/ Wait(r)

Next ==
    \/ \E c \in Calls : \/ Start(c) \/ Stop(c) \/ Save(c) \/ Delete(c)
                        \/ CallStep(c) \/ RunStep(c) \/ Lose(c)
    \/ \E k \in Connections : CloseConnection(k) \/ CloseForwards(k)

Spec == Init /\ [][Next]_vars

\* A call, a task and a close that have begun go on: nothing they wait for is
\* without a timeout.  Nobody has to begin a call or to close a connection.
FairSpec ==
    /\ Spec
    /\ \A c \in Calls : WF_vars(CallStep(c)) /\ WF_vars(RunStep(c))
    /\ \A k \in Connections : WF_vars(CloseForwards(k))

-----------------------------------------------------------------------------
(* Properties *)

\* A run that has not ended and was not cancelled holds the entry of its
\* profile.  Only what is in the map can be stopped, replaced or closed, and a
\* profile has one entry: so it has one forward, and stop means stop.  It is
\* about stop_runtime and the insertion of start_profile, two lock sections.
RunsAreListed ==
    \A r \in Calls : pc[r] \in RunPlaces /\ r \notin cancelled => Current(arg[r].profile, r)

\* What the window shows of a forward is so: an entry belongs to a run of this
\* profile and connection that was not cancelled, it says "error" exactly when
\* that run has given up, and "running" only from the time the tunnel is open
\* until its shutdown.
StatusIsTrue ==
    \A p \in Profiles : runtimes[p] # None =>
        LET r == runtimes[p].run
        IN /\ arg[r] # None /\ arg[r].profile = p
           /\ arg[r].connection = runtimes[p].connection
           /\ r \notin cancelled
           /\ pc[r] \in RunPlaces \union {"done"}
           /\ runtimes[p].status = "error" <=> pc[r] = "done"
           /\ runtimes[p].status = "running" =>
                pc[r] \in {"serving", "stopping", "dropping"}

\* A forward in the map is one of a stored profile and uses its settings, but
\* for the time between the two sections of a save.  It is about the copy of
\* the profile that a run keeps while save and delete rewrite the file.
RunsMatchProfiles ==
    \A p \in Profiles : runtimes[p] # None /\ ~Calling(p, {"changed"}) =>
        arg[runtimes[p].run].settings = profiles[p]

\* No run and no entry belongs to connection k.
Left(k) ==
    /\ \A p \in Profiles : runtimes[p] # None => runtimes[p].connection # k
    /\ \A c \in Calls : pc[c] \in RunPlaces => arg[c].connection # k

\* Runs that nobody wants any more end for good: those that were cancelled,
\* whether they connect, serve or sleep before an attempt, and those of a closed
\* connection, even if their start found it open and entered them after
\* close_for_connection (docs/ssh-architecture.md:79, "cancelled together when
\* the connection closes").
UnwantedRunsEnd ==
    <>[](/\ \A r \in cancelled : pc[r] = "done"
         /\ \A k \in Connections \ connections : Left(k))

================================================================================
