----------------------------- MODULE SshSessions -----------------------------
(***************************************************************************)
(* The sessions of one open SSH connection: the pool of authenticated      *)
(* transports that terminals and SFTP share (ssh_transport_pool.rs), the   *)
(* shells of one terminal from start to exit (terminal.rs), and the close  *)
(* of the connection under all of them (connection.rs).                    *)
(*                                                                         *)
(* A client is one call that wants a channel: a start of the terminal or   *)
(* an SFTP session.  It finds the connection, reserves a lease on a slot   *)
(* of the pool, waits for the slot's lock to have the transport connected, *)
(* waits for it again to open its channel, and keeps the lease until its   *)
(* shell or its SFTP session is over.  The slot's lock is a tokio Mutex,   *)
(* which serves its waiters in the order they asked; queue[s] is that      *)
(* line, its head the holder.                                              *)
(***************************************************************************)
EXTENDS Integers, FiniteSets, Sequences

CONSTANTS
    Starts,       \* calls of start_terminal, all for the same terminal id
    Browses,      \* SFTP sessions
    MaxLeases,    \* MAX_CHANNEL_LEASES_PER_TRANSPORT
    MaxDrops,     \* how often the server or the network drops a transport
    StaleLookup,  \* TRUE: the connection may be closed between a client's
                  \* lookup of it and its place in the slot's line
    ShellsExitEarly, \* TRUE: a shell may end before its start has entered it
                     \* into the map of terminals
    None

ASSUME ClientsAssumption ==
    /\ IsFiniteSet(Starts) /\ IsFiniteSet(Browses)
    /\ Starts \intersect Browses = {}
    /\ None \notin Starts \union Browses
ASSUME BoundsAssumption == MaxLeases \in Nat \ {0} /\ MaxDrops \in Nat
ASSUME FlagsAssumption == StaleLookup \in BOOLEAN /\ ShellsExitEarly \in BOOLEAN

Clients == Starts \union Browses

\* A slot is named by the order of its creation; each client creates at most one.
Slots == 1 .. Cardinality(Clients)

\* The name under which the task of invalidate stands in a slot's line.
Disconnector == None

VARIABLES
    connection,  \* the entry in state.connections: "open" or "closed"
    closer,      \* how far close_connection_by_id has come
    pool,        \* the slots of this connection in SshTransportPool.slots
    made,        \* how many slots were created
    session,     \* slot -> "none", "up" or "dead" (handle().is_closed())
    queue,       \* slot -> who waits for its session lock, holder first
    leases,      \* slot -> lease_count
    doomed,      \* slot -> its disconnect task: "no", "spawned", "asked", "done"
    at,          \* client -> where its call is
    lease,       \* client -> the slot it has a lease on, 0 when none
    channel,     \* client -> "none", "open" or "closed"
    entry,       \* state.terminals: whose session the terminal's key holds
    task,        \* start -> its spawned task
    told,        \* starts whose TerminalSession was closed: Close is sent, abort asked for
    drops

pooled == <<pool, made, session, queue, leases, doomed>>
calls == <<at, lease, channel>>
shells == <<entry, task, told>>
vars == <<connection, closer, pooled, calls, shells, drops>>

Init ==
    /\ connection = "open" /\ closer = "idle"
    /\ pool = {} /\ made = 0
    /\ session = [s \in Slots |-> "none"]
    /\ queue = [s \in Slots |-> << >>]
    /\ leases = [s \in Slots |-> 0]
    /\ doomed = [s \in Slots |-> "no"]
    /\ at = [c \in Clients |-> "new"]
    /\ lease = [c \in Clients |-> 0]
    /\ channel = [c \in Clients |-> "none"]
    /\ entry = None
    /\ task = [c \in Starts |-> "none"]
    /\ told = {}
    /\ drops = 0

-----------------------------------------------------------------------------
(* Helpers *)

Holds(s, w) == queue[s] # << >> /\ Head(queue[s]) = w

Asked(s, w) == [queue EXCEPT ![s] = Append(@, w)]

Served(s) == [queue EXCEPT ![s] = Tail(@)]

\* SshTransportLease::drop for the client c.
DropLease(c) ==
    /\ leases' = [leases EXCEPT ![lease[c]] = @ - 1]
    /\ lease' = [lease EXCEPT ![c] = 0]

Spare(s) == leases[s] < MaxLeases

\* The channels open on the slot s, once its transport is gone.
Cut(s) == [c \in Clients |->
             IF lease[c] = s /\ channel[c] = "open" THEN "closed" ELSE channel[c]]

\* Dropping or closing the TerminalSession of the start c, or of nobody.
Tell(c) == told \union ({c} \ {None})

-----------------------------------------------------------------------------
(* A client's way to its channel *)

\* get_connection
Look(c) ==
    /\ at[c] = "new"
    /\ \/ connection = "closed" /\ at' = [at EXCEPT ![c] = "failed"]
       \/ connection = "open" /\ c \in Starts /\ at' = [at EXCEPT ![c] = "found"]
       \/ connection = "open" /\ c \in Browses /\ at' = [at EXCEPT ![c] = "free"]
    /\ UNCHANGED <<connection, closer, pooled, lease, channel, shells, drops>>

\* start_terminal returns at once when the map has the terminal's key.
Check(c) ==
    /\ at[c] = "found"
    /\ at' = [at EXCEPT ![c] = IF entry # None THEN "done" ELSE "free"]
    /\ UNCHANGED <<connection, closer, pooled, lease, channel, shells, drops>>

\* The fewest leases first, and among equals the oldest slot.
Least(s) ==
    /\ s \in pool /\ Spare(s)
    /\ \A o \in pool : Spare(o) => leases[s] < leases[o] \/ (leases[s] = leases[o] /\ s <= o)

\* reserve_slot, under the lock of the pool.
Reserve(c) ==
    /\ at[c] = "free"
    /\ \E s \in Slots :
         /\ \/ Least(s) /\ UNCHANGED <<pool, made>>
            \/ /\ \A o \in pool : ~Spare(o)
               /\ s = made + 1
               /\ pool' = pool \union {s}
               /\ made' = s
         /\ leases' = [leases EXCEPT ![s] = @ + 1]
         /\ lease' = [lease EXCEPT ![c] = s]
    /\ at' = [at EXCEPT ![c] = "leased"]
    /\ UNCHANGED <<connection, closer, session, queue, doomed, channel, shells, drops>>

\* The call of self.session.lock() in ensure_connected and in open_session_channel.
Ask(c) ==
    /\ \/ at[c] = "leased" /\ at' = [at EXCEPT ![c] = "ensuring"]
       \/ at[c] = "ensured" /\ at' = [at EXCEPT ![c] = "opening"]
    /\ queue' = Asked(lease[c], c)
    /\ UNCHANGED <<connection, closer, pool, made, session, leases, doomed,
                   lease, channel, shells, drops>>

\* ensure_connected finds the transport up.
Reuse(c) ==
    /\ at[c] = "ensuring" /\ Holds(lease[c], c)
    /\ session[lease[c]] = "up"
    /\ queue' = Served(lease[c])
    /\ at' = [at EXCEPT ![c] = "ensured"]
    /\ UNCHANGED <<connection, closer, pool, made, session, leases, doomed,
                   lease, channel, shells, drops>>

\* ensure_connected takes a dead transport out and begins to connect, lock held.
Connect(c) ==
    /\ at[c] = "ensuring" /\ Holds(lease[c], c)
    /\ session[lease[c]] # "up"
    /\ session' = [session EXCEPT ![lease[c]] = "none"]
    /\ at' = [at EXCEPT ![c] = "connecting"]
    /\ UNCHANGED <<connection, closer, pool, made, queue, leases, doomed,
                   lease, channel, shells, drops>>

Connected(c) ==
    /\ at[c] = "connecting"
    /\ session' = [session EXCEPT ![lease[c]] = "up"]
    /\ queue' = Served(lease[c])
    /\ at' = [at EXCEPT ![c] = "ensured"]
    /\ UNCHANGED <<connection, closer, pool, made, leases, doomed,
                   lease, channel, shells, drops>>

\* Host key, authentication, a prompt nobody answers or the network: no transport.
Refused(c) ==
    /\ at[c] = "connecting"
    /\ queue' = Served(lease[c])
    /\ DropLease(c)
    /\ at' = [at EXCEPT ![c] = "failed"]
    /\ UNCHANGED <<connection, closer, pool, made, session, doomed,
                   channel, shells, drops>>

\* open_session_channel on a transport that is up.
Open(c) ==
    /\ at[c] = "opening" /\ Holds(lease[c], c)
    /\ session[lease[c]] = "up"
    /\ channel' = [channel EXCEPT ![c] = "open"]
    /\ queue' = Served(lease[c])
    /\ at' = [at EXCEPT ![c] = "opened"]
    /\ UNCHANGED <<connection, closer, pool, made, session, leases, doomed,
                   lease, shells, drops>>

\* The transport is missing or dead, or the server refuses the channel.
NotOpened(c) ==
    /\ at[c] = "opening" /\ Holds(lease[c], c)
    /\ queue' = Served(lease[c])
    /\ DropLease(c)
    /\ at' = [at EXCEPT ![c] = "failed"]
    /\ UNCHANGED <<connection, closer, pool, made, session, doomed,
                   channel, shells, drops>>

-----------------------------------------------------------------------------
(* SFTP sessions and shells *)

\* The subsystem is started and the SFTP handshake done.
Browse(c) ==
    /\ c \in Browses /\ at[c] = "opened" /\ channel[c] = "open"
    /\ at' = [at EXCEPT ![c] = "browsing"]
    /\ UNCHANGED <<connection, closer, pooled, lease, channel, shells, drops>>

\* The OpenSftpSession is dropped, after its work or an error.
EndBrowse(c) ==
    /\ c \in Browses /\ at[c] \in {"opened", "browsing"}
    /\ DropLease(c)
    /\ channel' = [channel EXCEPT ![c] = "closed"]
    /\ at' = [at EXCEPT ![c] = "done"]
    /\ UNCHANGED <<connection, closer, pool, made, session, queue, doomed, shells, drops>>

\* request_pty, request_shell or exec, and the spawning of the terminal's task.
Launch(c) ==
    /\ c \in Starts /\ at[c] = "opened" /\ channel[c] = "open"
    /\ at' = [at EXCEPT ![c] = "spawned"]
    /\ task' = [task EXCEPT ![c] = "running"]
    /\ UNCHANGED <<connection, closer, pooled, lease, channel, entry, told, drops>>

\* The transport was lost before the shell was requested.
NotLaunched(c) ==
    /\ c \in Starts /\ at[c] = "opened" /\ channel[c] = "closed"
    /\ DropLease(c)
    /\ at' = [at EXCEPT ![c] = "failed"]
    /\ UNCHANGED <<connection, closer, pool, made, session, queue, doomed,
                   channel, shells, drops>>

\* Mutant: the session that was replaced is let go without being closed.
EnterLeavingOld(c) ==
    /\ c \in Starts /\ at[c] = "spawned"
    /\ entry' = c
    /\ at' = [at EXCEPT ![c] = "done"]
    /\ UNCHANGED <<connection, closer, pooled, lease, channel, task, told, drops>>

\* start_terminal enters the session and thereby drops the one it replaces.
Enter(c) ==
    /\ c \in Starts /\ at[c] = "spawned"
    /\ told' = Tell(entry)
    /\ entry' = c
    /\ at' = [at EXCEPT ![c] = "done"]
    /\ UNCHANGED <<connection, closer, pooled, lease, channel, task, drops>>

\* Mutant: a read that finds the channel gone is tried again.
LeaveWhenAsked(c) ==
    /\ c \in Starts /\ task[c] = "running"
    /\ ShellsExitEarly \/ at[c] # "spawned"
    /\ channel[c] = "open" \/ c \in told
    /\ task' = [task EXCEPT ![c] = "leaving"]
    /\ channel' = [channel EXCEPT ![c] = "closed"]
    /\ UNCHANGED <<connection, closer, pooled, at, lease, entry, told, drops>>

\* The task leaves its loop: the shell ended, the channel is gone, or Close came.
\* It flushes and reports the exit to the window.
Leave(c) ==
    /\ c \in Starts /\ task[c] = "running"
    /\ ShellsExitEarly \/ at[c] # "spawned"
    /\ task' = [task EXCEPT ![c] = "leaving"]
    /\ channel' = [channel EXCEPT ![c] = "closed"]
    /\ UNCHANGED <<connection, closer, pooled, at, lease, entry, told, drops>>

\* Mutant: the key is left in the map when the shell ends.
RemoveForgotten(c) ==
    /\ c \in Starts /\ task[c] = "leaving"
    /\ task' = [task EXCEPT ![c] = "ended"]
    /\ DropLease(c)
    /\ UNCHANGED <<connection, closer, pool, made, session, queue, doomed,
                   at, channel, entry, told, drops>>

\* The end of the task: it removes the terminal's key, whoever's session is there
\* by now, and drops its lease.
Remove(c) ==
    /\ c \in Starts /\ task[c] = "leaving"
    /\ told' = Tell(entry)
    /\ entry' = None
    /\ task' = [task EXCEPT ![c] = "ended"]
    /\ DropLease(c)
    /\ UNCHANGED <<connection, closer, pool, made, session, queue, doomed,
                   at, channel, drops>>

\* Mutant: the lease is given back only at the end of the task.
AbortKeepsLease(c) ==
    /\ c \in Starts /\ task[c] = "running" /\ c \in told
    /\ task' = [task EXCEPT ![c] = "aborted"]
    /\ channel' = [channel EXCEPT ![c] = "closed"]
    /\ lease' = [lease EXCEPT ![c] = 0]
    /\ UNCHANGED <<connection, closer, pool, made, session, queue, leases, doomed,
                   at, entry, told, drops>>

\* The abort asked for by TerminalSession::close takes effect at an await of the
\* task's loop: no exit is reported and the key is left alone.
Abort(c) ==
    /\ c \in Starts /\ task[c] = "running" /\ c \in told
    /\ task' = [task EXCEPT ![c] = "aborted"]
    /\ channel' = [channel EXCEPT ![c] = "closed"]
    /\ DropLease(c)
    /\ UNCHANGED <<connection, closer, pool, made, session, queue, doomed,
                   at, entry, told, drops>>

-----------------------------------------------------------------------------
(* Closing *)

\* close_terminal
CloseTerminal ==
    /\ entry # None
    /\ told' = Tell(entry)
    /\ entry' = None
    /\ UNCHANGED <<connection, closer, pooled, calls, task, drops>>

\* The clients that found the connection and do not wait for a slot yet.
Underway == {c \in Clients : at[c] \in {"found", "free", "leased"}}

\* close_connection_by_id removes the connection first.
CloseConnection ==
    /\ connection = "open"
    /\ StaleLookup \/ Underway = {}
    /\ connection' = "closed"
    /\ closer' = "removed"
    /\ UNCHANGED <<pooled, calls, shells, drops>>

\* close_terminals_for_connection lists the keys and lets go of the map.
ListTerminals ==
    /\ closer = "removed"
    /\ closer' = IF entry = None THEN "swept" ELSE "listed"
    /\ UNCHANGED <<connection, pooled, calls, shells, drops>>

\* It takes the map again and closes what the listed keys hold by now.
CloseTerminals ==
    /\ closer = "listed"
    /\ closer' = "swept"
    /\ told' = Tell(entry)
    /\ entry' = None
    /\ UNCHANGED <<connection, pooled, calls, task, drops>>

\* Mutant: only the slots that are connected are worth a disconnect.
InvalidateConnected ==
    /\ closer = "swept"
    /\ closer' = "done"
    /\ pool' = {}
    /\ doomed' = [s \in Slots |-> IF s \in pool /\ session[s] = "up"
                                  THEN "spawned" ELSE doomed[s]]
    /\ UNCHANGED <<connection, made, session, queue, leases, calls, shells, drops>>

\* SshTransportPool::invalidate forgets the slots and spawns a disconnect for each.
Invalidate ==
    /\ closer = "swept"
    /\ closer' = "done"
    /\ pool' = {}
    /\ doomed' = [s \in Slots |-> IF s \in pool THEN "spawned" ELSE doomed[s]]
    /\ UNCHANGED <<connection, made, session, queue, leases, calls, shells, drops>>

AskDisconnect(s) ==
    /\ doomed[s] = "spawned"
    /\ queue' = Asked(s, Disconnector)
    /\ doomed' = [doomed EXCEPT ![s] = "asked"]
    /\ UNCHANGED <<connection, closer, pool, made, session, leases, calls, shells, drops>>

\* SshTransportSlot::disconnect, with the lock: whatever is there is disconnected.
Disconnect(s) ==
    /\ doomed[s] = "asked" /\ Holds(s, Disconnector)
    /\ session' = [session EXCEPT ![s] = "none"]
    /\ channel' = Cut(s)
    /\ queue' = Served(s)
    /\ doomed' = [doomed EXCEPT ![s] = "done"]
    /\ UNCHANGED <<connection, closer, pool, made, leases, at, lease, shells, drops>>

\* Environment: the server or the network ends a transport and its channels.
Drop(s) ==
    /\ drops < MaxDrops
    /\ session[s] = "up"
    /\ session' = [session EXCEPT ![s] = "dead"]
    /\ channel' = Cut(s)
    /\ drops' = drops + 1
    /\ UNCHANGED <<connection, closer, pool, made, queue, leases, doomed,
                   at, lease, shells>>

-----------------------------------------------------------------------------

ClientStep(c) ==
    \/ Look(c) \/ Check(c) \/ Reserve(c) \/ Ask(c)
    \/ Reuse(c) \/ Connect(c) \/ Connected(c) \/ Refused(c)
    \/ Open(c) \/ NotOpened(c)
    \/ Browse(c) \/ EndBrowse(c) \/ Launch(c) \/ NotLaunched(c) \/ Enter(c)

TaskStep(c) == Leave(c) \/ Remove(c) \/ Abort(c)

CloseStep == ListTerminals \/ CloseTerminals \/ Invalidate

DisconnectStep(s) == AskDisconnect(s) \/ Disconnect(s)

Next ==
    \/ \E c \in Clients : ClientStep(c) \/ TaskStep(c)
    \/ CloseTerminal \/ CloseConnection \/ CloseStep
    \/ \E s \in Slots : DisconnectStep(s) \/ Drop(s)

Spec == Init /\ [][Next]_vars

(***************************************************************************)
(* Every task the runtime polls goes on, and every exchange with the       *)
(* server ends: connecting has its timeouts, and the requests on a channel *)
(* fail when the transport is gone.  A shell whose channel is closed, or   *)
(* that was told to close, leaves its loop; that its task still reads,     *)
(* though the window may have stopped acknowledging, is TerminalOutput's   *)
(* matter.  A shell may run for ever, an SFTP session may be used for      *)
(* ever, and nobody need close anything.                                   *)
(***************************************************************************)
Fairness ==
    /\ \A c \in Clients :
         /\ WF_vars(Check(c) \/ Reserve(c) \/ Ask(c) \/ Reuse(c) \/ Connect(c))
         /\ WF_vars(Connected(c) \/ Refused(c))
         /\ WF_vars(Open(c) \/ NotOpened(c))
         /\ WF_vars(Launch(c) \/ NotLaunched(c) \/ Enter(c))
         /\ WF_vars(channel[c] = "closed" /\ EndBrowse(c))
         /\ WF_vars((channel[c] = "closed" \/ c \in told) /\ TaskStep(c))
    /\ WF_vars(CloseStep)
    /\ \A s \in Slots : WF_vars(DisconnectStep(s))

FairSpec == Spec /\ Fairness

-----------------------------------------------------------------------------
(* Properties *)

TypeOK ==
    /\ connection \in {"open", "closed"}
    /\ closer \in {"idle", "removed", "listed", "swept", "done"}
    /\ pool \subseteq Slots
    /\ made \in 0 .. Cardinality(Clients)
    /\ session \in [Slots -> {"none", "up", "dead"}]
    /\ queue \in [Slots -> Seq(Clients \union {Disconnector})]
    /\ leases \in [Slots -> 0 .. MaxLeases]
    /\ doomed \in [Slots -> {"no", "spawned", "asked", "done"}]
    /\ at \in [Clients -> {"new", "found", "free", "leased", "ensuring", "connecting",
                           "ensured", "opening", "opened", "spawned", "browsing",
                           "done", "failed"}]
    /\ lease \in [Clients -> Slots \union {0}]
    /\ channel \in [Clients -> {"none", "open", "closed"}]
    /\ entry \in Starts \union {None}
    /\ task \in [Starts -> {"none", "running", "leaving", "ended", "aborted"}]
    /\ told \subseteq Starts
    /\ drops \in 0 .. MaxDrops

\* Every way out of a call or a shell gives its lease back, once: the count of a
\* slot, by which reserve_slot keeps a transport below its channel limit, is the
\* number of clients that have a lease on it, and never above that limit.
LeasesAreHeld ==
    \A s \in Slots : /\ leases[s] = Cardinality({c \in Clients : lease[c] = s})
                     /\ leases[s] <= MaxLeases

\* Clients that want the same slot authenticate once: while one of them connects,
\* no other does, and no channel lives on a transport that is being replaced.
OneHandshake ==
    \A c \in Clients : at[c] = "connecting" =>
        \A d \in Clients \ {c} : lease[d] = lease[c] =>
            at[d] # "connecting" /\ channel[d] # "open"

\* Once invalidate has run, every transport of the connection that is up, or that a
\* client is still connecting or waiting to connect, has a disconnect that comes
\* after it, so none outlives the connection.
ClosedTransportsAreDoomed ==
    closer = "done" =>
        /\ pool = {}
        /\ \A s \in Slots :
             \/ session[s] = "up"
             \/ \E c \in Clients : lease[c] = s /\ at[c] \in {"leased", "ensuring", "connecting"}
             => doomed[s] \in {"spawned", "asked"}

\* What is left of that when the pool is looked up at any moment: no transport that
\* is up after the close has nothing to disconnect it.
NoTransportOutlivesClose ==
    closer = "done" =>
        \A s \in Slots : session[s] = "up" => doomed[s] \in {"spawned", "asked"}

\* A shell that runs and was not told to close can be reached through the map of
\* terminals, or its start is about to enter it there.
ShellsAreReachable ==
    \A c \in Starts : task[c] = "running" /\ c \notin told =>
        entry = c \/ at[c] = "spawned"

\* A terminal in the map has a shell that runs or is just reporting its exit:
\* start_terminal, which takes the key for a running shell, is right to return.
EntriesHaveShells ==
    entry # None => task[entry] \in {"running", "leaving"}

\* A connection that was closed ends: its transports go down, its shells end and
\* every lease is given back.
ClosedConnectionEnds ==
    closer = "removed" ~>
        /\ \A s \in Slots : session[s] # "up" /\ leases[s] = 0
        /\ entry = None
        /\ \A c \in Starts : task[c] \in {"none", "ended", "aborted"}

=============================================================================
