-------------------------- MODULE SshSessionsProofs --------------------------
(***************************************************************************)
(* What holds of the map of terminals and of the counts of leases for any  *)
(* number of starts, SFTP sessions and transports.                         *)
(***************************************************************************)
EXTENDS SshSessions, FiniteSetTheorems, TLAPS

\* The types the proofs need.
ShellTypes ==
    /\ at \in [Clients -> {"new", "found", "free", "leased", "ensuring", "connecting",
                           "ensured", "opening", "opened", "spawned", "browsing",
                           "done", "failed"}]
    /\ task \in [Starts -> {"none", "running", "leaving", "ended", "aborted"}]
    /\ entry \in Starts \union {None}
    /\ told \subseteq Starts

\* A start is entered once, so what was taken out of the map or replaced in it
\* never comes back.
EnteredOnce ==
    /\ \A c \in Starts : entry = c => at[c] = "done" /\ c \notin told
    /\ \A c \in told : at[c] = "done"

\* What a start is about to enter has a running shell.
SpawnedRuns == \A c \in Starts : at[c] = "spawned" => task[c] = "running"

ReachInv == ShellTypes /\ ShellsAreReachable

ShellInv == ShellTypes /\ EnteredOnce /\ SpawnedRuns /\ EntriesHaveShells

\* The steps that leave the terminals alone but may move a client on its way.
Aside(c) ==
    \/ Look(c) \/ Check(c) \/ Reserve(c) \/ Ask(c)
    \/ Reuse(c) \/ Connect(c) \/ Connected(c) \/ Refused(c)
    \/ Open(c) \/ NotOpened(c)
    \/ Browse(c) \/ EndBrowse(c) \/ NotLaunched(c)

\* Such a step moves one client, neither from "spawned" nor to "spawned", and takes
\* nobody from "done".
LEMMA AsideMoves ==
    ASSUME ShellTypes, NEW c \in Clients, Aside(c)
    PROVE  /\ UNCHANGED shells
           /\ at' \in [Clients -> {"new", "found", "free", "leased", "ensuring",
                                   "connecting", "ensured", "opening", "opened",
                                   "spawned", "browsing", "done", "failed"}]
           /\ \A d \in Clients : /\ (at'[d] = "spawned") <=> (at[d] = "spawned")
                                 /\ at[d] = "done" => at'[d] = "done"
<1> USE DEF ShellTypes, shells
<1>1. CASE Look(c)
  BY <1>1 DEF Look
<1>2. CASE Check(c)
  BY <1>2 DEF Check
<1>3. CASE Reserve(c)
  BY <1>3 DEF Reserve
<1>4. CASE Ask(c)
  BY <1>4 DEF Ask
<1>5. CASE Reuse(c)
  BY <1>5 DEF Reuse
<1>6. CASE Connect(c)
  BY <1>6 DEF Connect
<1>7. CASE Connected(c)
  BY <1>7 DEF Connected
<1>8. CASE Refused(c)
  BY <1>8 DEF Refused
<1>9. CASE Open(c)
  BY <1>9 DEF Open
<1>10. CASE NotOpened(c)
  BY <1>10 DEF NotOpened
<1>11. CASE Browse(c)
  BY <1>11 DEF Browse
<1>12. CASE EndBrowse(c)
  BY <1>12 DEF EndBrowse
<1>13. CASE NotLaunched(c)
  BY <1>13 DEF NotLaunched
<1> QED
  BY <1>1, <1>2, <1>3, <1>4, <1>5, <1>6, <1>7, <1>8, <1>9, <1>10, <1>11, <1>12,
     <1>13 DEF Aside

\* The steps after which the clients and the terminals are as they were.
Elsewhere ==
    \/ CloseConnection \/ ListTerminals \/ Invalidate
    \/ \E s \in Slots : AskDisconnect(s) \/ Disconnect(s) \/ Drop(s)
    \/ UNCHANGED vars

LEMMA ElsewhereKeeps ==
    ASSUME Elsewhere
    PROVE  UNCHANGED <<at, shells>>
<1>1. CASE UNCHANGED vars
  BY <1>1 DEF vars, calls
<1>2. CASE CloseConnection \/ ListTerminals \/ Invalidate
  BY <1>2 DEF CloseConnection, ListTerminals, Invalidate, calls
<1>3. CASE \E s \in Slots : AskDisconnect(s) \/ Disconnect(s) \/ Drop(s)
  BY <1>3 DEF AskDisconnect, Disconnect, Drop, calls
<1> QED
  BY <1>1, <1>2, <1>3 DEF Elsewhere

\* Every step is one of these kinds.
LEMMA StepKinds ==
    ASSUME [Next]_vars
    PROVE  \/ \E c \in Clients : \/ Aside(c) \/ Launch(c) \/ Enter(c)
                                 \/ Leave(c) \/ Remove(c) \/ Abort(c)
           \/ CloseTerminal \/ CloseTerminals
           \/ Elsewhere
BY DEF Next, ClientStep, TaskStep, CloseStep, DisconnectStep, Aside, Elsewhere

\* A running shell that was not told to close is in the map, or about to be.
THEOREM RunningShellsAreReachable == Spec => []ShellsAreReachable
<1>1. Init => ReachInv
  BY DEF Init, ReachInv, ShellTypes, ShellsAreReachable, Clients
<1>2. ReachInv /\ [Next]_vars => ReachInv'
  <2> SUFFICES ASSUME ReachInv, [Next]_vars PROVE ReachInv'
    OBVIOUS
  <2> USE ClientsAssumption DEF ReachInv, ShellsAreReachable
  <2>0. Starts \subseteq Clients
    BY DEF Clients
  <2>1. CASE \E c \in Clients : Aside(c)
    BY <2>0, <2>1, AsideMoves DEF ShellTypes, shells
  <2>2. ASSUME NEW c \in Clients, Launch(c) PROVE ReachInv'
    BY <2>0, <2>2 DEF Launch, ShellTypes
  <2>3. ASSUME NEW c \in Clients, Enter(c) PROVE ReachInv'
    BY <2>0, <2>3 DEF Enter, ShellTypes, Tell
  <2>4. ASSUME NEW c \in Clients, Leave(c) PROVE ReachInv'
    BY <2>4 DEF Leave, ShellTypes
  <2>5. ASSUME NEW c \in Clients, Remove(c) PROVE ReachInv'
    BY <2>5 DEF Remove, ShellTypes, Tell
  <2>6. ASSUME NEW c \in Clients, Abort(c) PROVE ReachInv'
    BY <2>6 DEF Abort, ShellTypes
  <2>7. CASE CloseTerminal \/ CloseTerminals
    BY <2>7 DEF CloseTerminal, CloseTerminals, ShellTypes, Tell, calls
  <2>8. CASE Elsewhere
    BY <2>8, ElsewhereKeeps DEF ShellTypes, shells
  <2> QED
    BY <2>1, <2>2, <2>3, <2>4, <2>5, <2>6, <2>7, <2>8, StepKinds
<1>3. ReachInv => ShellsAreReachable
  BY DEF ReachInv
<1> QED
  BY <1>1, <1>2, <1>3, PTL DEF Spec

\* As long as no shell ends before its start has entered it, a terminal in the map
\* has a shell.
THEOREM EnteredTerminalsHaveShells ==
    ~ShellsExitEarly => (Spec => []EntriesHaveShells)
<1> SUFFICES ASSUME ~ShellsExitEarly PROVE Spec => []EntriesHaveShells
  OBVIOUS
<1>1. Init => ShellInv
  BY ClientsAssumption
     DEF Init, ShellInv, ShellTypes, EnteredOnce, SpawnedRuns, EntriesHaveShells, Clients
<1>2. ShellInv /\ [Next]_vars => ShellInv'
  <2> SUFFICES ASSUME ShellInv, [Next]_vars PROVE ShellInv'
    OBVIOUS
  <2> USE ClientsAssumption
      DEF ShellInv, EnteredOnce, SpawnedRuns, EntriesHaveShells
  <2>0. Starts \subseteq Clients
    BY DEF Clients
  <2>1. CASE \E c \in Clients : Aside(c)
    BY <2>0, <2>1, AsideMoves DEF ShellTypes, shells
  <2>2. ASSUME NEW c \in Clients, Launch(c) PROVE ShellInv'
    BY <2>0, <2>2 DEF Launch, ShellTypes
  <2>3. ASSUME NEW c \in Clients, Enter(c) PROVE ShellInv'
    BY <2>0, <2>3 DEF Enter, ShellTypes, Tell, Clients
  <2>4. ASSUME NEW c \in Clients, Leave(c) PROVE ShellInv'
    BY <2>0, <2>4 DEF Leave, ShellTypes
  <2>5. ASSUME NEW c \in Clients, Remove(c) PROVE ShellInv'
    BY <2>0, <2>5 DEF Remove, ShellTypes, Tell
  <2>6. ASSUME NEW c \in Clients, Abort(c) PROVE ShellInv'
    BY <2>0, <2>6 DEF Abort, ShellTypes
  <2>7. CASE CloseTerminal \/ CloseTerminals
    BY <2>0, <2>7 DEF CloseTerminal, CloseTerminals, ShellTypes, Tell, calls
  <2>8. CASE Elsewhere
    BY <2>8, ElsewhereKeeps DEF ShellTypes, shells
  <2> QED
    BY <2>1, <2>2, <2>3, <2>4, <2>5, <2>6, <2>7, <2>8, StepKinds
<1>3. ShellInv => EntriesHaveShells
  BY DEF ShellInv
<1> QED
  BY <1>1, <1>2, <1>3, PTL DEF Spec

-----------------------------------------------------------------------------
(* Leases *)

\* The types the counts need.
LeaseTypes ==
    /\ ShellTypes
    /\ lease \in [Clients -> Slots \union {0}]
    /\ leases \in [Slots -> Nat]
    /\ made \in Nat
    /\ pool \subseteq 1 .. made

Holders(s) == {c \in Clients : lease[c] = s}

CountsAgree == \A s \in Slots : leases[s] = Cardinality(Holders(s))

\* Nobody has a lease on a slot that is not made yet, so the first is within the limit.
CountsBounded ==
    \A s \in Slots : /\ leases[s] <= MaxLeases
                     /\ s > made => leases[s] = 0

\* Where a client has a lease to give back, where it has none, and that a start whose
\* shell runs is past every other way to give it back.
LeaseWhereDue ==
    /\ \A c \in Clients :
         /\ at[c] \in {"new", "found", "free"} => lease[c] = 0
         /\ at[c] \in {"leased", "ensuring", "connecting", "ensured", "opening", "opened",
                       "browsing"} => lease[c] # 0
    /\ \A c \in Starts :
         /\ task[c] \in {"running", "leaving"} => lease[c] # 0
         /\ task[c] # "none" => at[c] \in {"spawned", "done"}
         /\ at[c] # "browsing"

LeaseInv == LeaseTypes /\ CountsAgree /\ CountsBounded /\ LeaseWhereDue

\* Taking a lease adds its client to the slot's holders, and to no other's.
LEMMA TakeLease ==
    ASSUME LeaseInv, NEW c \in Clients, NEW s \in Slots, lease[c] = 0,
           leases' = [leases EXCEPT ![s] = @ + 1], lease' = [lease EXCEPT ![c] = s]
    PROVE  CountsAgree'
<1> USE DEF LeaseInv, LeaseTypes
<1>1. IsFiniteSet(Clients)
  BY ClientsAssumption, FS_Union DEF Clients
<1>2. 0 \notin Slots
  BY DEF Slots
<1>3. Holders(s)' = Holders(s) \union {c} /\ c \notin Holders(s)
  BY <1>2 DEF Holders
<1>4. \A o \in Slots \ {s} : Holders(o)' = Holders(o)
  BY <1>2 DEF Holders
<1>5. IsFiniteSet(Holders(s))
  BY <1>1, FS_Subset DEF Holders
<1>6. Cardinality(Holders(s)') = Cardinality(Holders(s)) + 1
  BY ZenonT(40), <1>3, <1>5, FS_AddElement
<1> QED
  BY <1>4, <1>6 DEF CountsAgree

\* Giving it back takes the client from the holders of the slot, whose count is not zero.
LEMMA GiveLease ==
    ASSUME LeaseInv, NEW c \in Clients, lease[c] # 0, DropLease(c)
    PROVE  /\ lease' \in [Clients -> Slots \union {0}] /\ lease' = [lease EXCEPT ![c] = 0]
           /\ leases' \in [Slots -> Nat]
           /\ CountsAgree'
           /\ made' = made => CountsBounded'
<1> USE DEF LeaseInv, LeaseTypes
<1>0. 0 \notin Slots
  BY DEF Slots
<1> PICK s \in Slots : s = lease[c]
  BY <1>0
<1>1. IsFiniteSet(Clients)
  BY ClientsAssumption, FS_Union DEF Clients
<1>2. s \in Slots /\ 0 \notin Slots
  BY <1>0
<1>3. lease' = [lease EXCEPT ![c] = 0] /\ leases' = [leases EXCEPT ![s] = @ - 1]
  BY DEF DropLease
<1>4. Holders(s)' = Holders(s) \ {c} /\ c \in Holders(s)
  BY <1>2, <1>3 DEF Holders
<1>5. \A o \in Slots \ {s} : Holders(o)' = Holders(o)
  BY <1>2, <1>3 DEF Holders
<1>6. IsFiniteSet(Holders(s))
  BY <1>1, FS_Subset DEF Holders
<1>7. Cardinality(Holders(s)') = Cardinality(Holders(s)) - 1
  BY <1>4, <1>6, FS_RemoveElement
<1>8. Cardinality(Holders(s)) # 0
  BY <1>4, <1>6, FS_EmptySet
<1>9. leases[s] = Cardinality(Holders(s)) /\ leases[s] \in Nat
  BY <1>2 DEF CountsAgree
<1>10. leases' \in [Slots -> Nat] /\ \A o \in Slots : leases'[o] <= leases[o]
  <2>1. leases[s] - 1 \in Nat
    BY <1>8, <1>9
  <2> QED
    BY <1>2, <1>3, <2>1
<1>11. CountsAgree'
  BY <1>2, <1>3, <1>5, <1>7, <1>9 DEF CountsAgree
<1>12. ASSUME made' = made PROVE CountsBounded'
  BY <1>10, <1>12, BoundsAssumption DEF CountsBounded
<1> QED
  BY <1>2, <1>3, <1>10, <1>11, <1>12

\* What a step that touches no lease must respect.
LEMMA LeaseUntouched ==
    ASSUME LeaseInv, UNCHANGED <<lease, leases, made>>, pool' \subseteq pool,
           ShellTypes', LeaseWhereDue'
    PROVE  LeaseInv'
BY DEF LeaseInv, LeaseTypes, CountsAgree, CountsBounded, Holders

LEMMA LeaseInvInductive == (Init => LeaseInv) /\ (LeaseInv /\ [Next]_vars => LeaseInv')
<1>1. Init => LeaseInv
  <2> SUFFICES ASSUME Init PROVE LeaseInv
    OBVIOUS
  <2>1. LeaseTypes /\ LeaseWhereDue
    BY DEF Init, LeaseTypes, ShellTypes, LeaseWhereDue, Clients
  <2>2. \A s \in Slots : Holders(s) = {}
    BY DEF Init, Holders, Slots
  <2>3. CountsAgree
    BY <2>2, FS_EmptySet DEF Init, CountsAgree
  <2>4. CountsBounded
    BY BoundsAssumption DEF Init, CountsBounded
  <2> QED
    BY <2>1, <2>3, <2>4 DEF LeaseInv
<1>2. LeaseInv /\ [Next]_vars => LeaseInv'
  <2> SUFFICES ASSUME LeaseInv, [Next]_vars PROVE LeaseInv'
    OBVIOUS
  <2> USE ClientsAssumption
  <2>0. Starts \subseteq Clients /\ LeaseTypes /\ LeaseWhereDue /\ ShellTypes
    BY DEF Clients, LeaseInv, LeaseTypes
  <2>1. ASSUME NEW c \in Clients, Aside(c) PROVE LeaseInv'
    <3>0. ShellTypes'
      BY <2>0, <2>1, AsideMoves DEF ShellTypes, shells
    <3>1. CASE Look(c) \/ Check(c) \/ Ask(c) \/ Reuse(c) \/ Connect(c) \/ Connected(c)
               \/ Open(c) \/ Browse(c)
      <4>1. UNCHANGED <<lease, leases, made, pool, task>>
        BY <3>1 DEF Look, Check, Ask, Reuse, Connect, Connected, Open, Browse, pooled, shells
      <4>2. LeaseWhereDue'
        BY <2>0, <3>1, <4>1 DEF LeaseWhereDue, ShellTypes, Look, Check, Ask, Reuse, Connect,
           Connected, Open, Browse, Clients
      <4> QED
        BY <3>0, <4>1, <4>2, LeaseUntouched
    <3>2. CASE Reserve(c)
      <4>1. lease[c] = 0
        BY <2>0, <3>2 DEF Reserve, LeaseWhereDue
      <4>2. PICK s \in Slots :
               /\ \/ Least(s) /\ UNCHANGED <<pool, made>>
                  \/ s = made + 1 /\ made' = s /\ pool' = pool \union {s}
               /\ leases' = [leases EXCEPT ![s] = @ + 1]
               /\ lease' = [lease EXCEPT ![c] = s]
        BY <3>2 DEF Reserve
      <4>3. CountsAgree'
        BY <4>1, <4>2, TakeLease
      <4>4. LeaseTypes'
        <5>1. lease' \in [Clients -> Slots \union {0}] /\ leases' \in [Slots -> Nat]
          BY <2>0, <4>2 DEF LeaseTypes
        <5>2. made' \in Nat /\ pool' \subseteq 1 .. made'
          <6>1. CASE UNCHANGED <<pool, made>>
            BY <2>0, <6>1 DEF LeaseTypes
          <6>2. CASE s = made + 1 /\ made' = s /\ pool' = pool \union {s}
            <7>1. made \in Nat /\ pool \subseteq 1 .. made
              BY <2>0 DEF LeaseTypes
            <7>2. 1 .. (made + 1) = (1 .. made) \union {made + 1}
              BY <7>1
            <7> QED
              BY <6>2, <7>1, <7>2
          <6> QED
            BY <4>2, <6>1, <6>2
        <5> QED
          BY <3>0, <5>1, <5>2 DEF LeaseTypes
      <4>5. CountsBounded'
        <5>1. CASE Least(s) /\ UNCHANGED <<pool, made>>
          BY <2>0, <4>2, <5>1, BoundsAssumption
             DEF LeaseInv, LeaseTypes, CountsBounded, Least, Spare, Slots
        <5>2. CASE s = made + 1 /\ made' = s
          BY <2>0, <4>2, <5>2, BoundsAssumption DEF LeaseInv, LeaseTypes, CountsBounded, Slots
        <5> QED
          BY <4>2, <5>1, <5>2
      <4>6. s # 0
        BY DEF Slots
      <4>7. LeaseWhereDue'
        BY <2>0, <3>2, <4>2, <4>6 DEF Reserve, LeaseWhereDue, LeaseTypes, ShellTypes, shells
      <4> QED
        BY <4>3, <4>4, <4>5, <4>7 DEF LeaseInv
    <3>3. CASE Refused(c) \/ NotOpened(c) \/ EndBrowse(c) \/ NotLaunched(c)
      <4>1. lease[c] # 0 /\ DropLease(c) /\ UNCHANGED <<made, pool, task>>
        BY <2>0, <3>3 DEF LeaseWhereDue, Refused, NotOpened, EndBrowse, NotLaunched, shells
      <4>2. LeaseWhereDue'
        BY <2>0, <3>3, <4>1, GiveLease DEF LeaseWhereDue, LeaseTypes, ShellTypes,
           Refused, NotOpened, EndBrowse, NotLaunched
      <4> QED
        BY <2>0, <3>0, <4>1, <4>2, GiveLease DEF LeaseInv, LeaseTypes
    <3> QED
      BY <2>1, <3>1, <3>2, <3>3 DEF Aside
  <2>2. ASSUME NEW c \in Clients, Launch(c) \/ Enter(c) \/ Leave(c) PROVE LeaseInv'
    <3>1. UNCHANGED <<lease, leases, made, pool>>
      BY <2>2 DEF Launch, Enter, Leave, pooled
    <3>2. ShellTypes'
      BY <2>0, <2>2 DEF ShellTypes, Launch, Enter, Leave, Tell
    <3>3. LeaseWhereDue'
      BY <2>0, <2>2, <3>1 DEF ShellTypes, LeaseWhereDue, Launch, Enter, Leave
    <3> QED
      BY <3>1, <3>2, <3>3, LeaseUntouched
  <2>3. ASSUME NEW c \in Clients, Remove(c) \/ Abort(c) PROVE LeaseInv'
    <3>1. lease[c] # 0 /\ DropLease(c) /\ UNCHANGED <<made, pool, at>>
      BY <2>0, <2>3 DEF LeaseWhereDue, Remove, Abort
    <3>2. ShellTypes'
      BY <2>0, <2>3 DEF ShellTypes, Remove, Abort, Tell
    <3>3. LeaseWhereDue'
      BY <2>0, <2>3, <3>1, GiveLease DEF ShellTypes, LeaseTypes, LeaseWhereDue, Remove, Abort
    <3> QED
      BY <2>0, <3>1, <3>2, <3>3, GiveLease DEF LeaseInv, LeaseTypes
  <2>4. CASE CloseTerminal \/ CloseTerminals
    <3>1. UNCHANGED <<lease, leases, made, pool, at, task>>
      BY <2>4 DEF CloseTerminal, CloseTerminals, pooled, calls
    <3>2. ShellTypes'
      BY <2>0, <2>4, <3>1 DEF ShellTypes, CloseTerminal, CloseTerminals, Tell
    <3>3. LeaseWhereDue'
      BY <2>0, <3>1 DEF LeaseWhereDue
    <3> QED
      BY <3>1, <3>2, <3>3, LeaseUntouched
  <2>5. CASE Elsewhere
    <3>1. UNCHANGED <<lease, leases, made>> /\ pool' \subseteq pool
      <4>1. CASE UNCHANGED vars
        BY <4>1 DEF vars, pooled, calls
      <4>2. CASE CloseConnection \/ ListTerminals \/ Invalidate
        BY <4>2 DEF CloseConnection, ListTerminals, Invalidate, pooled, calls
      <4>3. CASE \E s \in Slots : AskDisconnect(s) \/ Disconnect(s) \/ Drop(s)
        BY <4>3 DEF AskDisconnect, Disconnect, Drop, calls
      <4> QED
        BY <2>5, <4>1, <4>2, <4>3 DEF Elsewhere
    <3>2. UNCHANGED <<at, shells>>
      BY <2>5, ElsewhereKeeps
    <3> QED
      BY <2>0, <3>1, <3>2, LeaseUntouched DEF ShellTypes, LeaseWhereDue, shells
  <2> QED
    BY <2>1, <2>2, <2>3, <2>4, <2>5, StepKinds
<1> QED
  BY <1>1, <1>2

\* The count of a slot is the number of clients that have a lease on it, and never above
\* the limit, whatever fails, closes or is aborted in between.
THEOREM LeaseCountsAreTrue == Spec => []LeasesAreHeld
<1>1. LeaseInv => LeasesAreHeld
  BY DEF LeaseInv, CountsAgree, CountsBounded, LeasesAreHeld, Holders
<1> QED
  BY <1>1, LeaseInvInductive, PTL DEF Spec

-----------------------------------------------------------------------------
(* The close of the connection.  After it nobody asks a slot for its first   *)
(* place in line any more, so when invalidate has let its disconnect tasks   *)
(* ask, each stands behind every client that still has the transport         *)
(* connected: what it disconnects is the last transport of its slot.         *)

\* The types this part needs.
CloseTypes ==
    /\ connection \in {"open", "closed"}
    /\ closer \in {"idle", "removed", "listed", "swept", "done"}
    /\ session \in [Slots -> {"none", "up", "dead"}]
    /\ queue \in [Slots -> Seq(Clients \union {Disconnector})]
    /\ doomed \in [Slots -> {"no", "spawned", "asked", "done"}]

Connecting(c) == at[c] \in {"ensuring", "connecting"}

\* A connection closes once, when no client is between its lookup and its place in line.
ClosedForGood ==
    /\ closer = "idle" <=> connection = "open"
    /\ closer # "idle" => Underway = {}

\* invalidate finds every slot that was ever made.
PoolIsMade ==
    /\ closer # "done" => pool = 1 .. made /\ \A s \in Slots : doomed[s] = "no"
    /\ closer = "done" => pool = {} /\ \A s \in Slots : s <= made => doomed[s] # "no"

MadeBeforeUse ==
    /\ \A s \in Slots : s > made => session[s] = "none"
    /\ \A c \in Clients : lease[c] <= made

\* A client that has the transport connected is in its slot's line, at the head of it
\* while it connects.
WaitersInLine ==
    \A c \in Clients :
        /\ Connecting(c) => \E k \in DOMAIN queue[lease[c]] : queue[lease[c]][k] = c
        /\ at[c] = "connecting" => Holds(lease[c], c)

DisconnectsComeLast ==
    \A s \in Slots : \A k \in DOMAIN queue[s] : queue[s][k] = Disconnector =>
        /\ closer = "done"
        /\ \A c \in Clients : Connecting(c) /\ lease[c] = s =>
              \E j \in DOMAIN queue[s] : j < k /\ queue[s][j] = c

DisconnectedStayDown ==
    \A s \in Slots : doomed[s] = "done" =>
        /\ session[s] # "up"
        /\ \A c \in Clients : lease[c] = s => ~Connecting(c)

LineInv == WaitersInLine /\ DisconnectsComeLast

DoomInv == /\ CloseTypes /\ ClosedForGood /\ PoolIsMade /\ MadeBeforeUse
           /\ LineInv /\ DisconnectedStayDown

LEMMA SlotZero == 0 \notin Slots /\ Slots \subseteq Nat
  BY DEF Slots

LEMMA LeaseNumbers == ASSUME LeaseInv, NEW c \in Clients PROVE lease[c] \in Nat
<1>1. lease[c] \in Slots \union {0}
  BY DEF LeaseInv, LeaseTypes
<1>2. \A s \in Slots \union {0} : s \in Nat
  BY DEF Slots
<1> QED
  BY <1>1, <1>2

LEMMA DisconnectorIsNoClient == Disconnector \notin Clients
  BY ClientsAssumption DEF Disconnector, Clients

LEMMA DoomInvInit == Init => DoomInv
<1> SUFFICES ASSUME Init PROVE DoomInv
  OBVIOUS
<1>1. CloseTypes /\ ClosedForGood
  BY DEF Init, CloseTypes, ClosedForGood, Underway
<1>2. PoolIsMade /\ MadeBeforeUse
  BY SlotZero DEF Init, PoolIsMade, MadeBeforeUse
<1>3. WaitersInLine /\ DisconnectedStayDown
  BY DEF Init, WaitersInLine, DisconnectedStayDown, Connecting
<1>4. DisconnectsComeLast
  BY DEF Init, DisconnectsComeLast
<1> QED
  BY <1>1, <1>2, <1>3, <1>4 DEF DoomInv, LineInv

\* Joining the end of a line, and leaving its head.
LEMMA JoinLine ==
    ASSUME NEW S, NEW q \in Seq(S), NEW w \in S
    PROVE  /\ Append(q, w) \in Seq(S)
           /\ DOMAIN q = 1 .. Len(q) /\ Len(q) \in Nat
           /\ DOMAIN Append(q, w) = 1 .. (Len(q) + 1)
           /\ \A k \in DOMAIN q : k \in DOMAIN Append(q, w) /\ Append(q, w)[k] = q[k]
           /\ Append(q, w)[Len(q) + 1] = w
           /\ Append(q, w) # << >>
           /\ q # << >> => Head(Append(q, w)) = Head(q)
<1>1. /\ Append(q, w) \in Seq(S) /\ Append(q, w) # << >>
      /\ DOMAIN q = 1 .. Len(q) /\ Len(q) \in Nat
      /\ DOMAIN Append(q, w) = 1 .. (Len(q) + 1)
      /\ \A k \in DOMAIN q : k \in DOMAIN Append(q, w) /\ Append(q, w)[k] = q[k]
      /\ Append(q, w)[Len(q) + 1] = w
  OBVIOUS
<1>2. ASSUME q # << >> PROVE Head(Append(q, w)) = Head(q)
  <2>1. 1 \in DOMAIN q
    BY <1>1, <1>2
  <2>2. Append(q, w)[1] = q[1]
    BY <1>1, <2>1
  <2>3. Head(q) = q[1] /\ Head(Append(q, w)) = Append(q, w)[1]
    BY <1>1, <1>2
  <2> QED
    BY <2>2, <2>3
<1> QED
  BY <1>1, <1>2

LEMMA LeaveLine ==
    ASSUME NEW S, NEW q \in Seq(S), q # << >>
    PROVE  /\ Tail(q) \in Seq(S)
           /\ DOMAIN q = 1 .. Len(q) /\ Len(q) \in Nat \ {0}
           /\ DOMAIN Tail(q) = 1 .. (Len(q) - 1)
           /\ Head(q) = q[1]
           /\ \A k \in DOMAIN Tail(q) : k + 1 \in DOMAIN q /\ Tail(q)[k] = q[k + 1]
           /\ \A k \in DOMAIN q \ {1} : k - 1 \in DOMAIN Tail(q) /\ Tail(q)[k - 1] = q[k]
  OBVIOUS

\* A client that has its transport connected has a lease on a slot.
LEMMA ConnectingHaveSlots ==
    ASSUME LeaseInv, NEW c \in Clients, Connecting(c)
    PROVE  lease[c] \in Slots
  BY DEF LeaseInv, LeaseTypes, LeaseWhereDue, Connecting

\* No line moves, and nobody begins to connect.
LEMMA LineFrame ==
    ASSUME LineInv, queue' = queue, closer = "done" => closer' = "done",
           \A c \in Clients : Connecting(c)' => Connecting(c) /\ lease'[c] = lease[c],
           \A c \in Clients : at'[c] = "connecting" => at[c] = "connecting"
    PROVE  LineInv'
<1>1. WaitersInLine'
  BY DEF LineInv, WaitersInLine, Holds, Connecting
<1>2. DisconnectsComeLast'
  BY DEF LineInv, DisconnectsComeLast
<1> QED
  BY <1>1, <1>2 DEF LineInv

\* The head w of the line of s goes, and connects no longer.
LEMMA LineServed ==
    ASSUME CloseTypes, LineInv, LeaseInv, NEW s \in Slots, NEW w, Holds(s, w), queue' = Served(s),
           closer' = closer,
           \A c \in Clients : Connecting(c)' => Connecting(c) /\ lease'[c] = lease[c] /\ c # w,
           \A c \in Clients : at'[c] = "connecting" => at[c] = "connecting"
    PROVE  LineInv'
<1> DEFINE q == queue[s]
<1>1. q \in Seq(Clients \union {Disconnector}) /\ q # << >> /\ q[1] = w
  BY LeaveLine DEF CloseTypes, Holds
<1>2. queue'[s] = Tail(q) /\ \A o \in Slots \ {s} : queue'[o] = queue[o]
  BY DEF CloseTypes, Served
<1>3. /\ DOMAIN q = 1 .. Len(q) /\ Len(q) \in Nat \ {0}
      /\ DOMAIN Tail(q) = 1 .. (Len(q) - 1)
      /\ \A k \in DOMAIN Tail(q) : k + 1 \in DOMAIN q /\ Tail(q)[k] = q[k + 1]
      /\ \A k \in DOMAIN q \ {1} : k - 1 \in DOMAIN Tail(q) /\ Tail(q)[k - 1] = q[k]
  BY <1>1, LeaveLine
<1>4. ASSUME NEW c \in Clients, Connecting(c)'
      PROVE  \E k \in DOMAIN queue'[lease'[c]] : queue'[lease'[c]][k] = c
  <2>1. Connecting(c) /\ lease'[c] = lease[c] /\ c # w /\ lease[c] \in Slots
    BY <1>4, ConnectingHaveSlots
  <2>2. PICK k \in DOMAIN queue[lease[c]] : queue[lease[c]][k] = c
    BY <2>1 DEF LineInv, WaitersInLine
  <2>3. CASE lease[c] = s
    <3>1. k \in DOMAIN q \ {1} /\ q[k] = c
      BY <1>1, <2>1, <2>2, <2>3
    <3>2. k - 1 \in DOMAIN Tail(q) /\ Tail(q)[k - 1] = c
      BY <1>3, <3>1
    <3> QED
      BY <1>2, <2>1, <2>3, <3>2
  <2> QED
    BY <1>2, <2>1, <2>2, <2>3
<1>5. ASSUME NEW c \in Clients, at'[c] = "connecting"
      PROVE  Holds(lease[c], c)' /\ lease'[c] = lease[c]
  <2>1. Connecting(c)'
    BY <1>5 DEF Connecting
  <2>2. lease'[c] = lease[c] /\ c # w /\ lease[c] \in Slots /\ Holds(lease[c], c)
    BY <1>5, <2>1, ConnectingHaveSlots DEF LineInv, WaitersInLine
  <2>3. lease[c] # s
    BY <2>2 DEF Holds
  <2>4. queue'[lease[c]] = queue[lease[c]]
    BY <1>2, <2>2, <2>3
  <2> QED
    BY <2>2, <2>4 DEF Holds
<1>6. WaitersInLine'
  <2>1. \A c \in Clients : at'[c] = "connecting" => Holds(lease[c], c)'
    BY <1>5
  <2> QED
    BY <1>4, <1>5, <2>1 DEF WaitersInLine, Holds
<1>7. ASSUME NEW o \in Slots, NEW k \in DOMAIN queue'[o], queue'[o][k] = Disconnector
      PROVE  /\ closer' = "done"
             /\ \A c \in Clients : Connecting(c)' /\ lease'[c] = o =>
                   \E j \in DOMAIN queue'[o] : j < k /\ queue'[o][j] = c
  <2>1. CASE o # s
    <3>1. queue'[o] = queue[o]
      BY <1>2, <2>1
    <3> QED
      BY <1>7, <3>1 DEF LineInv, DisconnectsComeLast
  <2>2. CASE o = s
    <3>0. k \in DOMAIN Tail(q) /\ Tail(q)[k] = Disconnector
      BY <1>2, <1>7, <2>2
    <3>1. k + 1 \in DOMAIN q /\ q[k + 1] = Disconnector /\ k \in Nat
      BY <1>3, <3>0
    <3>2. closer' = "done"
      BY <2>2, <3>1 DEF LineInv, DisconnectsComeLast
    <3>3. ASSUME NEW c \in Clients, Connecting(c)', lease'[c] = o
          PROVE  \E j \in DOMAIN queue'[o] : j < k /\ queue'[o][j] = c
      <4>1. Connecting(c) /\ lease[c] = s /\ c # w
        BY <2>2, <3>3
      <4>2. PICK j \in DOMAIN q : j < k + 1 /\ q[j] = c
        BY <3>1, <4>1 DEF LineInv, DisconnectsComeLast
      <4>3. j # 1 /\ j \in Nat
        BY <1>1, <1>3, <4>1, <4>2
      <4>4. j - 1 \in DOMAIN Tail(q) /\ Tail(q)[j - 1] = c /\ j - 1 < k
        BY <1>3, <3>1, <4>2, <4>3
      <4> QED
        BY <1>2, <2>2, <4>4
    <3> QED
      BY <3>2, <3>3
  <2> QED
    BY <2>1, <2>2
<1>8. DisconnectsComeLast'
  BY <1>7 DEF DisconnectsComeLast
<1> QED
  BY <1>6, <1>8 DEF LineInv

\* w joins the line of s: a client that a connection still knows, or that only wants to
\* open its channel, or the disconnect task.
LEMMA LineJoined ==
    ASSUME CloseTypes, LineInv, LeaseInv, NEW s \in Slots, NEW w \in Clients \union {Disconnector},
           queue' = Asked(s, w), closer' = closer,
           \A c \in Clients : Connecting(c)' => lease'[c] = lease[c] /\ (Connecting(c) \/ (c = w /\ lease[c] = s)),
           \A c \in Clients : at'[c] = "connecting" => at[c] = "connecting",
           w = Disconnector => closer = "done" /\ \A c \in Clients : Connecting(c)' => Connecting(c),
           w # Disconnector /\ Connecting(w)' => closer # "done"
    PROVE  LineInv'
<1> DEFINE q == queue[s]
<1>1. q \in Seq(Clients \union {Disconnector})
  BY DEF CloseTypes
<1>2. queue'[s] = Append(q, w) /\ \A o \in Slots \ {s} : queue'[o] = queue[o]
  BY DEF CloseTypes, Asked
<1>3. /\ DOMAIN q = 1 .. Len(q) /\ Len(q) \in Nat
      /\ DOMAIN Append(q, w) = 1 .. (Len(q) + 1)
      /\ \A k \in DOMAIN q : k \in DOMAIN Append(q, w) /\ Append(q, w)[k] = q[k]
      /\ Append(q, w)[Len(q) + 1] = w
      /\ Append(q, w) # << >>
      /\ q # << >> => Head(Append(q, w)) = Head(q)
  BY <1>1, JoinLine
<1>4. ASSUME NEW c \in Clients, Connecting(c)'
      PROVE  \E k \in DOMAIN queue'[lease'[c]] : queue'[lease'[c]][k] = c
  <2>1. CASE Connecting(c)
    <3>1. lease'[c] = lease[c] /\ lease[c] \in Slots
      BY <1>4, <2>1, ConnectingHaveSlots
    <3>2. PICK k \in DOMAIN queue[lease[c]] : queue[lease[c]][k] = c
      BY <2>1 DEF LineInv, WaitersInLine
    <3>3. k \in DOMAIN queue'[lease[c]] /\ queue'[lease[c]][k] = c
      BY <1>2, <1>3, <3>1, <3>2
    <3> QED
      BY <3>1, <3>3
  <2>2. CASE c = w /\ lease[c] = s
    BY <1>2, <1>3, <1>4, <2>2
  <2> QED
    BY <1>4, <2>1, <2>2
<1>5. ASSUME NEW c \in Clients, at'[c] = "connecting"
      PROVE  queue'[lease'[c]] # << >> /\ Head(queue'[lease'[c]]) = c
  <2>1. Connecting(c) /\ Connecting(c)' /\ at[c] = "connecting"
    BY <1>5 DEF Connecting
  <2>2. lease'[c] = lease[c] /\ lease[c] \in Slots /\ Holds(lease[c], c)
    BY <1>5, <2>1, ConnectingHaveSlots DEF LineInv, WaitersInLine
  <2> QED
    BY <1>2, <1>3, <2>2 DEF Holds
<1>6. WaitersInLine'
  BY <1>4, <1>5 DEF WaitersInLine, Holds
<1>7. ASSUME NEW o \in Slots, NEW k \in DOMAIN queue'[o], queue'[o][k] = Disconnector
      PROVE  /\ closer' = "done"
             /\ \A c \in Clients : Connecting(c)' /\ lease'[c] = o =>
                   \E j \in DOMAIN queue'[o] : j < k /\ queue'[o][j] = c
  <2>0. closer = "done"
    BY <1>2, <1>3, <1>7 DEF LineInv, DisconnectsComeLast
  <2>1. \A c \in Clients : Connecting(c)' => Connecting(c) /\ lease'[c] = lease[c]
    BY <2>0, DisconnectorIsNoClient
  <2>2. CASE k \in DOMAIN queue[o] /\ queue[o][k] = Disconnector
    <3>1. \A j \in DOMAIN queue[o] : j \in DOMAIN queue'[o] /\ queue'[o][j] = queue[o][j]
      BY <1>2, <1>3
    <3>2. \A c \in Clients : Connecting(c) /\ lease[c] = o =>
                   \E j \in DOMAIN queue[o] : j < k /\ queue[o][j] = c
      BY <2>2 DEF LineInv, DisconnectsComeLast
    <3> QED
      BY <2>0, <2>1, <3>1, <3>2
  <2>3. CASE o = s /\ k = Len(q) + 1
    <3>1. ASSUME NEW c \in Clients, Connecting(c)', lease'[c] = o
          PROVE  \E j \in DOMAIN queue'[o] : j < k /\ queue'[o][j] = c
      <4>1. Connecting(c) /\ lease[c] = s
        BY <2>1, <2>3, <3>1
      <4>2. PICK j \in DOMAIN q : q[j] = c
        BY <4>1 DEF LineInv, WaitersInLine
      <4>3. j < k /\ j \in DOMAIN queue'[o] /\ queue'[o][j] = c
        BY <1>2, <1>3, <2>3, <4>2
      <4> QED
        BY <4>3
    <3> QED
      BY <2>0, <3>1
  <2>4. \/ k \in DOMAIN queue[o] /\ queue[o][k] = Disconnector
        \/ o = s /\ k = Len(q) + 1
    BY <1>2, <1>3, <1>7
  <2> QED
    BY <2>2, <2>3, <2>4
<1>8. DisconnectsComeLast'
  BY <1>7 DEF DisconnectsComeLast
<1> QED
  BY <1>6, <1>8 DEF LineInv
\* The steps that move no line, transport or slot, and nobody towards a first place.
Bystander(c) ==
    \/ Look(c) \/ Check(c) \/ Browse(c) \/ EndBrowse(c) \/ NotLaunched(c)
    \/ Launch(c) \/ Enter(c) \/ Leave(c) \/ Remove(c) \/ Abort(c)

LEMMA DoomBystander ==
    ASSUME LeaseInv, DoomInv, NEW c \in Clients, Bystander(c)
    PROVE  DoomInv'
<1> USE DEF LeaseInv, LeaseTypes, ShellTypes
<1>1. UNCHANGED <<connection, closer, pool, made, session, queue, doomed>>
  BY DEF Bystander, Look, Check, Browse, EndBrowse, NotLaunched, Launch, Enter, Leave,
         Remove, Abort, pooled
<1>2. \A d \in Clients : lease'[d] \in {lease[d], 0}
  BY DEF Bystander, Look, Check, Browse, EndBrowse, NotLaunched, Launch, Enter, Leave,
         Remove, Abort, pooled, DropLease, calls
<1>3. \A d \in Clients : /\ Connecting(d)' => Connecting(d) /\ lease'[d] = lease[d]
                         /\ at'[d] = "connecting" => at[d] = "connecting"
  <2>1. CASE Look(c) \/ Check(c) \/ Browse(c) \/ Launch(c) \/ Enter(c)
    BY <2>1 DEF Look, Check, Browse, Launch, Enter, Connecting
  <2>2. CASE EndBrowse(c) \/ NotLaunched(c)
    BY <2>2 DEF EndBrowse, NotLaunched, Connecting, DropLease
  <2>3. CASE Leave(c)
    BY <2>3 DEF Leave, Connecting
  <2>4. CASE Remove(c) \/ Abort(c)
    <3>1. at' = at /\ ~Connecting(c) /\ lease' = [lease EXCEPT ![c] = 0]
      BY <2>4 DEF Remove, Abort, DropLease, Connecting, LeaseWhereDue
    <3> QED
      BY <3>1 DEF Connecting
  <2> QED
    BY <2>1, <2>2, <2>3, <2>4 DEF Bystander
<1>4. closer # "idle" => Underway' \subseteq Underway
  BY DEF Bystander, Look, Check, Browse, EndBrowse, NotLaunched, Launch, Enter, Leave,
         Remove, Abort, Underway, DoomInv, ClosedForGood
<1>5. CloseTypes' /\ ClosedForGood' /\ PoolIsMade'
  BY <1>1, <1>4 DEF DoomInv, CloseTypes, ClosedForGood, PoolIsMade
<1>6. MadeBeforeUse'
  BY <1>1, <1>2 DEF DoomInv, MadeBeforeUse
<1>7. LineInv'
  BY <1>1, <1>3, LineFrame DEF DoomInv
<1>8. DisconnectedStayDown'
  BY <1>1, <1>3 DEF DoomInv, DisconnectedStayDown
<1> QED
  BY <1>5, <1>6, <1>7, <1>8 DEF DoomInv

\* A client that is under way finds the connection not closed yet.
LEMMA UnderwayBeforeClose ==
    ASSUME DoomInv, NEW c \in Clients, at[c] \in {"found", "free", "leased"}
    PROVE  closer = "idle" /\ pool = 1 .. made /\ \A s \in Slots : doomed[s] = "no"
<1>1. c \in Underway
  BY DEF Underway
<1> QED
  BY <1>1 DEF DoomInv, ClosedForGood, PoolIsMade

LEMMA DoomReserve ==
    ASSUME LeaseInv, DoomInv, NEW c \in Clients, Reserve(c)
    PROVE  DoomInv'
<1> USE DEF LeaseInv, LeaseTypes, ShellTypes
<1>1. closer = "idle" /\ pool = 1 .. made /\ \A s \in Slots : doomed[s] = "no"
  BY UnderwayBeforeClose DEF Reserve
<1>2. /\ UNCHANGED <<connection, closer, session, queue, doomed>>
      /\ at' = [at EXCEPT ![c] = "leased"]
  BY DEF Reserve
<1>3. PICK s \in Slots :
         /\ \/ s \in pool /\ UNCHANGED <<pool, made>>
            \/ s = made + 1 /\ pool' = pool \union {s} /\ made' = s
         /\ lease' = [lease EXCEPT ![c] = s]
  BY DEF Reserve, Least
<1>4. made' \in Nat /\ made <= made' /\ s <= made' /\ pool' = 1 .. made'
  <2>1. made \in Nat /\ 1 .. (made + 1) = (1 .. made) \union {made + 1}
    OBVIOUS
  <2>2. CASE s \in pool /\ UNCHANGED <<pool, made>>
    BY <1>1, <2>1, <2>2
  <2>3. CASE s = made + 1 /\ pool' = pool \union {s} /\ made' = s
    BY <1>1, <2>1, <2>3
  <2> QED
    BY <1>3, <2>2, <2>3
<1>5. CloseTypes' /\ ClosedForGood'
  BY <1>1, <1>2 DEF DoomInv, CloseTypes, ClosedForGood
<1>6. PoolIsMade'
  BY <1>1, <1>2, <1>4 DEF PoolIsMade
<1>7. MadeBeforeUse'
  <2>1. \A d \in Clients : lease'[d] <= made'
    <3>1. \A d \in Clients : lease[d] \in Nat /\ lease[d] <= made
      <4>1. \A d \in Clients : lease[d] \in Nat
        BY LeaseNumbers
      <4>2. \A d \in Clients : lease[d] <= made
        BY DEF DoomInv, MadeBeforeUse
      <4> QED
        BY <4>1, <4>2
    <3>2. \A d \in Clients : lease[d] <= made'
      <4>1. made \in Nat /\ made' \in Nat /\ made <= made'
        BY <1>4
      <4> QED
        BY ONLY <3>1, <4>1
    <3> QED
      BY <1>3, <1>4, <3>2
  <2>2. \A o \in Slots : o > made' => o > made
    BY <1>4, SlotZero
  <2> QED
    BY <1>2, <2>1, <2>2 DEF DoomInv, MadeBeforeUse
<1>8. \A d \in Clients : /\ Connecting(d)' => Connecting(d) /\ lease'[d] = lease[d]
                         /\ at'[d] = "connecting" => at[d] = "connecting"
  BY <1>2, <1>3 DEF Connecting
<1>9. LineInv'
  BY <1>2, <1>8, LineFrame DEF DoomInv
<1>10. DisconnectedStayDown'
  BY <1>1, <1>2 DEF DisconnectedStayDown
<1> QED
  BY <1>5, <1>6, <1>7, <1>9, <1>10 DEF DoomInv

LEMMA DoomAsk ==
    ASSUME LeaseInv, DoomInv, NEW c \in Clients, Ask(c)
    PROVE  DoomInv'
<1> USE DEF LeaseInv, LeaseTypes, ShellTypes
<1>0. lease[c] \in Slots
  BY DEF Ask, LeaseWhereDue
<1>1. /\ UNCHANGED <<connection, closer, pool, made, session, doomed, lease>>
      /\ queue' = Asked(lease[c], c)
      /\ \/ at[c] = "leased" /\ at' = [at EXCEPT ![c] = "ensuring"]
         \/ at[c] = "ensured" /\ at' = [at EXCEPT ![c] = "opening"]
  BY DEF Ask
<1>2. at[c] = "leased" => closer = "idle" /\ \A s \in Slots : doomed[s] = "no"
  BY UnderwayBeforeClose
<1>3. queue' \in [Slots -> Seq(Clients \union {Disconnector})]
  BY <1>0, <1>1, JoinLine DEF DoomInv, CloseTypes, Asked
<1>4. CloseTypes' /\ PoolIsMade' /\ MadeBeforeUse'
  BY <1>1, <1>3 DEF DoomInv, CloseTypes, PoolIsMade, MadeBeforeUse
<1>5. ClosedForGood'
  BY <1>1 DEF DoomInv, ClosedForGood, Underway
<1>6. LineInv'
  <2>1. /\ \A d \in Clients : Connecting(d)' => lease'[d] = lease[d]
                                /\ (Connecting(d) \/ (d = c /\ lease[d] = lease[c]))
        /\ \A d \in Clients : at'[d] = "connecting" => at[d] = "connecting"
        /\ c # Disconnector
        /\ Connecting(c)' => at[c] = "leased"
    BY <1>1, DisconnectorIsNoClient DEF Connecting
  <2>2. CloseTypes /\ LineInv /\ c \in Clients \union {Disconnector} /\ closer' = closer
        /\ queue' = Asked(lease[c], c)
    BY <1>1 DEF DoomInv
  <2>3. c # Disconnector /\ Connecting(c)' => closer # "done"
    BY <1>2, <2>1
  <2> QED
    BY <1>0, <2>1, <2>2, <2>3, LineJoined
<1>7. DisconnectedStayDown'
  BY <1>1, <1>2 DEF DoomInv, DisconnectedStayDown, Connecting
<1> QED
  BY <1>4, <1>5, <1>6, <1>7 DEF DoomInv

\* The steps by which the holder of a slot's lock lets go of it.
Done(c) == Reuse(c) \/ Connected(c) \/ Refused(c) \/ Open(c) \/ NotOpened(c)

LEMMA DoomServed ==
    ASSUME LeaseInv, DoomInv, NEW c \in Clients, Done(c)
    PROVE  DoomInv'
<1> USE DEF LeaseInv, LeaseTypes, ShellTypes
<1>0. lease[c] \in Slots
  BY DEF Done, Reuse, Connected, Refused, Open, NotOpened, LeaseWhereDue
<1>1. /\ UNCHANGED <<connection, closer, pool, made, doomed>>
      /\ queue' = Served(lease[c])
  BY DEF Done, Reuse, Connected, Refused, Open, NotOpened
<1>2. Holds(lease[c], c)
  BY DEF Done, Reuse, Connected, Refused, Open, NotOpened, DoomInv, LineInv, WaitersInLine
<1>3. /\ \A d \in Clients \ {c} : at'[d] = at[d] /\ lease'[d] = lease[d]
      /\ at'[c] \in {"ensured", "failed", "opened"} /\ lease'[c] \in {lease[c], 0}
  BY DEF Done, Reuse, Connected, Refused, Open, NotOpened, DropLease
<1>4. \/ session' = session
      \/ Connecting(c) /\ session' = [session EXCEPT ![lease[c]] = "up"]
  BY DEF Done, Reuse, Connected, Refused, Open, NotOpened, Connecting
<1>5. queue' \in [Slots -> Seq(Clients \union {Disconnector})]
  <2>1. queue[lease[c]] \in Seq(Clients \union {Disconnector}) /\ queue[lease[c]] # << >>
    BY <1>0, <1>2 DEF DoomInv, CloseTypes, Holds
  <2>2. Tail(queue[lease[c]]) \in Seq(Clients \union {Disconnector})
    BY <2>1, LeaveLine
  <2> QED
    BY <1>1, <2>2 DEF DoomInv, CloseTypes, Served
<1>6. CloseTypes' /\ PoolIsMade'
  <2>1. session' \in [Slots -> {"none", "up", "dead"}]
    BY <1>4 DEF DoomInv, CloseTypes
  <2> QED
    BY <1>1, <1>5, <2>1 DEF DoomInv, CloseTypes, PoolIsMade
<1>7. ClosedForGood'
  <2>1. Underway' \subseteq Underway
    BY <1>3 DEF Underway
  <2> QED
    BY <1>1, <2>1 DEF DoomInv, ClosedForGood
<1>8. MadeBeforeUse'
  <2>1. \A d \in Clients : lease'[d] <= made'
    BY <1>1, <1>3 DEF DoomInv, MadeBeforeUse
  <2>2. ASSUME NEW s \in Slots, s > made PROVE session'[s] = "none"
    <3>1. lease[c] <= made /\ s # lease[c]
      BY <2>2, <1>0, SlotZero DEF DoomInv, MadeBeforeUse
    <3> QED
      BY <1>4, <2>2, <3>1 DEF DoomInv, MadeBeforeUse, CloseTypes
  <2> QED
    BY <1>1, <2>1, <2>2 DEF MadeBeforeUse
<1>9. /\ \A d \in Clients : Connecting(d)' => Connecting(d) /\ lease'[d] = lease[d] /\ d # c
      /\ \A d \in Clients : at'[d] = "connecting" => at[d] = "connecting"
  BY <1>3 DEF Connecting
<1>10. LineInv'
  BY <1>0, <1>1, <1>2, <1>9, LineServed DEF DoomInv
<1>11. DisconnectedStayDown'
  <2>1. ASSUME NEW s \in Slots, doomed[s] = "done" PROVE session'[s] # "up"
    <3>1. session[s] # "up" /\ (Connecting(c) => lease[c] # s)
      BY <2>1 DEF DoomInv, DisconnectedStayDown
    <3> QED
      BY <1>4, <3>1 DEF DoomInv, CloseTypes
  <2> QED
    BY <1>1, <1>9, <2>1 DEF DoomInv, DisconnectedStayDown
<1> QED
  BY <1>6, <1>7, <1>8, <1>10, <1>11 DEF DoomInv

LEMMA DoomConnect ==
    ASSUME LeaseInv, DoomInv, NEW c \in Clients, Connect(c)
    PROVE  DoomInv'
<1> USE DEF LeaseInv, LeaseTypes, ShellTypes
<1>0. lease[c] \in Slots /\ Holds(lease[c], c)
  BY DEF Connect, LeaseWhereDue
<1>1. /\ UNCHANGED <<connection, closer, pool, made, queue, doomed, lease>>
      /\ at[c] = "ensuring" /\ at' = [at EXCEPT ![c] = "connecting"]
      /\ session' = [session EXCEPT ![lease[c]] = "none"]
  BY DEF Connect
<1>2. CloseTypes' /\ PoolIsMade' /\ MadeBeforeUse'
  BY <1>1 DEF DoomInv, CloseTypes, PoolIsMade, MadeBeforeUse
<1>3. ClosedForGood'
  BY <1>1 DEF DoomInv, ClosedForGood, Underway
<1>4. \A d \in Clients : Connecting(d)' <=> Connecting(d)
  BY <1>1 DEF Connecting
<1>5. WaitersInLine'
  <2>1. \A d \in Clients : at'[d] = "connecting" => d = c \/ at[d] = "connecting"
    BY <1>1
  <2>2. \A d \in Clients : at'[d] = "connecting" => Holds(lease[d], d)
    BY <1>0, <2>1 DEF DoomInv, LineInv, WaitersInLine
  <2> QED
    BY <1>1, <1>4, <2>2 DEF DoomInv, LineInv, WaitersInLine, Holds
<1>6. DisconnectsComeLast'
  BY <1>1, <1>4 DEF DoomInv, LineInv, DisconnectsComeLast
<1>7. DisconnectedStayDown'
  BY <1>1, <1>4 DEF DoomInv, DisconnectedStayDown, CloseTypes
<1> QED
  BY <1>2, <1>3, <1>5, <1>6, <1>7 DEF DoomInv, LineInv
LEMMA DoomClosing ==
    ASSUME ~StaleLookup, LeaseInv, DoomInv,
           CloseTerminal \/ CloseTerminals \/ CloseConnection \/ ListTerminals \/ Invalidate
    PROVE  DoomInv'
<1> USE DEF LeaseInv, LeaseTypes, ShellTypes
<1>0. UNCHANGED <<made, session, queue, at, lease>>
  BY DEF CloseTerminal, CloseTerminals, CloseConnection, ListTerminals, Invalidate,
         pooled, calls
<1>1. MadeBeforeUse'
  BY <1>0 DEF DoomInv, MadeBeforeUse
<1>2. LineInv'
  <2>1. closer = "done" => closer' = "done"
    BY DEF CloseTerminal, CloseTerminals, CloseConnection, ListTerminals, Invalidate,
           DoomInv, ClosedForGood
  <2> QED
    BY <1>0, <2>1, LineFrame DEF DoomInv, Connecting
<1>3. CASE Invalidate
  <2>1. /\ closer = "swept" /\ closer' = "done" /\ connection' = connection /\ pool' = {}
        /\ doomed' = [s \in Slots |-> IF s \in pool THEN "spawned" ELSE doomed[s]]
    BY <1>3 DEF Invalidate
  <2>2. pool = 1 .. made /\ \A s \in Slots : doomed[s] = "no"
    BY <2>1 DEF DoomInv, PoolIsMade
  <2>3. CloseTypes' /\ ClosedForGood'
    BY <1>0, <2>1 DEF DoomInv, CloseTypes, ClosedForGood, Underway
  <2>4. PoolIsMade'
    <3>1. \A s \in Slots : s <= made => s \in pool
      BY <2>2 DEF Slots
    <3> QED
      BY <1>0, <2>1, <3>1 DEF PoolIsMade
  <2>5. DisconnectedStayDown'
    BY <2>1, <2>2 DEF DisconnectedStayDown
  <2> QED
    BY <1>1, <1>2, <2>3, <2>4, <2>5 DEF DoomInv
<1>4. CASE CloseTerminal \/ CloseTerminals \/ CloseConnection \/ ListTerminals
  <2>1. /\ UNCHANGED <<pool, doomed>>
        /\ closer' = "done" <=> closer = "done"
        /\ closer' \in {"idle", "removed", "listed", "swept", "done"}
        /\ connection' \in {"open", "closed"}
        /\ closer' = "idle" <=> connection' = "open"
        /\ closer' # "idle" => closer # "idle" \/ (StaleLookup \/ Underway = {})
    BY <1>4 DEF CloseTerminal, CloseTerminals, CloseConnection, ListTerminals, pooled, calls,
                DoomInv, CloseTypes, ClosedForGood
  <2>2. ~StaleLookup => ClosedForGood'
    BY <1>0, <2>1 DEF DoomInv, ClosedForGood, Underway
  <2>3. CloseTypes' /\ PoolIsMade'
    BY <1>0, <2>1 DEF DoomInv, CloseTypes, PoolIsMade
  <2>4. DisconnectedStayDown'
    BY <1>0, <2>1 DEF DoomInv, DisconnectedStayDown, Connecting
  <2> QED
    BY <1>1, <1>2, <2>2, <2>3, <2>4 DEF DoomInv
<1> QED
  BY <1>3, <1>4

LEMMA DoomDisconnects ==
    ASSUME LeaseInv, DoomInv, NEW s \in Slots, AskDisconnect(s) \/ Disconnect(s) \/ Drop(s)
    PROVE  DoomInv'
<1> USE DEF LeaseInv, LeaseTypes, ShellTypes
<1>0. UNCHANGED <<connection, closer, pool, made, at, lease>>
  BY DEF AskDisconnect, Disconnect, Drop, calls
<1>1. ClosedForGood'
  BY <1>0 DEF DoomInv, ClosedForGood, Underway
<1>2. closer # "done" => doomed[s] = "no"
  BY DEF DoomInv, PoolIsMade
<1>3. \A d \in Clients : Connecting(d)' <=> Connecting(d)
  BY <1>0 DEF Connecting
<1>4. CASE AskDisconnect(s)
  <2>1. /\ doomed[s] = "spawned" /\ doomed' = [doomed EXCEPT ![s] = "asked"]
        /\ queue' = Asked(s, Disconnector) /\ session' = session
    BY <1>4 DEF AskDisconnect
  <2>2. queue' \in [Slots -> Seq(Clients \union {Disconnector})]
    BY <2>1, JoinLine DEF DoomInv, CloseTypes, Asked
  <2>3. CloseTypes'
    BY <1>0, <2>1, <2>2 DEF DoomInv, CloseTypes
  <2>4. PoolIsMade' /\ MadeBeforeUse'
    BY <1>0, <1>2, <2>1 DEF DoomInv, CloseTypes, PoolIsMade, MadeBeforeUse
  <2>5. LineInv'
    <3>1. CloseTypes /\ LineInv /\ closer = "done"
      BY <1>2, <2>1 DEF DoomInv
    <3> QED
      BY <1>0, <1>3, <2>1, <3>1, DisconnectorIsNoClient, LineJoined
  <2>6. DisconnectedStayDown'
    BY <1>0, <1>3, <2>1 DEF DoomInv, CloseTypes, DisconnectedStayDown
  <2> QED
    BY <1>1, <2>3, <2>4, <2>5, <2>6 DEF DoomInv
<1>5. CASE Disconnect(s)
  <2>1. /\ doomed[s] = "asked" /\ doomed' = [doomed EXCEPT ![s] = "done"]
        /\ Holds(s, Disconnector) /\ queue' = Served(s)
        /\ session' = [session EXCEPT ![s] = "none"]
    BY <1>5 DEF Disconnect
  <2>2. queue[s] \in Seq(Clients \union {Disconnector}) /\ queue[s] # << >>
    BY <2>1 DEF DoomInv, CloseTypes, Holds
  <2>3. queue' \in [Slots -> Seq(Clients \union {Disconnector})]
    BY <2>1, <2>2, LeaveLine DEF DoomInv, CloseTypes, Served
  <2>4. CloseTypes'
    BY <1>0, <2>1, <2>3 DEF DoomInv, CloseTypes
  <2>5. PoolIsMade' /\ MadeBeforeUse'
    BY <1>0, <1>2, <2>1 DEF DoomInv, CloseTypes, PoolIsMade, MadeBeforeUse
  <2>6. LineInv'
    <3>1. CloseTypes /\ LineInv
      BY DEF DoomInv
    <3> QED
      BY <1>0, <1>3, <2>1, <3>1, DisconnectorIsNoClient, LineServed
  <2>7. \A c \in Clients : lease[c] = s => ~Connecting(c)
    <3>1. 1 \in DOMAIN queue[s] /\ queue[s][1] = Disconnector /\ DOMAIN queue[s] \subseteq Nat \ {0}
      BY <2>1, <2>2, LeaveLine DEF Holds
    <3>2. \A c \in Clients : Connecting(c) /\ lease[c] = s =>
              \E j \in DOMAIN queue[s] : j < 1 /\ queue[s][j] = c
      BY <3>1 DEF DoomInv, LineInv, DisconnectsComeLast
    <3>3. \A j \in DOMAIN queue[s] : ~(j < 1)
      BY <3>1
    <3> QED
      BY <3>2, <3>3
  <2>8. DisconnectedStayDown'
    BY <1>0, <1>3, <2>1, <2>7 DEF DoomInv, CloseTypes, DisconnectedStayDown
  <2> QED
    BY <1>1, <2>4, <2>5, <2>6, <2>8 DEF DoomInv
<1>6. CASE Drop(s)
  <2>1. /\ session[s] = "up" /\ session' = [session EXCEPT ![s] = "dead"]
        /\ UNCHANGED <<queue, doomed>>
    BY <1>6 DEF Drop
  <2>2. CloseTypes' /\ PoolIsMade'
    BY <1>0, <2>1 DEF DoomInv, CloseTypes, PoolIsMade
  <2>3. MadeBeforeUse'
    <3>1. ~(s > made)
      BY <2>1 DEF DoomInv, MadeBeforeUse
    <3> QED
      BY <1>0, <2>1, <3>1 DEF DoomInv, CloseTypes, MadeBeforeUse
  <2>4. LineInv'
    BY <1>0, <1>3, <2>1, LineFrame DEF DoomInv
  <2>5. DisconnectedStayDown'
    BY <1>0, <1>3, <2>1 DEF DoomInv, CloseTypes, DisconnectedStayDown
  <2> QED
    BY <1>1, <2>2, <2>3, <2>4, <2>5 DEF DoomInv
<1> QED
  BY <1>4, <1>5, <1>6

LEMMA DoomStutter == ASSUME LeaseInv, DoomInv, UNCHANGED vars PROVE DoomInv'
<1>1. UNCHANGED <<connection, closer, pool, made, session, queue, doomed, at, lease>>
  BY DEF vars, pooled, calls
<1>2. CloseTypes' /\ PoolIsMade' /\ MadeBeforeUse'
  BY <1>1 DEF DoomInv, CloseTypes, PoolIsMade, MadeBeforeUse
<1>3. ClosedForGood' /\ DisconnectedStayDown'
  BY <1>1 DEF DoomInv, ClosedForGood, Underway, DisconnectedStayDown, Connecting
<1>4. LineInv'
  BY <1>1, LineFrame DEF DoomInv, Connecting
<1> QED
  BY <1>2, <1>3, <1>4 DEF DoomInv

LEMMA DoomInvNext == ~StaleLookup => (LeaseInv /\ DoomInv /\ [Next]_vars => DoomInv')
<1> SUFFICES ASSUME ~StaleLookup, LeaseInv, DoomInv, [Next]_vars PROVE DoomInv'
  OBVIOUS
<1>1. CASE \E c \in Clients : ClientStep(c) \/ TaskStep(c)
  BY <1>1, DoomBystander, DoomReserve, DoomAsk, DoomServed, DoomConnect
     DEF ClientStep, TaskStep, Bystander, Done
<1>2. CASE CloseTerminal \/ CloseConnection \/ CloseStep
  BY <1>2, DoomClosing DEF CloseStep
<1>3. CASE \E s \in Slots : DisconnectStep(s) \/ Drop(s)
  BY <1>3, DoomDisconnects DEF DisconnectStep
<1>4. CASE UNCHANGED vars
  BY <1>4, DoomStutter
<1> QED
  BY <1>1, <1>2, <1>3, <1>4 DEF Next

\* Provided the connection is not closed between a client's lookup of it and its place
\* in the slot's line, no transport outlives it: whatever is up, is being connected or
\* waits for that when invalidate has run has a disconnect that comes after it.  The
\* README, section 4, shows the client that slips through otherwise.
THEOREM TransportsDieWithTheConnection ==
    ~StaleLookup => (Spec => []ClosedTransportsAreDoomed)
<1> SUFFICES ASSUME ~StaleLookup PROVE Spec => []ClosedTransportsAreDoomed
  OBVIOUS
<1>1. LeaseInv /\ DoomInv => ClosedTransportsAreDoomed
  <2> SUFFICES ASSUME LeaseInv, DoomInv, closer = "done"
               PROVE  /\ pool = {}
                      /\ \A s \in Slots :
                           \/ session[s] = "up"
                           \/ \E c \in Clients : lease[c] = s /\ at[c] \in {"leased", "ensuring", "connecting"}
                           => doomed[s] \in {"spawned", "asked"}
    BY DEF ClosedTransportsAreDoomed
  <2>1. pool = {} /\ \A s \in Slots : s <= made => doomed[s] # "no"
    BY DEF DoomInv, PoolIsMade
  <2>2. \A c \in Clients : at[c] # "leased"
    BY DEF DoomInv, ClosedForGood, Underway
  <2>3. ASSUME NEW s \in Slots,
               \/ session[s] = "up"
               \/ \E c \in Clients : lease[c] = s /\ at[c] \in {"leased", "ensuring", "connecting"}
        PROVE  doomed[s] \in {"spawned", "asked"}
    <3>1. made \in Nat /\ s \in Nat
      BY SlotZero DEF LeaseInv, LeaseTypes
    <3>2. s <= made
      BY <2>3, <3>1 DEF DoomInv, MadeBeforeUse
    <3>3. doomed[s] # "done"
      BY <2>2, <2>3 DEF DoomInv, DisconnectedStayDown, Connecting
    <3> QED
      BY <2>1, <3>2, <3>3 DEF DoomInv, CloseTypes
  <2> QED
    BY <2>1, <2>3
<1>2. LeaseInv /\ DoomInv /\ [Next]_vars => DoomInv'
  BY DoomInvNext
<1> QED
  BY <1>1, <1>2, LeaseInvInductive, DoomInvInit, PTL DEF Spec
-----------------------------------------------------------------------------
(* One handshake at a time, whenever the connection is closed.  Whoever      *)
(* connects a slot's transport is at the head of its line and has found it   *)
(* down; a channel is open only on a transport that is up.                   *)

HandshakeTypes ==
    /\ queue \in [Slots -> Seq(Clients \union {Disconnector})]
    /\ session \in [Slots -> {"none", "up", "dead"}]
    /\ channel \in [Clients -> {"none", "open", "closed"}]

ConnectingHoldLine ==
    \A c \in Clients : at[c] = "connecting" => Holds(lease[c], c) /\ session[lease[c]] # "up"

ChannelsOnTransports ==
    \A c \in Clients : channel[c] = "open" => lease[c] \in Slots /\ session[lease[c]] = "up"

BeforeChannel == {"new", "found", "free", "leased", "ensuring", "connecting", "ensured",
                  "opening"}

ChannelsWhereDue ==
    /\ \A c \in Clients : at[c] \in BeforeChannel => channel[c] = "none"
    /\ \A c \in Starts : task[c] = "leaving" => channel[c] # "open"

HandshakeInv == /\ HandshakeTypes /\ ConnectingHoldLine /\ ChannelsOnTransports
                /\ ChannelsWhereDue

LEMMA HandshakeInvInit == Init => HandshakeInv
  BY DEF Init, HandshakeInv, HandshakeTypes, ConnectingHoldLine, ChannelsOnTransports,
         ChannelsWhereDue, Clients

\* The head of the line of s is served; no client connects there any more.
LEMMA HandshakeServed ==
    ASSUME LeaseInv, HandshakeInv, NEW s \in Slots, NEW w, Holds(s, w), queue' = Served(s)
    PROVE  /\ queue' \in [Slots -> Seq(Clients \union {Disconnector})]
           /\ \A d \in Clients \ {w} : at[d] = "connecting" =>
                 lease[d] \in Slots \ {s} /\ queue'[lease[d]] = queue[lease[d]]
<1>1. queue[s] \in Seq(Clients \union {Disconnector}) /\ queue[s] # << >>
  BY DEF HandshakeInv, HandshakeTypes, Holds
<1>2. Tail(queue[s]) \in Seq(Clients \union {Disconnector})
  BY <1>1, LeaveLine
<1>3. /\ queue' \in [Slots -> Seq(Clients \union {Disconnector})]
      /\ \A o \in Slots \ {s} : queue'[o] = queue[o]
  BY <1>2 DEF HandshakeInv, HandshakeTypes, Served
<1>4. ASSUME NEW d \in Clients \ {w}, at[d] = "connecting" PROVE lease[d] \in Slots \ {s}
  <2>1. lease[d] \in Slots
    BY <1>4, ConnectingHaveSlots DEF Connecting
  <2>2. Holds(lease[d], d)
    BY <1>4 DEF HandshakeInv, ConnectingHoldLine
  <2> QED
    BY <2>1, <2>2 DEF Holds
<1> QED
  BY <1>3, <1>4

LEMMA HandshakeJoined ==
    ASSUME LeaseInv, HandshakeInv, NEW s \in Slots, NEW w \in Clients \union {Disconnector},
           queue' = Asked(s, w)
    PROVE  /\ queue' \in [Slots -> Seq(Clients \union {Disconnector})]
           /\ \A o \in Slots, d \in Clients : Holds(o, d) => Holds(o, d)'
<1> DEFINE q == queue[s]
<1>1. q \in Seq(Clients \union {Disconnector})
  BY DEF HandshakeInv, HandshakeTypes
<1>2. /\ Append(q, w) \in Seq(Clients \union {Disconnector})
      /\ Append(q, w) # << >>
      /\ q # << >> => Head(Append(q, w)) = Head(q)
  <2> HIDE DEF q
  <2> QED
    BY <1>1, JoinLine
<1>3. queue'[s] = Append(q, w) /\ \A o \in Slots \ {s} : queue'[o] = queue[o]
  BY DEF HandshakeInv, HandshakeTypes, Asked
<1>4. queue' \in [Slots -> Seq(Clients \union {Disconnector})]
  BY <1>2 DEF HandshakeInv, HandshakeTypes, Asked
<1> QED
  BY <1>2, <1>3, <1>4 DEF Holds

\* The steps of clients that move neither a line nor a transport.
LEMMA HandshakeBystander ==
    ASSUME LeaseInv, HandshakeInv, NEW c \in Clients, Bystander(c) \/ Reserve(c)
    PROVE  HandshakeInv'
<1> USE DEF LeaseInv, LeaseTypes, ShellTypes
<1>0. HandshakeTypes /\ Starts \subseteq Clients
  BY DEF HandshakeInv, Clients
<1>1. UNCHANGED <<queue, session>>
  BY DEF Bystander, Look, Check, Browse, EndBrowse, NotLaunched, Launch, Enter, Leave,
         Remove, Abort, Reserve, pooled
<1>2. /\ \A d \in Clients \ {c} : at'[d] = at[d] /\ lease'[d] = lease[d] /\ channel'[d] = channel[d]
      /\ channel'[c] \in {channel[c], "closed"}
      /\ channel' \in [Clients -> {"none", "open", "closed"}]
  BY <1>0 DEF Bystander, Look, Check, Browse, EndBrowse, NotLaunched, Launch, Enter, Leave,
         Remove, Abort, Reserve, DropLease, calls, HandshakeTypes
<1>3. /\ at'[c] = "connecting" => at[c] = "connecting" /\ lease'[c] = lease[c]
      /\ channel'[c] = "open" => lease'[c] = lease[c]
      /\ at'[c] \in BeforeChannel => channel'[c] = channel[c] /\ at[c] \in BeforeChannel
  <2>1. CASE Look(c) \/ Check(c) \/ Browse(c) \/ Launch(c) \/ Enter(c)
    BY <2>1 DEF Look, Check, Browse, Launch, Enter, BeforeChannel
  <2>2. CASE EndBrowse(c) \/ NotLaunched(c)
    BY <1>0, <2>2 DEF EndBrowse, NotLaunched, HandshakeTypes, BeforeChannel
  <2>3. CASE Leave(c)
    BY <1>0, <2>3 DEF Leave, HandshakeTypes, BeforeChannel, LeaseWhereDue
  <2>4. CASE Remove(c) \/ Abort(c)
    <3>1. at' = at /\ at[c] \in {"spawned", "done"}
      BY <2>4 DEF Remove, Abort, LeaseWhereDue
    <3>2. channel'[c] # "open"
      BY <1>0, <2>4 DEF Remove, Abort, HandshakeInv, HandshakeTypes, ChannelsWhereDue
    <3> QED
      BY <3>1, <3>2 DEF BeforeChannel
  <2>5. CASE Reserve(c)
    <3>1. at[c] = "free" /\ channel' = channel /\ at' = [at EXCEPT ![c] = "leased"]
      BY <2>5 DEF Reserve
    <3>2. channel[c] = "none"
      BY <3>1 DEF HandshakeInv, ChannelsWhereDue, BeforeChannel
    <3> QED
      BY <3>1, <3>2 DEF BeforeChannel
  <2> QED
    BY <2>1, <2>2, <2>3, <2>4, <2>5 DEF Bystander
<1>4. HandshakeTypes'
  BY <1>0, <1>1, <1>2 DEF HandshakeTypes
<1>5. ConnectingHoldLine'
  BY <1>1, <1>2, <1>3 DEF HandshakeInv, ConnectingHoldLine, Holds
<1>6. ChannelsOnTransports'
  BY <1>1, <1>2, <1>3 DEF HandshakeInv, ChannelsOnTransports
<1>7. ChannelsWhereDue'
  <2>1. \A d \in Starts : task'[d] = "leaving" => task[d] = "leaving" \/ channel'[d] = "closed"
    BY <1>0 DEF Bystander, Look, Check, Browse, EndBrowse, NotLaunched, Launch, Enter, Leave,
       Remove, Abort, Reserve, shells, HandshakeTypes
  <2> QED
    BY <1>0, <1>2, <1>3, <2>1 DEF HandshakeInv, ChannelsWhereDue
<1> QED
  BY <1>4, <1>5, <1>6, <1>7 DEF HandshakeInv

LEMMA HandshakeClient ==
    ASSUME LeaseInv, HandshakeInv, NEW c \in Clients, Ask(c) \/ Connect(c) \/ Done(c)
    PROVE  HandshakeInv'
<1> USE DEF LeaseInv, LeaseTypes, ShellTypes
<1>0. HandshakeTypes /\ lease[c] \in Slots /\ channel[c] = "none"
  BY DEF Ask, Connect, Done, Reuse, Connected, Refused, Open, NotOpened, LeaseWhereDue,
         HandshakeInv, ChannelsWhereDue, BeforeChannel
<1>1. CASE Ask(c)
  <2>1. /\ UNCHANGED <<session, lease, channel, task>> /\ queue' = Asked(lease[c], c)
        /\ \A d \in Clients : /\ at'[d] = "connecting" => at[d] = "connecting"
                              /\ at'[d] \in BeforeChannel <=> at[d] \in BeforeChannel
    BY <1>1 DEF Ask, shells, BeforeChannel
  <2>2. /\ queue' \in [Slots -> Seq(Clients \union {Disconnector})]
        /\ \A o \in Slots, d \in Clients : Holds(o, d) => Holds(o, d)'
    BY <1>0, <2>1, HandshakeJoined
  <2>3. \A d \in Clients : at[d] = "connecting" => lease[d] \in Slots
    BY ConnectingHaveSlots DEF Connecting
  <2>4. ASSUME NEW d \in Clients, at'[d] = "connecting"
        PROVE  Holds(lease[d], d)' /\ session'[lease'[d]] # "up"
    <3>1. Holds(lease[d], d) /\ lease[d] \in Slots /\ session[lease[d]] # "up"
      BY <2>1, <2>3, <2>4 DEF HandshakeInv, ConnectingHoldLine
    <3> QED
      BY <2>1, <2>2, <3>1 DEF Holds
  <2>5. ConnectingHoldLine'
    BY <2>4 DEF ConnectingHoldLine
  <2> QED
    BY <1>0, <2>1, <2>2, <2>5
       DEF HandshakeInv, HandshakeTypes, ChannelsOnTransports, ChannelsWhereDue
<1>2. CASE Connect(c)
  <2>1. /\ UNCHANGED <<queue, lease, channel, task>> /\ at[c] = "ensuring" /\ Holds(lease[c], c)
        /\ at' = [at EXCEPT ![c] = "connecting"]
        /\ session[lease[c]] # "up" /\ session' = [session EXCEPT ![lease[c]] = "none"]
    BY <1>2 DEF Connect, shells
  <2>2. HandshakeTypes'
    BY <1>0, <2>1 DEF HandshakeTypes
  <2>3. ConnectingHoldLine'
    BY <1>0, <2>1 DEF HandshakeInv, HandshakeTypes, ConnectingHoldLine, Holds
  <2>4. ChannelsOnTransports'
    BY <1>0, <2>1 DEF HandshakeInv, HandshakeTypes, ChannelsOnTransports
  <2>5. ChannelsWhereDue'
    BY <1>0, <2>1 DEF HandshakeInv, ChannelsWhereDue, BeforeChannel
  <2> QED
    BY <2>2, <2>3, <2>4, <2>5 DEF HandshakeInv
<1>3. CASE Done(c)
  <2>1. /\ queue' = Served(lease[c]) /\ Holds(lease[c], c) /\ task' = task
        /\ \A d \in Clients \ {c} : at'[d] = at[d] /\ lease'[d] = lease[d] /\ channel'[d] = channel[d]
        /\ at'[c] \in {"ensured", "failed", "opened"}
        /\ session' \in {session, [session EXCEPT ![lease[c]] = "up"]}
    BY <1>0, <1>3 DEF Done, Reuse, Connected, Refused, Open, NotOpened, DropLease, shells,
       HandshakeInv, HandshakeTypes, ConnectingHoldLine
  <2>2. \/ channel' = channel
        \/ /\ channel' = [channel EXCEPT ![c] = "open"] /\ lease' = lease /\ at'[c] = "opened"
           /\ session' = session /\ session[lease[c]] = "up"
    BY <1>3 DEF Done, Reuse, Connected, Refused, Open, NotOpened
  <2>3. /\ queue' \in [Slots -> Seq(Clients \union {Disconnector})]
        /\ \A d \in Clients \ {c} : at[d] = "connecting" =>
              lease[d] \in Slots \ {lease[c]} /\ queue'[lease[d]] = queue[lease[d]]
    BY <1>0, <2>1, HandshakeServed
  <2>4. HandshakeTypes'
    BY <1>0, <2>1, <2>2, <2>3 DEF HandshakeTypes
  <2>5. ConnectingHoldLine'
    <3>1. ASSUME NEW d \in Clients, at'[d] = "connecting"
          PROVE  Holds(lease[d], d)' /\ session'[lease'[d]] # "up"
      <4>1. d # c /\ at[d] = "connecting" /\ lease'[d] = lease[d]
        BY <2>1, <3>1
      <4>2. lease[d] \in Slots \ {lease[c]} /\ queue'[lease[d]] = queue[lease[d]]
        BY <2>3, <4>1
      <4>3. Holds(lease[d], d) /\ session[lease[d]] # "up"
        BY <4>1 DEF HandshakeInv, ConnectingHoldLine
      <4>4. session'[lease[d]] = session[lease[d]]
        BY <1>0, <2>1, <4>2 DEF HandshakeTypes
      <4> QED
        BY <4>1, <4>2, <4>3, <4>4 DEF Holds
    <3> QED
      BY <3>1 DEF ConnectingHoldLine
  <2>6. ChannelsOnTransports'
    <3>1. ASSUME NEW d \in Clients, channel'[d] = "open"
          PROVE  lease'[d] \in Slots /\ session'[lease'[d]] = "up"
      <4>1. CASE d = c
        BY <1>0, <2>2, <3>1, <4>1 DEF HandshakeTypes
      <4>2. CASE d # c
        BY <1>0, <2>1, <3>1, <4>2 DEF HandshakeInv, HandshakeTypes, ChannelsOnTransports
      <4> QED
        BY <4>1, <4>2
    <3> QED
      BY <3>1 DEF ChannelsOnTransports
  <2>7. ChannelsWhereDue'
    <3>1. at'[c] \in BeforeChannel => channel' = channel
      BY <2>2 DEF BeforeChannel
    <3>2. \A d \in Clients : at'[d] \in BeforeChannel => channel'[d] = "none"
      BY <1>0, <2>1, <3>1 DEF HandshakeInv, ChannelsWhereDue
    <3>3. ASSUME NEW d \in Starts, task'[d] = "leaving" PROVE channel'[d] # "open"
      <4>1. at[d] \in {"spawned", "done"} /\ d \in Clients
        BY <2>1, <3>3 DEF LeaseWhereDue, Clients
      <4>2. at[c] \notin {"spawned", "done"}
        BY <1>3 DEF Done, Reuse, Connected, Refused, Open, NotOpened
      <4> QED
        BY <2>1, <3>3, <4>1, <4>2 DEF HandshakeInv, ChannelsWhereDue
    <3> QED
      BY <3>2, <3>3 DEF ChannelsWhereDue
  <2> QED
    BY <2>4, <2>5, <2>6, <2>7 DEF HandshakeInv
<1> QED
  BY <1>1, <1>2, <1>3

LEMMA HandshakeElsewhere ==
    ASSUME LeaseInv, HandshakeInv,
           \/ CloseTerminal \/ CloseConnection \/ CloseStep \/ UNCHANGED vars
           \/ \E s \in Slots : DisconnectStep(s) \/ Drop(s)
    PROVE  HandshakeInv'
<1> USE DEF LeaseInv, LeaseTypes, ShellTypes
<1>0. HandshakeTypes /\ Starts \subseteq Clients
  BY DEF HandshakeInv, Clients
<1>1. CASE CloseTerminal \/ CloseConnection \/ CloseStep \/ UNCHANGED vars
  <2>1. UNCHANGED <<queue, session, channel, at, lease, task>>
    BY <1>1 DEF CloseTerminal, CloseConnection, CloseStep, ListTerminals, CloseTerminals,
                Invalidate, pooled, calls, shells, vars
  <2> QED
    BY <2>1 DEF HandshakeInv, HandshakeTypes, ConnectingHoldLine, Holds, ChannelsOnTransports,
                ChannelsWhereDue
<1>2. ASSUME NEW s \in Slots, AskDisconnect(s) PROVE HandshakeInv'
  <2>1. UNCHANGED <<session, channel, at, lease, task>> /\ queue' = Asked(s, Disconnector)
    BY <1>2 DEF AskDisconnect, calls, shells
  <2>2. /\ queue' \in [Slots -> Seq(Clients \union {Disconnector})]
        /\ \A o \in Slots, d \in Clients : Holds(o, d) => Holds(o, d)'
    BY <2>1, HandshakeJoined
  <2>3. ASSUME NEW d \in Clients, at'[d] = "connecting"
        PROVE  Holds(lease[d], d)' /\ session'[lease'[d]] # "up"
    <3>1. lease[d] \in Slots
      BY <2>1, <2>3, ConnectingHaveSlots DEF Connecting
    <3>2. Holds(lease[d], d) /\ session[lease[d]] # "up"
      BY <2>1, <2>3 DEF HandshakeInv, ConnectingHoldLine
    <3> QED
      BY <2>1, <2>2, <3>1, <3>2 DEF Holds
  <2>4. ConnectingHoldLine'
    BY <2>3 DEF ConnectingHoldLine
  <2> QED
    BY <2>1, <2>2, <2>4 DEF HandshakeInv, HandshakeTypes, ChannelsOnTransports, ChannelsWhereDue
<1>3. ASSUME NEW s \in Slots, Disconnect(s) \/ Drop(s) PROVE HandshakeInv'
  <2>1. /\ UNCHANGED <<at, lease, task>> /\ channel' = Cut(s)
        /\ session' \in {[session EXCEPT ![s] = "none"], [session EXCEPT ![s] = "dead"]}
    BY <1>3 DEF Disconnect, Drop, shells
  <2>2. /\ channel' \in [Clients -> {"none", "open", "closed"}]
        /\ \A d \in Clients : /\ channel'[d] = "open" => channel[d] = "open" /\ lease[d] # s
                              /\ channel[d] = "none" => channel'[d] = "none"
    BY <1>0, <2>1 DEF Cut, HandshakeTypes
  <2>3. /\ queue' \in [Slots -> Seq(Clients \union {Disconnector})]
        /\ \A d \in Clients : at[d] = "connecting" => queue'[lease[d]] = queue[lease[d]]
    <3>1. CASE Disconnect(s)
      BY <3>1, HandshakeServed, DisconnectorIsNoClient DEF Disconnect
    <3>2. CASE Drop(s)
      BY <1>0, <3>2 DEF Drop, HandshakeTypes
    <3> QED
      BY <1>3, <3>1, <3>2
  <2>4. HandshakeTypes'
    BY ZenonT(40), <1>0, <2>1, <2>2, <2>3 DEF HandshakeTypes
  <2>5. ConnectingHoldLine'
    <3>1. ASSUME NEW d \in Clients, at[d] = "connecting" PROVE session'[lease[d]] # "up"
      <4>1. lease[d] \in Slots /\ session[lease[d]] # "up"
        BY <3>1, ConnectingHaveSlots DEF Connecting, HandshakeInv, ConnectingHoldLine
      <4> QED
        BY <1>0, <2>1, <4>1 DEF HandshakeTypes
    <3> QED
      BY <2>1, <2>3, <3>1 DEF HandshakeInv, ConnectingHoldLine, Holds
  <2>6. ChannelsOnTransports'
    BY <1>0, <2>1, <2>2 DEF HandshakeInv, HandshakeTypes, ChannelsOnTransports
  <2>7. ChannelsWhereDue'
    BY <1>0, <2>1, <2>2 DEF HandshakeInv, ChannelsWhereDue
  <2> QED
    BY <2>4, <2>5, <2>6, <2>7 DEF HandshakeInv
<1> QED
  BY <1>1, <1>2, <1>3 DEF DisconnectStep

\* Clients that want the same slot authenticate once, and no channel lives on a transport
\* that is being replaced, whenever clients come, transports drop or the connection closes.
THEOREM OneHandshakeAtATime == Spec => []OneHandshake
<1>1. LeaseInv /\ HandshakeInv /\ [Next]_vars => HandshakeInv'
  BY HandshakeBystander, HandshakeClient, HandshakeElsewhere
     DEF Next, ClientStep, TaskStep, Bystander, Done
<1>2. HandshakeInv => OneHandshake
  BY DEF HandshakeInv, ConnectingHoldLine, ChannelsOnTransports, Holds, OneHandshake
<1> QED
  BY <1>1, <1>2, LeaseInvInductive, HandshakeInvInit, PTL DEF Spec
=============================================================================
