------------------------ MODULE TransferRuntimeProofs ------------------------
(***************************************************************************)
(* Theorems about TransferRuntime, for every set of connections, ids,      *)
(* targets and threads.                                                    *)
(***************************************************************************)
EXTENDS TransferRuntime, TLAPS

-----------------------------------------------------------------------------
(* Where a thread is says what it carries.                                 *)

Ending == {"finishCancel", "finishActive", "recordEnd", "dropCancel",
           "dropActive", "recordTerminal", "endActive", "endCancel", "leaving"}

RunsInPlace ==
  \A r \in Runs : pc[r] \in RunPc \cup {"idle", "done"}

LiveRunsCarryJobs ==
  \A r \in Runs : Live(r) => job[r] \in Jobs /\ ConnOf(r) \in Conns

EndingRunsHaveResults ==
  \A r \in Runs : pc[r] \in Ending => result[r] \in EndStatus

ClosersHaveTargets ==
  \A w \in Closers : pc[w] # "idle" => ConnOf(w) \in Conns

TypeInv ==
  /\ TypeOK
  /\ RunsInPlace
  /\ LiveRunsCarryJobs
  /\ EndingRunsHaveResults
  /\ ClosersHaveTargets

LEMMA TypeInvInit == Init => TypeInv
<1> SUFFICES ASSUME Init PROVE TypeInv
  OBVIOUS
<1>1. TypeOK
  BY ParametersAssumption DEF Init, TypeOK, Threads, CallPc, Entries, NoArg
<1>2. RunsInPlace /\ LiveRunsCarryJobs /\ EndingRunsHaveResults /\ ClosersHaveTargets
  BY DEF Init, Threads, RunsInPlace, LiveRunsCarryJobs, EndingRunsHaveResults,
         ClosersHaveTargets, Live, Ending
<1> QED
  BY <1>1, <1>2 DEF TypeInv

LEMMA TypeInvRun ==
  ASSUME TypeInv, NEW r \in Runs, RunStep(r)
  PROVE  TypeInv'
<1> USE ThreadsDisjoint
    DEF TypeInv, TypeOK, RunsInPlace, LiveRunsCarryJobs, EndingRunsHaveResults,
        ClosersHaveTargets, Live, ConnOf, IdOf, Goto, Ending, Threads, RunPc,
        CallerPc, CallPc, Jobs, Entries, NoEntry, EndStatus, ActiveStatus
<1>1. CASE RecordQueued(r)
  BY <1>1 DEF RecordQueued
<1>2. CASE AcquirePermit(r)
  BY <1>2 DEF AcquirePermit
<1>3. CASE StartJob(r)
  <2>1. /\ \/ Goto(r, "recordTerminal") /\ result' = [result EXCEPT ![r] = "canceled"]
           \/ Goto(r, "starting") /\ result' = result
        /\ UNCHANGED <<connections, resources, deferred, active, cancellations,
                       history, limiter, call, job, arg>>
    BY <1>3 DEF StartJob
  <2>2. pc[r] = "permitted"
    BY <1>3 DEF StartJob
  <2>3. pc' \in [Threads -> RunPc \cup CallerPc \cup {"idle", "done"}]
    BY <2>1
  <2>4. result' \in [Runs -> EndStatus \cup {"none"}]
    BY <2>1
  <2>5. TypeOK'
    BY <2>1, <2>3, <2>4
  <2>6a. RunsInPlace'
    BY <2>1
  <2>6b. ClosersHaveTargets'
    BY <2>1
  <2>7. LiveRunsCarryJobs'
    BY <2>1, <2>2
  <2>8. EndingRunsHaveResults'
    BY <2>1
  <2> QED
    BY <2>5, <2>6a, <2>6b, <2>7, <2>8
<1>4. CASE RegisterActive(r)
  BY <1>4 DEF RegisterActive
<1>5. CASE EmitProgress(r)
  BY <1>5 DEF EmitProgress
<1>6. CASE OpenSession(r)
  BY <1>6 DEF OpenSession
<1>7. CASE CheckCanceled(r)
  BY <1>7 DEF CheckCanceled, Finish
<1>8. CASE Complete(r)
  BY <1>8 DEF Complete, Finish
<1>9. CASE Fail(r)
  BY <1>9 DEF Fail, Finish
<1>10. CASE FinishCancel(r)
  BY <1>10 DEF FinishCancel, ForgetCancellation, At
<1>11. CASE FinishActive(r)
  BY <1>11 DEF FinishActive, ForgetActive, At
<1>12. CASE RecordEnd(r)
  <2>1. result[r] \in EndStatus
    BY <1>12 DEF RecordEnd, At
  <2>2. history' \in [Ids -> ActiveStatus \cup EndStatus \cup {"none"}]
    BY <1>12, <2>1 DEF RecordEnd
  <2>3. \E where \in {"recordTerminal", "dropCancel"} : Goto(r, where)
    BY <1>12 DEF RecordEnd
  <2> QED
    BY <1>12, <2>2, <2>3 DEF RecordEnd, At
<1>13. CASE DropCancel(r)
  BY <1>13 DEF DropCancel, ForgetCancellation, At
<1>14. CASE DropActive(r)
  BY <1>14 DEF DropActive, ForgetActive, At
<1>15. CASE RecordTerminal(r)
  BY <1>15 DEF RecordTerminal, At
<1>16. CASE EndActive(r)
  BY <1>16 DEF EndActive, ForgetActive, At
<1>17. CASE EndCancel(r)
  BY <1>17 DEF EndCancel, ForgetCancellation, At
<1>18. CASE Leave(r)
  BY <1>18 DEF Leave, At, NoArg
<1> QED
  BY <1>1, <1>2, <1>3, <1>4, <1>5, <1>6, <1>7, <1>8, <1>9, <1>10, <1>11, <1>12, <1>13, <1>14, <1>15, <1>16, <1>17, <1>18 DEF RunStep, RunForward

LEMMA TypeInvSubmit ==
  ASSUME TypeInv, SubmitSome
  PROVE  TypeInv'
<1>1. PICK c \in Conns, B \in (SUBSET Runs) \ {{}}, k \in 1..MaxConcurrency :
        \E idOf \in [B -> Ids],
           keyOf \in [B -> {ResourceKey(c, d, t) : d \in Directions, t \in Targets}] :
          Submit(c, B, idOf, keyOf, k)
  BY DEF SubmitSome
<1>2. PICK idOf \in [B -> Ids],
           keyOf \in [B -> {ResourceKey(c, d, t) : d \in Directions, t \in Targets}] :
        Submit(c, B, idOf, keyOf, k)
  BY <1>1
<1> USE ThreadsDisjoint
    DEF TypeInv, TypeOK, RunsInPlace, LiveRunsCarryJobs, EndingRunsHaveResults,
        ClosersHaveTargets, Live, ConnOf, IdOf, Goto, Ending, Threads, RunPc,
        CallerPc, CallPc, Jobs, Entries, NoEntry, EndStatus, ActiveStatus
<1>3. \A r \in B : keyOf[r] \in Keys
  BY DEF Keys
<1>4. job' \in [Runs -> Jobs \cup {NoJob}]
  BY <1>2, <1>3 DEF Submit
<1>5. arg' \in [Threads -> [conn : Conns \cup {NoConn}, ids : SUBSET Ids]]
  BY <1>2 DEF Submit
<1>6. TypeOK'
  BY <1>2, <1>4, <1>5 DEF Submit
<1>7. LiveRunsCarryJobs'
  BY <1>2, <1>3 DEF Submit
<1>8. RunsInPlace' /\ EndingRunsHaveResults'
  BY <1>2 DEF Submit
<1>9. ClosersHaveTargets'
  BY <1>2 DEF Submit
<1> QED
  BY <1>6, <1>7, <1>8, <1>9

LEMMA TypeInvEnqueue ==
  ASSUME TypeInv, NEW B \in SUBSET Runs, EnqueueStep(B)
  PROVE  TypeInv'
<1> USE ThreadsDisjoint
    DEF TypeInv, TypeOK, RunsInPlace, LiveRunsCarryJobs, EndingRunsHaveResults,
        ClosersHaveTargets, Live, ConnOf, IdOf, Goto, Ending, Threads, RunPc,
        CallerPc, CallPc, Jobs, Entries, NoEntry, EndStatus, ActiveStatus
<1>1. CASE RegisterBatch(B)
  <2>1. \A i \in Ids : active'[i] \in Entries
    BY <1>1 DEF RegisterBatch, BatchAt
  <2>2. active' \in [Ids -> Entries]
    BY <1>1, <2>1 DEF RegisterBatch
  <2> QED
    BY <1>1, <2>2 DEF RegisterBatch, BatchAt
<1>2. CASE RefuseBatch(B)
  BY <1>2 DEF RefuseBatch, BatchAt, NoArg
<1>3. CASE SpawnBatch(B)
  <2>1. PICK r \in B :
          limiter' = [limiter EXCEPT ![ConnOf(r)] =
                        IF LimiterHeld(ConnOf(r)) THEN @ ELSE job[r].conc]
    BY <1>3 DEF SpawnBatch
  <2>2. job[r].conc \in 0..MaxConcurrency
    BY <1>3, ParametersAssumption DEF SpawnBatch, BatchAt
  <2>3. limiter' \in [Conns -> 0..MaxConcurrency]
    BY <2>1, <2>2
  <2> QED
    BY <1>3, <2>3 DEF SpawnBatch, BatchAt
<1> QED
  BY <1>1, <1>2, <1>3 DEF EnqueueStep

LEMMA TypeInvClose ==
  ASSUME TypeInv, NEW t \in Threads, CloseStep(t)
  PROVE  TypeInv'
<1> USE ThreadsDisjoint
    DEF TypeInv, TypeOK, RunsInPlace, LiveRunsCarryJobs, EndingRunsHaveResults,
        ClosersHaveTargets, Live, ConnOf, IdOf, Goto, Ending, Threads, RunPc,
        CallerPc, CallPc, Jobs, Entries, NoEntry, EndStatus, ActiveStatus
<1>1. CASE AskDeferred(t)
  BY <1>1 DEF AskDeferred
<1>2. CASE AskActive(t)
  BY <1>2 DEF AskActive
<1>3. CASE Undefer(t)
  BY <1>3 DEF Undefer
<1>4. CASE DropConnection(t)
  BY <1>4 DEF DropConnection
<1>5. CASE GatherActive(t)
  BY <1>5 DEF GatherActive
<1>6. CASE CancelGathered(t)
  BY <1>6 DEF CancelGathered
<1>7. CASE ReleaseResources(t)
  BY <1>7 DEF ReleaseResources
<1> QED
  BY <1>1, <1>2, <1>3, <1>4, <1>5, <1>6, <1>7 DEF CloseStep

LEMMA TypeInvCaller ==
  ASSUME TypeInv,
         \/ \E w \in Closers : CloserStep(w)
         \/ \E x \in Cancelers : CancelerStep(x)
         \/ \E i \in Ids : RemoveTask(i)
  PROVE  TypeInv'
<1> USE ThreadsDisjoint
    DEF TypeInv, TypeOK, RunsInPlace, LiveRunsCarryJobs, EndingRunsHaveResults,
        ClosersHaveTargets, Live, ConnOf, IdOf, Goto, Ending, Threads, RunPc,
        CallerPc, CallPc, Jobs, Entries, NoEntry, EndStatus, ActiveStatus
<1>1. ASSUME NEW w \in Closers, NEW c \in Conns, Disconnect(w, c)
      PROVE  TypeInv'
  BY <1>1 DEF Disconnect
<1>2. ASSUME NEW w \in Closers, NEW c \in Conns, WindowDestroyed(w, c)
      PROVE  TypeInv'
  BY <1>2 DEF WindowDestroyed
<1>3. ASSUME NEW w \in Closers, ReadActive(w)
      PROVE  TypeInv'
  <2>1. /\ \/ Goto(w, "insert") /\ call' = call
           \/ Goto(w, "closing") /\ call' = [call EXCEPT ![w] = "undefer"]
        /\ UNCHANGED <<connections, resources, deferred, active, cancellations,
                       history, limiter, job, result, arg>>
    BY <1>3 DEF ReadActive
  <2>2. pc[w] = "readActive"
    BY <1>3 DEF ReadActive
  <2>3. pc' \in [Threads -> RunPc \cup CallerPc \cup {"idle", "done"}]
    BY <2>1
  <2>4. call' \in [Threads -> CallPc]
    BY <2>1
  <2>5. TypeOK'
    BY <2>1, <2>3, <2>4
  <2>6. \A r \in Runs : pc'[r] = pc[r]
    BY <2>1
  <2>7. RunsInPlace' /\ LiveRunsCarryJobs' /\ EndingRunsHaveResults'
    BY <2>1, <2>6
  <2>8. ClosersHaveTargets'
    BY <2>1, <2>2
  <2> QED
    BY <2>5, <2>7, <2>8
<1>4. ASSUME NEW w \in Closers, InsertDeferred(w)
      PROVE  TypeInv'
  BY <1>4 DEF InsertDeferred
<1>5. ASSUME NEW w \in Closers, Closed(w)
      PROVE  TypeInv'
  BY <1>5 DEF Closed, At
<1>6. ASSUME NEW x \in Cancelers, NEW c \in Conns, CancelRequest(x, c)
      PROVE  TypeInv'
  <2>1. PICK found \in {{i} : i \in Ids} \cup {{i \in Ids : active[i].conn = c}} :
          arg' = [arg EXCEPT ![x] = [conn |-> c, ids |-> found]]
    BY <1>6 DEF CancelRequest
  <2>2. arg' \in [Threads -> [conn : Conns \cup {NoConn}, ids : SUBSET Ids]]
    BY <2>1
  <2>3. \A t \in Threads : t # x => arg'[t] = arg[t]
    BY <2>1
  <2> QED
    BY <1>6, <2>2, <2>3 DEF CancelRequest
<1>7. ASSUME NEW x \in Cancelers, InsertCancellations(x)
      PROVE  TypeInv'
  BY <1>7 DEF InsertCancellations, NoArg
<1>8. ASSUME NEW i \in Ids, RemoveTask(i)
      PROVE  TypeInv'
  BY <1>8 DEF RemoveTask
<1> QED
  BY <1>1, <1>2, <1>3, <1>4, <1>5, <1>6, <1>7, <1>8 DEF CloserStep, CancelerStep

LEMMA TypeInvNext == TypeInv /\ [Next]_vars => TypeInv'
<1> SUFFICES ASSUME TypeInv, [Next]_vars PROVE TypeInv'
  OBVIOUS
<1>1. CASE Next
  <2>1. CASE Rest
    BY <2>1 DEF Rest, vars, TypeInv, TypeOK, RunsInPlace, LiveRunsCarryJobs,
                EndingRunsHaveResults, ClosersHaveTargets, Live, ConnOf
  <2> QED
    BY <1>1, <2>1, TypeInvSubmit, TypeInvEnqueue, TypeInvRun, TypeInvClose,
       TypeInvCaller DEF Next
<1>2. CASE UNCHANGED vars
  BY <1>2 DEF vars, TypeInv, TypeOK, RunsInPlace, LiveRunsCarryJobs,
              EndingRunsHaveResults, ClosersHaveTargets, Live, ConnOf
<1> QED
  BY <1>1, <1>2

\* Every state variable keeps the type the code gives it, and a thread that
\* is under way carries the job, the connection and the result it works on.
THEOREM TypeCorrect == Spec => []TypeOK
<1>1. TypeInv => TypeOK
  BY DEF TypeInv
<1> QED
  BY <1>1, TypeInvInit, TypeInvNext, PTL DEF Spec

-----------------------------------------------------------------------------
(* One target, one writer.  When an id is submitted again only after its   *)
(* last run has left, two live runs have different ids; a registered run   *)
(* then owns its entry of active_transfers, key included, because only a   *)
(* run of the same id touches it; and register_jobs compares with the      *)
(* entries, so two registered runs have different keys.                    *)

IdsUnique ==
  \A r, s \in Runs : r # s /\ Live(r) /\ Live(s) => IdOf(r) # IdOf(s)

EntriesOwned ==
  \A r \in Runs :
    Registered(r) => active[IdOf(r)] = [conn |-> ConnOf(r), key |-> job[r].key]

KeysExclusive ==
  \A r, s \in Runs :
    r # s /\ Registered(r) /\ Registered(s) => job[r].key # job[s].key

LockInv == IdsUnique /\ EntriesOwned /\ KeysExclusive

LEMMA LockInvInit == Init => LockInv
  BY DEF Init, LockInv, IdsUnique, EntriesOwned, KeysExclusive, Live, Registered,
         Threads

LEMMA RegisteredIsLive == \A r \in Runs : Registered(r) => Live(r)
  BY DEF Registered, Live

\* A step that touches neither entries nor the jobs and connections of live
\* runs, and registers nobody, keeps the invariant.
LEMMA LockInvFrame ==
  ASSUME TypeInv, LockInv, active' = active,
         \A r \in Runs : Live(r)' => /\ Live(r) /\ job'[r] = job[r]
                                     /\ ConnOf(r)' = ConnOf(r),
         \A r \in Runs : Registered(r)' => Registered(r)
  PROVE  LockInv'
<1>1. \A r \in Runs : Registered(r)' => Live(r)'
  BY DEF Registered, Live
<1> QED
  BY <1>1 DEF LockInv, IdsUnique, EntriesOwned, KeysExclusive, IdOf

LEMMA LockInvLeave ==
  ASSUME TypeInv, LockInv, NEW r \in Runs, Leave(r)
  PROVE  LockInv'
<1> USE DEF TypeInv, TypeOK, Threads
<1>1. active' = active
  BY DEF Leave
<1>2. \A s \in Runs \ {r} : pc'[s] = pc[s] /\ job'[s] = job[s] /\ arg'[s] = arg[s]
  BY DEF Leave, Goto
<1>3. ~Live(r)' /\ ~Registered(r)'
  BY DEF Leave, Goto, Live, Registered
<1>4. \A s \in Runs : Live(s)' => Live(s) /\ job'[s] = job[s] /\ ConnOf(s)' = ConnOf(s)
  BY <1>2, <1>3 DEF Live, ConnOf
<1>5. \A s \in Runs : Registered(s)' => Registered(s)
  BY <1>2, <1>3 DEF Registered
<1> QED
  BY <1>1, <1>4, <1>5, LockInvFrame

\* Every other step of a run keeps its job and its connection.
LEMMA LockInvRun ==
  ASSUME TypeInv, LockInv, NEW r \in Runs, RunStep(r), ~Leave(r)
  PROVE  LockInv'
<1> USE DEF TypeInv, TypeOK, RunsInPlace, Threads
<1>a. \A s \in Runs : ConnOf(s)' = ConnOf(s)
  BY DEF RunStep, RunForward, ConnOf, RecordQueued, AcquirePermit, StartJob,
         RegisterActive, EmitProgress, OpenSession, CheckCanceled, Complete, Fail,
         Finish, FinishCancel, FinishActive, RecordEnd, DropCancel, DropActive,
         RecordTerminal, EndActive, EndCancel
<1>b. job' = job
  BY DEF RunStep, RunForward, RecordQueued, AcquirePermit, StartJob,
         RegisterActive, EmitProgress, OpenSession, CheckCanceled, Complete, Fail,
         Finish, FinishCancel, FinishActive, RecordEnd, DropCancel, DropActive,
         RecordTerminal, EndActive, EndCancel
<1>1. CASE RegisterActive(r)
  <2>1. active[IdOf(r)] = [conn |-> ConnOf(r), key |-> job[r].key]
    BY <1>1 DEF RegisterActive, LockInv, EntriesOwned, Registered
  <2>2. active' = active
    BY <1>1, <2>1 DEF RegisterActive
  <2>3. \A s \in Runs : (Live(s)' => Live(s)) /\ (Registered(s)' => Registered(s))
    BY <1>1 DEF RegisterActive, Goto, Live, Registered
  <2> QED
    BY <1>a, <1>b, <2>2, <2>3, LockInvFrame
<1>2. CASE FinishActive(r) \/ DropActive(r) \/ EndActive(r)
  <2>1. active' = [active EXCEPT ![IdOf(r)] = NoEntry]
    BY <1>2 DEF FinishActive, DropActive, EndActive, ForgetActive
  <2>2. \A s \in Runs : (Live(s)' => Live(s)) /\ (Registered(s)' => Registered(s) /\ s # r)
    BY <1>2 DEF FinishActive, DropActive, EndActive, ForgetActive, Goto, Live,
                Registered, At
  <2>3. Live(r)
    BY <1>2 DEF FinishActive, DropActive, EndActive, ForgetActive, Live, At
  <2>4. \A s \in Runs : Registered(s)' => IdOf(s) # IdOf(r)
    BY <2>2, <2>3, RegisteredIsLive DEF LockInv, IdsUnique
  <2>5. EntriesOwned'
    BY <1>a, <1>b, <2>1, <2>2, <2>4 DEF LockInv, EntriesOwned, IdOf
  <2> QED
    BY <1>a, <1>b, <2>2, <2>5 DEF LockInv, IdsUnique, KeysExclusive, IdOf
<1>3. CASE ~RegisterActive(r) /\ ~FinishActive(r) /\ ~DropActive(r) /\ ~EndActive(r)
  <2>1. active' = active
    BY <1>3 DEF RunStep, RunForward, RecordQueued, AcquirePermit, StartJob,
         EmitProgress, OpenSession, CheckCanceled, Complete, Fail,
         Finish, FinishCancel, RecordEnd, DropCancel, RecordTerminal, EndCancel
  <2>2. \A s \in Runs : (Live(s)' => Live(s)) /\ (Registered(s)' => Registered(s))
    BY <1>3 DEF RunStep, RunForward, RecordQueued, AcquirePermit, StartJob,
         EmitProgress, OpenSession, CheckCanceled, Complete, Fail, Finish,
         FinishCancel, ForgetCancellation, At, RecordEnd, DropCancel,
         RecordTerminal, EndCancel, Goto, Live, Registered
  <2> QED
    BY <1>a, <1>b, <2>1, <2>2, LockInvFrame
<1> QED
  BY <1>1, <1>2, <1>3

LEMMA LockInvSubmit ==
  ASSUME TypeInv, LockInv, ~RetryWhileEnding,
         NEW c \in Conns, NEW B \in SUBSET Runs, NEW idOf, NEW keyOf, NEW k,
         Submit(c, B, idOf, keyOf, k)
  PROVE  LockInv'
<1>1. \A r \in B : ~Live(r) /\ IdOf(r)' = idOf[r] /\ ~Registered(r)'
  BY DEF Submit, Live, IdOf, Registered, Threads
<1>2. \A r \in Runs \ B : /\ Live(r)' = Live(r) /\ IdOf(r)' = IdOf(r)
                          /\ Registered(r)' = Registered(r)
                          /\ ConnOf(r)' = ConnOf(r) /\ job'[r] = job[r]
  BY DEF Submit, Live, IdOf, Registered, ConnOf, Threads
<1>3. \A r \in B, s \in Runs \ B : Live(s) => IdOf(s) # idOf[r]
  BY DEF Submit, MaySubmit
<1>4. \A r, s \in B : r # s => idOf[r] # idOf[s]
  BY DEF Submit
<1>5. IdsUnique'
  BY <1>1, <1>2, <1>3, <1>4 DEF LockInv, IdsUnique
<1>6. EntriesOwned'
  BY <1>1, <1>2 DEF LockInv, EntriesOwned, Submit
<1>7. KeysExclusive'
  BY <1>1, <1>2 DEF LockInv, KeysExclusive
<1> QED
  BY <1>5, <1>6, <1>7 DEF LockInv

LEMMA LockInvEnqueue ==
  ASSUME TypeInv, LockInv, NEW B \in SUBSET Runs, EnqueueStep(B)
  PROVE  LockInv'
<1> USE DEF TypeInv, TypeOK, Threads
<1>1. CASE RegisterBatch(B)
  <2>1. /\ job' = job /\ \A r \in Runs : ConnOf(r)' = ConnOf(r)
        /\ \A r \in Runs : Live(r)' => Live(r)
        /\ \A r \in Runs : Registered(r)' => Registered(r) \/ r \in B
        /\ \A r \in B : Live(r)
    BY <1>1 DEF RegisterBatch, BatchAt, Live, Registered, ConnOf
  <2>2. IdsUnique'
    BY <2>1 DEF LockInv, IdsUnique, IdOf
  <2>3. \A r, s \in B : IdOf(r) = IdOf(s) => r = s
    BY <2>1 DEF LockInv, IdsUnique
  <2>4. \A r \in B : IdOf(r) \in Ids
    BY <2>1 DEF LiveRunsCarryJobs, IdOf, Jobs
  <2>5. \A r \in B : active'[IdOf(r)] = [conn |-> ConnOf(r), key |-> job[r].key]
    BY <1>1, <2>3, <2>4 DEF RegisterBatch
  <2>6. \A r \in Runs \ B : Registered(r) =>
          /\ active[IdOf(r)] = [conn |-> ConnOf(r), key |-> job[r].key]
          /\ IdOf(r) \in Ids
    BY RegisteredIsLive DEF LockInv, EntriesOwned, LiveRunsCarryJobs, IdOf, Jobs
  <2>7. \A r \in Runs \ B, s \in B : Registered(r) => IdOf(r) # IdOf(s)
    BY <2>1, RegisteredIsLive DEF LockInv, IdsUnique
  <2>8. \A r \in Runs \ B : Registered(r) => active'[IdOf(r)] = active[IdOf(r)]
    BY <1>1, <2>6, <2>7 DEF RegisterBatch
  <2>9. EntriesOwned'
    BY <2>1, <2>5, <2>6, <2>8 DEF EntriesOwned, IdOf
  <2>10. \A r \in Runs \ B, s \in B : Registered(r) => job[r].key # job[s].key
    <3> SUFFICES ASSUME NEW r \in Runs \ B, NEW s \in B, Registered(r)
                 PROVE  job[r].key # job[s].key
      OBVIOUS
    <3>a. r \in Runs \ B /\ Registered(r)
      OBVIOUS
    <3>0. /\ active[IdOf(r)] = [conn |-> ConnOf(r), key |-> job[r].key]
          /\ IdOf(r) \in Ids
      BY ONLY <2>6, <3>a
    <3>1. active[IdOf(r)].key = job[r].key /\ IdOf(r) \in Ids
      BY ONLY <3>0
    <3>2. \A i \in Ids : active[i].key # job[s].key
      BY <1>1 DEF RegisterBatch, Refused
    <3> QED
      BY <3>1, <3>2
  <2>11. \A r, s \in B : r # s => job[r].key # job[s].key
    BY <1>1 DEF RegisterBatch, Refused
  <2>12. KeysExclusive'
    BY <2>1, <2>10, <2>11 DEF LockInv, KeysExclusive
  <2> QED
    BY <2>2, <2>9, <2>12 DEF LockInv
<1>2. CASE RefuseBatch(B)
  <2>1. active' = active
    BY <1>2 DEF RefuseBatch
  <2>2. \A r \in Runs \ B : pc'[r] = pc[r] /\ job'[r] = job[r] /\ arg'[r] = arg[r]
    BY <1>2 DEF RefuseBatch
  <2>3. \A r \in B : ~Live(r)' /\ ~Registered(r)'
    BY <1>2 DEF RefuseBatch, Live, Registered
  <2>4. \A r \in Runs : Live(r)' => /\ Live(r) /\ job'[r] = job[r]
                                    /\ ConnOf(r)' = ConnOf(r)
    BY <2>2, <2>3 DEF Live, ConnOf
  <2>5. \A r \in Runs : Registered(r)' => Registered(r)
    BY <2>2, <2>3 DEF Registered
  <2> QED
    BY <2>1, <2>4, <2>5, LockInvFrame
<1>3. CASE SpawnBatch(B)
  <2>1. /\ job' = job /\ active' = active
        /\ \A r \in Runs : ConnOf(r)' = ConnOf(r)
    BY <1>3 DEF SpawnBatch, ConnOf
  <2>2. \A r \in Runs : (Live(r)' => Live(r)) /\ (Registered(r)' => Registered(r))
    BY <1>3 DEF SpawnBatch, BatchAt, Live, Registered
  <2> QED
    BY <2>1, <2>2, LockInvFrame
<1> QED
  BY <1>1, <1>2, <1>3 DEF EnqueueStep

LEMMA LockInvOther ==
  ASSUME TypeInv, LockInv,
         \/ \E t \in Threads : CloseStep(t)
         \/ \E w \in Closers : CloserStep(w)
         \/ \E x \in Cancelers : CancelerStep(x)
         \/ \E i \in Ids : RemoveTask(i)
         \/ UNCHANGED vars
  PROVE  LockInv'
<1> USE ThreadsDisjoint DEF TypeInv, TypeOK, Threads
<1>1. job' = job /\ active' = active
  BY DEF CloseStep, AskDeferred, AskActive, Undefer, DropConnection, GatherActive,
         CancelGathered, ReleaseResources, CloserStep, Disconnect, WindowDestroyed,
         ReadActive, InsertDeferred, Closed, CancelerStep, CancelRequest,
         InsertCancellations, RemoveTask, vars
<1>2. \A r \in Runs : pc'[r] = pc[r]
  BY DEF CloseStep, AskDeferred, AskActive, Undefer, DropConnection, GatherActive,
         CancelGathered, ReleaseResources, CloserStep, Disconnect, WindowDestroyed,
         ReadActive, InsertDeferred, Closed, CancelerStep, CancelRequest,
         InsertCancellations, RemoveTask, Goto, vars
<1>3. \A r \in Runs : ConnOf(r)' = ConnOf(r)
  BY DEF CloseStep, AskDeferred, AskActive, Undefer, DropConnection, GatherActive,
         CancelGathered, ReleaseResources, CloserStep, Disconnect, WindowDestroyed,
         ReadActive, InsertDeferred, Closed, CancelerStep, CancelRequest,
         InsertCancellations, RemoveTask, ConnOf, vars
<1> QED
  BY <1>1, <1>2, <1>3, LockInvFrame DEF Live, Registered

LEMMA LockInvNext ==
  ~RetryWhileEnding => (TypeInv /\ LockInv /\ [Next]_vars => LockInv')
<1> SUFFICES ASSUME ~RetryWhileEnding, TypeInv, LockInv, [Next]_vars
             PROVE  LockInv'
  OBVIOUS
<1>1. CASE SubmitSome
  <2>1. PICK c \in Conns, B \in (SUBSET Runs) \ {{}}, k \in 1..MaxConcurrency :
          \E idOf \in [B -> Ids],
             keyOf \in [B -> {ResourceKey(c, d, t) : d \in Directions, t \in Targets}] :
            Submit(c, B, idOf, keyOf, k)
    BY <1>1 DEF SubmitSome
  <2>2. PICK idOf, keyOf : Submit(c, B, idOf, keyOf, k)
    BY <2>1
  <2> QED
    BY <2>2, LockInvSubmit
<1>2. CASE \E B \in SUBSET Runs : EnqueueStep(B)
  BY <1>2, LockInvEnqueue
<1>3. CASE \E r \in Runs : RunStep(r)
  BY <1>3, LockInvRun, LockInvLeave
<1>4. CASE \/ \E t \in Threads : CloseStep(t)
           \/ \E w \in Closers : CloserStep(w)
           \/ \E x \in Cancelers : CancelerStep(x)
           \/ \E i \in Ids : RemoveTask(i)
           \/ Rest
           \/ UNCHANGED vars
  BY <1>4, LockInvOther DEF Rest
<1> QED
  BY <1>1, <1>2, <1>3, <1>4 DEF Next

\* Two transfers never write to one target at the same time, provided an id
\* is submitted again only after its last run has left (the README, section 4,
\* shows what happens otherwise).
THEOREM TargetsExclusive == ~RetryWhileEnding => (Spec => []ExclusiveTargets)
<1> SUFFICES ASSUME ~RetryWhileEnding PROVE Spec => []ExclusiveTargets
  OBVIOUS
<1>1. LockInv => ExclusiveTargets
  BY DEF LockInv, KeysExclusive, ExclusiveTargets, Registered
<1>2. TypeInv /\ LockInv /\ [Next]_vars => LockInv'
  BY LockInvNext
<1> QED
  BY <1>1, <1>2, TypeInvInit, TypeInvNext, LockInvInit, PTL DEF Spec

\* Under the same proviso an id stays in active_transfers, on its connection,
\* from its registration until its run begins to finish.
THEOREM RunsStayActive == ~RetryWhileEnding => (Spec => []RunsAreActive)
<1> SUFFICES ASSUME ~RetryWhileEnding PROVE Spec => []RunsAreActive
  OBVIOUS
<1>1. ASSUME LockInv, NEW r \in Runs, Registered(r)
      PROVE  active[IdOf(r)].conn = ConnOf(r)
  <2>1. active[IdOf(r)] = [conn |-> ConnOf(r), key |-> job[r].key]
    BY <1>1 DEF LockInv, EntriesOwned
  <2> QED
    BY <2>1
<1>0. LockInv => RunsAreActive
  BY <1>1 DEF RunsAreActive
<1>2. TypeInv /\ LockInv /\ [Next]_vars => LockInv'
  BY LockInvNext
<1> QED
  BY <1>0, <1>2, TypeInvInit, TypeInvNext, LockInvInit, PTL DEF Spec

-----------------------------------------------------------------------------
(* Nothing looks active that no run stands behind.  A run leaves only after *)
(* it has cleared its id, or is refused before it has entered it; the       *)
(* places from which it does, and the ones on the way there, are named.     *)

\* The id of such a run has no entry ...
EntryGone == {"checked", "endCancel", "leaving"}

\* ... and of such a run no active status in the history.
StatusGone == {"checked", "dropCancel", "dropActive", "endActive", "endCancel", "leaving"}

LooksActive(i) == active[i] # NoEntry \/ history[i] \in ActiveStatus

Backed(i) == \E r \in Runs : Live(r) /\ IdOf(r) = i

IdsCleared ==
  \A r \in Runs : /\ pc[r] \in EntryGone => active[IdOf(r)] = NoEntry
                  /\ pc[r] \in StatusGone => history[IdOf(r)] \notin ActiveStatus

BackInv == (\A i \in Ids : LooksActive(i) => Backed(i)) /\ IdsCleared

LEMMA BackInvInit == Init => BackInv
  BY DEF Init, BackInv, LooksActive, ActiveStatus, IdsCleared, EntryGone, StatusGone,
         Threads

\* A live run carries an id.
LEMMA LiveRunsHaveIds ==
  ASSUME TypeInv, NEW r \in Runs, Live(r)
  PROVE  IdOf(r) \in Ids
BY DEF TypeInv, LiveRunsCarryJobs, IdOf, Jobs

\* A run that goes on and stays within its own id keeps the invariant, if it
\* has cleared that id where it should have.
LEMMA BackInvOwn ==
  ASSUME TypeInv, LockInv, BackInv, NEW r \in Runs, Live(r), Live(r)', job' = job,
         \A s \in Runs \ {r} : pc'[s] = pc[s],
         \A i \in Ids \ {IdOf(r)} : active'[i] = active[i] /\ history'[i] = history[i],
         pc'[r] \in EntryGone => active'[IdOf(r)] = NoEntry,
         pc'[r] \in StatusGone => history'[IdOf(r)] \notin ActiveStatus
  PROVE  BackInv'
<1>1. \A s \in Runs : IdOf(s)' = IdOf(s) /\ (Live(s) => Live(s)')
  BY DEF IdOf, Live
<1>2. ASSUME NEW i \in Ids, LooksActive(i)' PROVE Backed(i)'
  <2>1. CASE i = IdOf(r)
    BY <1>1, <2>1 DEF Backed
  <2>2. CASE i # IdOf(r)
    <3>1. LooksActive(i)
      BY <1>2, <2>2 DEF LooksActive
    <3>2. PICK s \in Runs : Live(s) /\ IdOf(s) = i
      BY <3>1 DEF BackInv, Backed
    <3> QED
      BY <1>1, <3>2 DEF Backed
  <2> QED
    BY <2>1, <2>2
<1>3. IdsCleared'
  <2>1. ASSUME NEW s \in Runs \ {r}, pc[s] \in EntryGone \cup StatusGone
        PROVE  active'[IdOf(s)] = active[IdOf(s)] /\ history'[IdOf(s)] = history[IdOf(s)]
    <3>1. Live(s)
      BY <2>1 DEF Live, EntryGone, StatusGone
    <3>2. IdOf(s) \in Ids \ {IdOf(r)}
      BY <3>1, LiveRunsHaveIds DEF LockInv, IdsUnique
    <3> QED
      BY <3>2
  <2> QED
    BY <1>1, <2>1 DEF BackInv, IdsCleared
<1> QED
  BY <1>2, <1>3 DEF BackInv

LEMMA BackInvRun ==
  ASSUME TypeInv, LockInv, BackInv, NEW r \in Runs, RunStep(r), ~Leave(r)
  PROVE  BackInv'
<1> USE DEF Goto, At
<1>0. /\ pc \in [Threads -> RunPc \cup CallerPc \cup {"idle", "done"}] /\ r \in Threads
      /\ pc[r] \in RunPc \cup {"idle", "done"}
      /\ active \in [Ids -> Entries]
      /\ history \in [Ids -> ActiveStatus \cup EndStatus \cup {"none"}]
  BY DEF TypeInv, TypeOK, RunsInPlace, Threads
<1>1. Live(r)
  BY DEF Live, RunStep, RunForward, RecordQueued, AcquirePermit, StartJob,
         RegisterActive, EmitProgress, OpenSession, CheckCanceled, Complete, Fail,
         FinishCancel, ForgetCancellation, FinishActive, ForgetActive, RecordEnd,
         DropCancel, DropActive, RecordTerminal, EndActive, EndCancel
<1>2. job' = job
  BY DEF RunStep, RunForward, RecordQueued, AcquirePermit, StartJob,
         RegisterActive, EmitProgress, OpenSession, CheckCanceled, Complete, Fail,
         Finish, FinishCancel, FinishActive, RecordEnd, DropCancel, DropActive,
         RecordTerminal, EndActive, EndCancel
<1>3. IdOf(r) \in Ids
  BY <1>1, LiveRunsHaveIds
<1>4. pc'[r] \notin {"idle", "done", "checked"} /\ \A s \in Runs \ {r} : pc'[s] = pc[s]
  BY <1>0 DEF RunStep, RunForward, RecordQueued, AcquirePermit, StartJob,
         RegisterActive, EmitProgress, OpenSession, CheckCanceled, Complete, Fail,
         Finish, FinishCancel, ForgetCancellation, FinishActive, ForgetActive, RecordEnd,
         DropCancel, DropActive, RecordTerminal, EndActive, EndCancel, Threads
<1>5. \A i \in Ids \ {IdOf(r)} : active'[i] = active[i] /\ history'[i] = history[i]
  BY <1>0, <1>3 DEF RunStep, RunForward, RecordQueued, AcquirePermit, StartJob,
         RegisterActive, EmitProgress, OpenSession, CheckCanceled, Complete, Fail,
         Finish, FinishCancel, FinishActive, ForgetActive, RecordEnd,
         DropCancel, DropActive, RecordTerminal, EndActive, EndCancel
<1>6. ASSUME pc'[r] \in EntryGone PROVE active'[IdOf(r)] = NoEntry
  <2>1. EndActive(r) \/ EndCancel(r)
    BY <1>0, <1>4, <1>6 DEF EntryGone, RunStep, RunForward, RecordQueued, AcquirePermit,
         StartJob, RegisterActive, EmitProgress, OpenSession, CheckCanceled, Complete,
         Fail, Finish, FinishCancel, ForgetCancellation, FinishActive, ForgetActive,
         RecordEnd, DropCancel, DropActive, RecordTerminal
  <2> QED
    BY <1>0, <1>3, <2>1 DEF EndActive, ForgetActive, EndCancel, ForgetCancellation,
       BackInv, IdsCleared, EntryGone
<1>7. ASSUME pc'[r] \in StatusGone PROVE history'[IdOf(r)] \notin ActiveStatus
  <2>1. \/ RecordEnd(r) \/ DropCancel(r) \/ DropActive(r) \/ RecordTerminal(r)
        \/ EndActive(r) \/ EndCancel(r)
    BY <1>0, <1>4, <1>7 DEF StatusGone, RunStep, RunForward, RecordQueued, AcquirePermit,
         StartJob, RegisterActive, EmitProgress, OpenSession, CheckCanceled, Complete,
         Fail, Finish, FinishCancel, ForgetCancellation, FinishActive, ForgetActive
  <2>2. CASE DropCancel(r) \/ DropActive(r) \/ EndActive(r) \/ EndCancel(r)
    BY <2>2 DEF DropCancel, DropActive, EndActive, EndCancel, ForgetActive,
       ForgetCancellation, BackInv, IdsCleared, StatusGone
  <2>3. CASE RecordEnd(r) \/ RecordTerminal(r)
    <3>1. result[r] \in EndStatus
      BY <2>3 DEF RecordEnd, RecordTerminal, TypeInv, EndingRunsHaveResults, Ending
    <3>2. history'[IdOf(r)] \in EndStatus \cup {"none"}
      BY <1>0, <1>3, <2>3, <3>1 DEF RecordEnd, RecordTerminal
    <3> QED
      BY <3>2 DEF EndStatus, ActiveStatus
  <2> QED
    BY <2>1, <2>2, <2>3
<1>8. Live(r)'
  BY <1>4 DEF Live
<1> QED
  BY <1>1, <1>2, <1>4, <1>5, <1>6, <1>7, <1>8, BackInvOwn

\* Runs that stop being live have cleared their ids.
LEMMA BackInvEnds ==
  ASSUME TypeInv, LockInv, BackInv, NEW B \in SUBSET Runs,
         \A r \in B : pc[r] \in EntryGone \cap StatusGone /\ ~Live(r)',
         \A r \in Runs \ B : pc'[r] = pc[r] /\ job'[r] = job[r],
         active' = active, history' = history
  PROVE  BackInv'
<1>1. ASSUME NEW i \in Ids, LooksActive(i)' PROVE Backed(i)'
  <2>1. LooksActive(i)
    BY <1>1 DEF LooksActive
  <2>2. PICK s \in Runs : Live(s) /\ IdOf(s) = i
    BY <2>1 DEF BackInv, Backed
  <2>3. s \notin B
    BY <2>1, <2>2 DEF BackInv, IdsCleared, LooksActive
  <2> QED
    BY <2>2, <2>3 DEF Backed, Live, IdOf
<1>2. IdsCleared'
  <2>1. \A r \in B : pc'[r] \notin EntryGone /\ pc'[r] \notin StatusGone
    BY DEF Live, EntryGone, StatusGone
  <2> QED
    BY <2>1 DEF BackInv, IdsCleared, IdOf
<1> QED
  BY <1>1, <1>2 DEF BackInv

LEMMA BackInvSubmit ==
  ASSUME TypeInv, BackInv, ~RetryWhileEnding,
         NEW c \in Conns, NEW B \in SUBSET Runs, NEW k \in 1..MaxConcurrency,
         NEW idOf \in [B -> Ids], NEW keyOf, Submit(c, B, idOf, keyOf, k)
  PROVE  BackInv'
<1>1. /\ \A r \in B : /\ ~Live(r) /\ IdOf(r)' = idOf[r] /\ pc'[r] = "checked"
                      /\ \A s \in Runs : Live(s) => IdOf(s) # idOf[r]
      /\ \A r \in Runs \ B : IdOf(r)' = IdOf(r) /\ pc'[r] = pc[r]
      /\ active' = active /\ history' = history
  BY DEF Submit, MaySubmit, Live, IdOf, Threads
<1>2. ASSUME NEW i \in Ids, LooksActive(i)' PROVE Backed(i)'
  <2>1. LooksActive(i)
    BY <1>1, <1>2 DEF LooksActive
  <2>2. PICK s \in Runs : Live(s) /\ IdOf(s) = i
    BY <2>1 DEF BackInv, Backed
  <2> QED
    BY <1>1, <2>2 DEF Backed, Live
<1>3. \A r \in B : ~LooksActive(idOf[r])
  BY <1>1 DEF BackInv, Backed
<1>4. IdsCleared'
  BY <1>1, <1>3 DEF BackInv, IdsCleared, LooksActive
<1> QED
  BY <1>2, <1>4 DEF BackInv

LEMMA BackInvEnqueue ==
  ASSUME TypeInv, LockInv, BackInv, NEW B \in SUBSET Runs, EnqueueStep(B)
  PROVE  BackInv'
<1> USE DEF TypeInv, TypeOK, Threads
<1>1. CASE RegisterBatch(B)
  <2>1. /\ job' = job /\ history' = history
        /\ \A r \in B : pc[r] = "checked" /\ pc'[r] = "registered"
        /\ \A r \in Runs \ B : pc'[r] = pc[r]
        /\ \A i \in Ids : (\A r \in B : IdOf(r) # i) => active'[i] = active[i]
    BY <1>1 DEF RegisterBatch, BatchAt
  <2>2. \A r \in Runs : IdOf(r)' = IdOf(r) /\ (Live(r) => Live(r)')
    BY <2>1 DEF IdOf, Live
  <2>3. ASSUME NEW i \in Ids, LooksActive(i)' PROVE Backed(i)'
    <3>1. CASE \E r \in B : IdOf(r) = i
      BY <2>1, <2>2, <3>1 DEF Backed, Live
    <3>2. CASE \A r \in B : IdOf(r) # i
      <4>1. LooksActive(i)
        BY <2>1, <2>3, <3>2 DEF LooksActive
      <4>2. PICK s \in Runs : Live(s) /\ IdOf(s) = i
        BY <4>1 DEF BackInv, Backed
      <4> QED
        BY <2>2, <4>2 DEF Backed
    <3> QED
      BY <3>1, <3>2
  <2>4. IdsCleared'
    <3>1. ASSUME NEW s \in Runs, pc'[s] \in EntryGone
          PROVE  active'[IdOf(s)] = active[IdOf(s)] /\ pc[s] = pc'[s]
      <4>1. s \notin B /\ pc[s] = pc'[s] /\ Live(s)
        BY <2>1, <3>1 DEF EntryGone, Live
      <4>2. \A r \in B : Live(r)
        BY <2>1 DEF Live
      <4>3. IdOf(s) \in Ids /\ \A r \in B : IdOf(r) # IdOf(s)
        BY <4>1, <4>2, LiveRunsHaveIds DEF LockInv, IdsUnique
      <4> QED
        BY <2>1, <4>1, <4>3
    <3>2. \A s \in Runs : pc'[s] \in StatusGone => pc[s] = pc'[s]
      BY <2>1 DEF StatusGone
    <3> QED
      BY <2>1, <2>2, <3>1, <3>2 DEF BackInv, IdsCleared
  <2> QED
    BY <2>3, <2>4 DEF BackInv
<1>2. CASE RefuseBatch(B)
  <2>1. /\ \A r \in B : pc[r] = "checked" /\ pc'[r] = "done"
        /\ \A r \in Runs \ B : pc'[r] = pc[r] /\ job'[r] = job[r]
        /\ active' = active /\ history' = history
    BY <1>2 DEF RefuseBatch, BatchAt
  <2> QED
    BY <2>1, BackInvEnds DEF Live, EntryGone, StatusGone
<1>3. CASE SpawnBatch(B)
  <2>1. /\ job' = job /\ active' = active /\ history' = history
        /\ \A r \in B : pc[r] = "queued" /\ pc'[r] = "waiting"
        /\ \A r \in Runs \ B : pc'[r] = pc[r]
    BY <1>3 DEF SpawnBatch, BatchAt
  <2>2. \A r \in Runs : IdOf(r)' = IdOf(r) /\ (Live(r) => Live(r)')
    BY <2>1 DEF IdOf, Live
  <2>3. \A r \in Runs : pc'[r] \in EntryGone \cup StatusGone => pc'[r] = pc[r]
    BY <2>1 DEF EntryGone, StatusGone
  <2> QED
    BY <2>1, <2>2, <2>3 DEF BackInv, LooksActive, Backed, IdsCleared
<1> QED
  BY <1>1, <1>2, <1>3 DEF EnqueueStep

LEMMA BackInvOther ==
  ASSUME TypeInv, BackInv,
         \/ \E t \in Threads : CloseStep(t)
         \/ \E w \in Closers : CloserStep(w)
         \/ \E x \in Cancelers : CancelerStep(x)
         \/ \E i \in Ids : RemoveTask(i)
         \/ UNCHANGED vars
  PROVE  BackInv'
<1> USE ThreadsDisjoint DEF TypeInv, TypeOK, Threads
<1>1. job' = job /\ active' = active
  BY DEF CloseStep, AskDeferred, AskActive, Undefer, DropConnection, GatherActive,
         CancelGathered, ReleaseResources, CloserStep, Disconnect, WindowDestroyed,
         ReadActive, InsertDeferred, Closed, CancelerStep, CancelRequest,
         InsertCancellations, RemoveTask, vars
<1>2. \A r \in Runs : pc'[r] = pc[r]
  BY DEF CloseStep, AskDeferred, AskActive, Undefer, DropConnection, GatherActive,
         CancelGathered, ReleaseResources, CloserStep, Disconnect, WindowDestroyed,
         ReadActive, InsertDeferred, Closed, CancelerStep, CancelRequest,
         InsertCancellations, RemoveTask, Goto, vars
<1>3. history' = history \/ \E i \in Ids : history' = [history EXCEPT ![i] = "none"]
  BY DEF CloseStep, AskDeferred, AskActive, Undefer, DropConnection, GatherActive,
         CancelGathered, ReleaseResources, CloserStep, Disconnect, WindowDestroyed,
         ReadActive, InsertDeferred, Closed, CancelerStep, CancelRequest,
         InsertCancellations, RemoveTask, vars
<1>4. \A i \in Ids : history'[i] \in ActiveStatus => history[i] \in ActiveStatus
  BY <1>3 DEF ActiveStatus
<1>5. \A i \in Ids : LooksActive(i)' => LooksActive(i)
  BY <1>1, <1>4 DEF LooksActive
<1>6. \A i \in Ids : Backed(i) => Backed(i)'
  BY <1>1, <1>2 DEF Backed, Live, IdOf
<1>7. \A r \in Runs : pc[r] \in StatusGone => IdOf(r) \in Ids
  BY LiveRunsHaveIds DEF Live, StatusGone
<1>8. IdsCleared'
  BY <1>1, <1>2, <1>4, <1>7 DEF BackInv, IdsCleared, IdOf
<1> QED
  BY <1>5, <1>6, <1>8 DEF BackInv

LEMMA BackInvNext ==
  ~RetryWhileEnding => (TypeInv /\ LockInv /\ BackInv /\ [Next]_vars => BackInv')
<1> SUFFICES ASSUME ~RetryWhileEnding, TypeInv, LockInv, BackInv, [Next]_vars
             PROVE  BackInv'
  OBVIOUS
<1>1. CASE SubmitSome
  <2>1. PICK c \in Conns, B \in (SUBSET Runs) \ {{}}, k \in 1..MaxConcurrency :
          \E idOf \in [B -> Ids],
             keyOf \in [B -> {ResourceKey(c, d, t) : d \in Directions, t \in Targets}] :
            Submit(c, B, idOf, keyOf, k)
    BY <1>1 DEF SubmitSome
  <2>2. PICK idOf \in [B -> Ids],
             keyOf \in [B -> {ResourceKey(c, d, t) : d \in Directions, t \in Targets}] :
          Submit(c, B, idOf, keyOf, k)
    BY <2>1
  <2> QED
    BY <2>2, BackInvSubmit
<1>2. CASE \E B \in SUBSET Runs : EnqueueStep(B)
  BY <1>2, BackInvEnqueue
<1>3. ASSUME NEW r \in Runs, RunStep(r) PROVE BackInv'
  <2>1. CASE Leave(r)
    <3>1. /\ pc[r] = "leaving" /\ ~Live(r)'
          /\ \A s \in Runs \ {r} : pc'[s] = pc[s] /\ job'[s] = job[s]
          /\ active' = active /\ history' = history
      BY <2>1 DEF Leave, At, Goto, Live, TypeInv, TypeOK, Threads
    <3> QED
      BY <3>1, BackInvEnds, {r} \in SUBSET Runs DEF EntryGone, StatusGone
  <2>2. CASE ~Leave(r)
    BY <1>3, <2>2, BackInvRun
  <2> QED
    BY <2>1, <2>2
<1>4. CASE \/ \E t \in Threads : CloseStep(t)
           \/ \E w \in Closers : CloserStep(w)
           \/ \E x \in Cancelers : CancelerStep(x)
           \/ \E i \in Ids : RemoveTask(i)
           \/ Rest
           \/ UNCHANGED vars
  BY <1>4, BackInvOther DEF Rest
<1> QED
  BY <1>1, <1>2, <1>3, <1>4 DEF Next

\* Under the same proviso an entry of active_transfers, or a task queued or
\* running in the history, has a run behind it: nothing is forgotten there
\* when a run is refused, cancelled, fails or ends.
THEOREM ActiveEntriesAreBacked == ~RetryWhileEnding => (Spec => []ActiveIsBacked)
<1> SUFFICES ASSUME ~RetryWhileEnding PROVE Spec => []ActiveIsBacked
  OBVIOUS
<1>1. BackInv => ActiveIsBacked
  BY DEF BackInv, LooksActive, Backed, ActiveIsBacked
<1>2. TypeInv /\ LockInv /\ [Next]_vars => LockInv'
  BY LockInvNext
<1>3. TypeInv /\ LockInv /\ BackInv /\ [Next]_vars => BackInv'
  BY BackInvNext
<1> QED
  BY <1>1, <1>2, <1>3, TypeInvInit, TypeInvNext, LockInvInit, BackInvInit, PTL DEF Spec
-----------------------------------------------------------------------------
(* A transfer whose connection is gone has been told to stop.  The session  *)
(* is opened on a connection that is there, so the transfer ran when the    *)
(* connection was dropped, and its id was in active_transfers; the thread   *)
(* that dropped it still has to read the ids, or holds this one, or has     *)
(* cancelled it; and only the end of a run takes a cancellation back.       *)

\* Only the end of a run and a close call close_connection_by_id.
CallPlaces == Ending \cup {"closing"}

CallsInPlace == \A t \in Threads : call[t] # "none" => pc[t] \in CallPlaces

Told(r) ==
  \/ IdOf(r) \in cancellations
  \/ \E t \in Threads :
       /\ ConnOf(t) = ConnOf(r)
       /\ \/ call[t] = "gather"
          \/ call[t] = "cancel" /\ IdOf(r) \in arg[t].ids

CutOff(r) == pc[r] = "transferring" /\ ConnOf(r) \notin connections

CutOffsAreTold == \A r \in Runs : CutOff(r) => Told(r)

StopInv == CallsInPlace /\ CutOffsAreTold

LEMMA StopInvInit == Init => StopInv
  BY DEF Init, StopInv, CallsInPlace, CutOffsAreTold, CutOff, Threads

\* A step that cuts off no transfer, forgets no cancellation, and leaves alone
\* the threads that are cancelling.
LEMMA ToldFrame ==
  ASSUME CutOffsAreTold, cancellations \subseteq cancellations',
         \A r \in Runs : CutOff(r)' => /\ CutOff(r) /\ job'[r] = job[r]
                                       /\ arg'[r].conn = arg[r].conn,
         \A t \in Threads : call[t] \in {"gather", "cancel"} =>
                              call'[t] = call[t] /\ arg'[t] = arg[t]
  PROVE  CutOffsAreTold'
<1> SUFFICES ASSUME NEW r \in Runs, CutOff(r)' PROVE Told(r)'
  BY DEF CutOffsAreTold
<1>1. CutOff(r) /\ IdOf(r)' = IdOf(r) /\ ConnOf(r)' = ConnOf(r)
  BY DEF IdOf, ConnOf
<1>2. Told(r)
  BY <1>1 DEF CutOffsAreTold
<1>3. CASE IdOf(r) \in cancellations
  BY <1>1, <1>3 DEF Told
<1>4. CASE \E t \in Threads : /\ ConnOf(t) = ConnOf(r)
                              /\ \/ call[t] = "gather"
                                 \/ call[t] = "cancel" /\ IdOf(r) \in arg[t].ids
  <2>1. PICK t \in Threads : /\ ConnOf(t) = ConnOf(r)
                             /\ \/ call[t] = "gather"
                                \/ call[t] = "cancel" /\ IdOf(r) \in arg[t].ids
    BY <1>4
  <2>2. call'[t] = call[t] /\ arg'[t] = arg[t] /\ ConnOf(t)' = ConnOf(t)
    BY <2>1 DEF ConnOf
  <2> QED
    BY <1>1, <2>1, <2>2 DEF Told
<1> QED
  BY <1>2, <1>3, <1>4 DEF Told

LEMMA StopInvSubmit ==
  ASSUME TypeInv, StopInv,
         NEW c \in Conns, NEW B \in SUBSET Runs, NEW idOf, NEW keyOf, NEW k,
         Submit(c, B, idOf, keyOf, k)
  PROVE  StopInv'
<1>1. /\ call' = call /\ connections' = connections /\ cancellations' = cancellations
      /\ \A t \in B : pc[t] = "idle" /\ pc'[t] = "checked"
      /\ \A t \in Threads \ B : pc'[t] = pc[t] /\ arg'[t] = arg[t]
      /\ \A r \in Runs \ B : job'[r] = job[r]
  BY DEF Submit, Threads
<1>2. \A t \in B : call[t] = "none"
  BY <1>1 DEF StopInv, CallsInPlace, CallPlaces, Ending, Threads
<1>3. CallsInPlace'
  BY <1>1, <1>2 DEF StopInv, CallsInPlace
<1>4. \A r \in Runs : CutOff(r)' => /\ CutOff(r) /\ job'[r] = job[r]
                                    /\ arg'[r].conn = arg[r].conn
  BY <1>1 DEF CutOff, ConnOf, Threads
<1> QED
  BY <1>1, <1>2, <1>3, <1>4, ToldFrame DEF StopInv

LEMMA StopInvEnqueue ==
  ASSUME TypeInv, StopInv, NEW B \in SUBSET Runs, EnqueueStep(B)
  PROVE  StopInv'
<1>1. /\ call' = call /\ connections' = connections /\ cancellations' = cancellations
      /\ \A t \in B : pc[t] \in {"checked", "queued"} /\ pc'[t] # "transferring"
      /\ \A t \in Threads \ B : pc'[t] = pc[t] /\ arg'[t] = arg[t]
      /\ \A r \in Runs \ B : job'[r] = job[r]
  BY DEF EnqueueStep, RegisterBatch, RefuseBatch, SpawnBatch, BatchAt, Threads
<1>2. \A t \in B : call[t] = "none"
  BY <1>1 DEF StopInv, CallsInPlace, CallPlaces, Ending, Threads
<1>3. CallsInPlace'
  BY <1>1, <1>2 DEF StopInv, CallsInPlace
<1>4. \A r \in Runs : CutOff(r)' => /\ CutOff(r) /\ job'[r] = job[r]
                                    /\ arg'[r].conn = arg[r].conn
  BY <1>1 DEF CutOff, ConnOf, Threads
<1> QED
  BY <1>1, <1>2, <1>3, <1>4, ToldFrame DEF StopInv

LEMMA CallsInPlaceRun ==
  ASSUME TypeInv, StopInv, NEW r \in Runs, RunStep(r)
  PROVE  /\ CallsInPlace'
         /\ connections' = connections
         /\ \A t \in Threads \ {r} : pc'[t] = pc[t] /\ arg'[t] = arg[t] /\ call'[t] = call[t]
         /\ \A s \in Runs \ {r} : job'[s] = job[s]
         /\ call[r] = "none"
<1> USE DEF TypeInv, TypeOK, Threads, Goto, At
<1>1. call[r] = "none"
  <2>1. pc[r] \in CallPlaces => call[r] = "none"
    BY DEF RunStep, RunForward, RecordQueued, AcquirePermit, StartJob,
         RegisterActive, EmitProgress, OpenSession, CheckCanceled, Complete, Fail,
         FinishCancel, FinishActive, RecordEnd, DropCancel, DropActive,
         RecordTerminal, EndActive, EndCancel, Leave, ForgetCancellation, ForgetActive,
         CallPlaces, Ending
  <2> QED
    BY <2>1 DEF StopInv, CallsInPlace
<1>2. /\ connections' = connections
      /\ \A t \in Threads \ {r} : pc'[t] = pc[t] /\ arg'[t] = arg[t] /\ call'[t] = call[t]
      /\ \A s \in Runs \ {r} : job'[s] = job[s]
  BY DEF RunStep, RunForward, RecordQueued, AcquirePermit, StartJob,
         RegisterActive, EmitProgress, OpenSession, CheckCanceled, Complete, Fail,
         Finish, FinishCancel, FinishActive, RecordEnd, DropCancel, DropActive,
         RecordTerminal, EndActive, EndCancel, Leave, ForgetCancellation, ForgetActive
<1>3. call'[r] # "none" => pc'[r] \in CallPlaces
  BY <1>1 DEF RunStep, RunForward, RecordQueued, AcquirePermit, StartJob,
         RegisterActive, EmitProgress, OpenSession, CheckCanceled, Complete, Fail,
         Finish, FinishCancel, FinishActive, RecordEnd, DropCancel, DropActive,
         RecordTerminal, EndActive, EndCancel, Leave, ForgetCancellation, ForgetActive,
         CallPlaces, Ending
<1>4. CallsInPlace'
  BY <1>2, <1>3 DEF StopInv, CallsInPlace
<1> QED
  BY <1>1, <1>2, <1>4

LEMMA StopInvRun ==
  ASSUME TypeInv, LockInv, StopInv, NEW r \in Runs, RunStep(r)
  PROVE  StopInv'
<1>0. /\ connections' = connections
      /\ \A t \in Threads \ {r} : pc'[t] = pc[t] /\ arg'[t] = arg[t] /\ call'[t] = call[t]
      /\ \A s \in Runs \ {r} : job'[s] = job[s]
      /\ call[r] = "none"
  BY CallsInPlaceRun
<1>1. CASE pc'[r] # "transferring" /\ cancellations' = cancellations
  <2>1. \A s \in Runs : CutOff(s)' => /\ CutOff(s) /\ job'[s] = job[s]
                                      /\ arg'[s].conn = arg[s].conn
    BY <1>0, <1>1 DEF CutOff, ConnOf, Threads
  <2> QED
    BY <1>0, <1>1, <2>1, CallsInPlaceRun, ToldFrame DEF StopInv
<1>2. CASE OpenSession(r) \/ EmitProgress(r)
  <2>1. /\ cancellations' = cancellations /\ arg' = arg /\ job' = job /\ call' = call
        /\ pc'[r] = "transferring" => pc[r] = "transferring" \/ ConnOf(r) \in connections
    BY <1>2 DEF OpenSession, EmitProgress, Goto, TypeInv, TypeOK, Threads
  <2>2. \A s \in Runs : CutOff(s)' => /\ CutOff(s) /\ job'[s] = job[s]
                                      /\ arg'[s].conn = arg[s].conn
    BY <1>0, <2>1 DEF CutOff, ConnOf, Threads
  <2> QED
    BY <2>1, <2>2, CallsInPlaceRun, ToldFrame DEF StopInv
<1>3. CASE FinishCancel(r) \/ DropCancel(r) \/ EndCancel(r)
  <2>1. /\ cancellations' = cancellations \ {IdOf(r)} /\ arg' = arg /\ job' = job
        /\ pc'[r] # "transferring" /\ Live(r)
    BY <1>3 DEF FinishCancel, DropCancel, EndCancel, ForgetCancellation, Goto, At, Live,
                TypeInv, TypeOK, Threads
  <2> SUFFICES ASSUME NEW s \in Runs, CutOff(s)' PROVE Told(s)'
    BY CallsInPlaceRun DEF StopInv, CutOffsAreTold
  <2>2. s # r /\ CutOff(s) /\ IdOf(s)' = IdOf(s) /\ ConnOf(s)' = ConnOf(s)
    BY <1>0, <2>1 DEF CutOff, ConnOf, IdOf, Threads
  <2>3. IdOf(s) # IdOf(r) /\ Told(s)
    BY <2>1, <2>2 DEF StopInv, CutOffsAreTold, LockInv, IdsUnique, CutOff, Live
  <2> QED
    BY <1>0, <2>1, <2>2, <2>3 DEF Told, ConnOf
<1> QED
  BY <1>1, <1>2, <1>3
     DEF RunStep, RunForward, RecordQueued, AcquirePermit, StartJob,
         RegisterActive, CheckCanceled, Complete, Fail,
         Finish, FinishActive, RecordEnd, DropActive,
         RecordTerminal, EndActive, Leave, ForgetActive, Goto, At,
         TypeInv, TypeOK, Threads

LEMMA CallsInPlaceClose ==
  ASSUME TypeInv, StopInv, NEW t \in Threads, CloseStep(t)
  PROVE  /\ CallsInPlace'
         /\ pc' = pc /\ job' = job /\ active' = active
         /\ \A u \in Threads : ConnOf(u)' = ConnOf(u)
         /\ \A u \in Threads \ {t} : arg'[u] = arg[u] /\ call'[u] = call[u]
<1> USE DEF TypeInv, TypeOK
<1>1. /\ pc' = pc /\ job' = job /\ active' = active /\ call[t] # "none"
      /\ \A u \in Threads \ {t} : arg'[u] = arg[u] /\ call'[u] = call[u]
  BY DEF CloseStep, AskDeferred, AskActive, Undefer, DropConnection, GatherActive,
         CancelGathered, ReleaseResources
<1>2. \A u \in Threads : ConnOf(u)' = ConnOf(u)
  <2>1. arg' = arg \/ \E I : arg' = [arg EXCEPT ![t].ids = I]
    BY DEF CloseStep, AskDeferred, AskActive, Undefer, DropConnection, GatherActive,
           CancelGathered, ReleaseResources
  <2>2. ASSUME NEW I, arg' = [arg EXCEPT ![t].ids = I]
        PROVE  \A u \in Threads : arg'[u].conn = arg[u].conn
    BY <2>2
  <2> QED
    BY <2>1, <2>2 DEF ConnOf
<1>3. CallsInPlace'
  BY <1>1 DEF StopInv, CallsInPlace
<1> QED
  BY <1>1, <1>2, <1>3

LEMMA StopInvClose ==
  ASSUME TypeInv, LockInv, StopInv, NEW t \in Threads, CloseStep(t)
  PROVE  StopInv'
<1>0. /\ pc' = pc /\ job' = job /\ active' = active
      /\ \A u \in Threads : ConnOf(u)' = ConnOf(u)
      /\ \A u \in Threads \ {t} : arg'[u] = arg[u] /\ call'[u] = call[u]
      /\ \A r \in Runs : IdOf(r)' = IdOf(r)
      /\ t \in Threads /\ \A r \in Runs : r \in Threads
  BY CallsInPlaceClose DEF IdOf, Threads
<1>1. CASE AskDeferred(t) \/ AskActive(t) \/ Undefer(t) \/ ReleaseResources(t)
  <2>1. /\ connections' = connections /\ cancellations' = cancellations
        /\ call[t] \notin {"gather", "cancel"}
    BY <1>1 DEF AskDeferred, AskActive, Undefer, ReleaseResources
  <2>2. \A r \in Runs : CutOff(r)' => /\ CutOff(r) /\ job'[r] = job[r]
                                      /\ arg'[r].conn = arg[r].conn
    BY <1>0, <2>1 DEF CutOff, ConnOf
  <2> QED
    BY <1>0, <2>1, <2>2, CallsInPlaceClose, ToldFrame DEF StopInv
<1>2. CASE DropConnection(t)
  <2>1. /\ connections' = connections \ {ConnOf(t)} /\ cancellations' = cancellations
        /\ call[t] = "disconnect" /\ call'[t] = "gather" /\ arg' = arg
    BY <1>2 DEF DropConnection, TypeInv, TypeOK
  <2> SUFFICES ASSUME NEW r \in Runs, CutOff(r)' PROVE Told(r)'
    BY CallsInPlaceClose DEF StopInv, CutOffsAreTold
  <2>2. CASE ConnOf(r) = ConnOf(t)
    BY <1>0, <2>1, <2>2 DEF Told
  <2>3. CASE ConnOf(r) # ConnOf(t)
    <3>1. CutOff(r)
      BY <1>0, <2>1, <2>3 DEF CutOff, ConnOf
    <3>2. Told(r)
      BY <3>1 DEF StopInv, CutOffsAreTold
    <3> QED
      BY <1>0, <2>1, <3>2 DEF Told
  <2> QED
    BY <2>2, <2>3
<1>3. CASE GatherActive(t)
  <2>1. /\ connections' = connections /\ cancellations' = cancellations
        /\ call'[t] = "cancel"
        /\ arg'[t].ids = {i \in Ids : active[i].conn = ConnOf(t)}
    BY <1>3 DEF GatherActive, TypeInv, TypeOK
  <2> SUFFICES ASSUME NEW r \in Runs, CutOff(r)' PROVE Told(r)'
    BY CallsInPlaceClose DEF StopInv, CutOffsAreTold
  <2>2. CutOff(r)
    BY <1>0, <2>1 DEF CutOff
  <2>3. Told(r)
    BY <2>2 DEF StopInv, CutOffsAreTold
  <2>4. CASE ConnOf(r) = ConnOf(t)
    <3>1. Registered(r)
      BY <2>2 DEF CutOff, Registered
    <3>2. active[IdOf(r)] = [conn |-> ConnOf(r), key |-> job[r].key]
      BY <3>1 DEF LockInv, EntriesOwned
    <3>3. active[IdOf(r)].conn = ConnOf(r)
      BY <3>2
    <3>4. IdOf(r) \in Ids
      BY <3>1, RegisteredIsLive, LiveRunsHaveIds
    <3>5. IdOf(r) \in arg'[t].ids
      BY <2>1, <2>4, <3>3, <3>4
    <3> QED
      BY <1>0, <2>1, <2>4, <3>5 DEF Told
  <2>5. CASE ConnOf(r) # ConnOf(t)
    BY <1>0, <2>1, <2>3, <2>5 DEF Told
  <2> QED
    BY <2>4, <2>5
<1>4. CASE CancelGathered(t)
  <2>1. /\ connections' = connections /\ cancellations' = cancellations \cup arg[t].ids
        /\ call[t] = "cancel"
    BY <1>4 DEF CancelGathered
  <2> SUFFICES ASSUME NEW r \in Runs, CutOff(r)' PROVE Told(r)'
    BY CallsInPlaceClose DEF StopInv, CutOffsAreTold
  <2>2. CutOff(r)
    BY <1>0, <2>1 DEF CutOff
  <2>3. Told(r)
    BY <2>2 DEF StopInv, CutOffsAreTold
  <2> QED
    BY <1>0, <2>1, <2>3 DEF Told
<1> QED
  BY <1>1, <1>2, <1>3, <1>4 DEF CloseStep

LEMMA StopInvCaller ==
  ASSUME TypeInv, StopInv,
         \/ \E w \in Closers : CloserStep(w)
         \/ \E x \in Cancelers : CancelerStep(x)
         \/ \E i \in Ids : RemoveTask(i)
         \/ UNCHANGED vars
  PROVE  StopInv'
<1> USE ThreadsDisjoint DEF TypeInv, TypeOK, Threads
<1>1. /\ job' = job /\ connections' = connections /\ cancellations \subseteq cancellations'
      /\ \A r \in Runs : pc'[r] = pc[r] /\ arg'[r] = arg[r]
  BY DEF CloserStep, Disconnect, WindowDestroyed, ReadActive, InsertDeferred, Closed,
         CancelerStep, CancelRequest, InsertCancellations, RemoveTask, Goto, vars
<1>2. \A t \in Threads : call[t] # "none" => pc'[t] = pc[t] /\ call'[t] = call[t] /\ arg'[t] = arg[t]
  <2>1. \A t \in Threads : pc[t] \in {"idle", "readActive", "insert"} => call[t] = "none"
    BY DEF StopInv, CallsInPlace, CallPlaces, Ending
  <2>2. CASE \E w \in Closers : CloserStep(w)
    BY <2>1, <2>2 DEF CloserStep, Disconnect, WindowDestroyed, ReadActive, InsertDeferred,
                      Closed, At, Goto
  <2>3. CASE \E x \in Cancelers : CancelerStep(x)
    BY <2>1, <2>3 DEF CancelerStep, CancelRequest, InsertCancellations, Goto
  <2>4. CASE (\E i \in Ids : RemoveTask(i)) \/ UNCHANGED vars
    BY <2>4 DEF RemoveTask, vars
  <2> QED
    BY <2>2, <2>3, <2>4
<1>3. \A t \in Threads : call'[t] # "none" => call[t] # "none" \/ pc'[t] = "closing"
  BY DEF CloserStep, Disconnect, WindowDestroyed, ReadActive, InsertDeferred, Closed,
         CancelerStep, CancelRequest, InsertCancellations, RemoveTask, Goto, vars
<1>4. CallsInPlace'
  BY <1>2, <1>3 DEF StopInv, CallsInPlace, CallPlaces
<1>5. \A r \in Runs : CutOff(r)' => /\ CutOff(r) /\ job'[r] = job[r]
                                    /\ arg'[r].conn = arg[r].conn
  BY <1>1 DEF CutOff, ConnOf
<1> QED
  BY <1>1, <1>2, <1>4, <1>5, ToldFrame DEF StopInv

LEMMA StopInvNext == TypeInv /\ LockInv /\ StopInv /\ [Next]_vars => StopInv'
<1> SUFFICES ASSUME TypeInv, LockInv, StopInv, [Next]_vars
             PROVE  StopInv'
  OBVIOUS
<1>1. CASE SubmitSome
  <2>1. PICK c \in Conns, B \in (SUBSET Runs) \ {{}}, k \in 1..MaxConcurrency :
          \E idOf \in [B -> Ids],
             keyOf \in [B -> {ResourceKey(c, d, t) : d \in Directions, t \in Targets}] :
            Submit(c, B, idOf, keyOf, k)
    BY <1>1 DEF SubmitSome
  <2>2. PICK idOf, keyOf : Submit(c, B, idOf, keyOf, k)
    BY <2>1
  <2> QED
    BY <2>2, StopInvSubmit
<1>2. CASE \E B \in SUBSET Runs : EnqueueStep(B)
  BY <1>2, StopInvEnqueue
<1>3. CASE \E r \in Runs : RunStep(r)
  BY <1>3, StopInvRun
<1>4. CASE \E t \in Threads : CloseStep(t)
  BY <1>4, StopInvClose
<1>5. CASE \/ \E w \in Closers : CloserStep(w)
           \/ \E x \in Cancelers : CancelerStep(x)
           \/ \E i \in Ids : RemoveTask(i)
           \/ Rest
           \/ UNCHANGED vars
  BY <1>5, StopInvCaller DEF Rest
<1> QED
  BY <1>1, <1>2, <1>3, <1>4, <1>5 DEF Next

\* Under the same proviso closing a connection stops what runs on it, however
\* the locks of the close interleave with the transfers, the batches and the
\* other closes: a transfer that goes on has been told to stop.
THEOREM ClosingStopsTransfers == ~RetryWhileEnding => (Spec => []ClosedStopsTransfers)
<1> SUFFICES ASSUME ~RetryWhileEnding PROVE Spec => []ClosedStopsTransfers
  OBVIOUS
<1>1. StopInv => ClosedStopsTransfers
  BY DEF StopInv, CutOffsAreTold, CutOff, Told, ClosedStopsTransfers
<1>2. TypeInv /\ LockInv /\ [Next]_vars => LockInv'
  BY LockInvNext
<1> QED
  BY <1>1, <1>2, TypeInvInit, TypeInvNext, LockInvInit, StopInvInit, StopInvNext, PTL DEF Spec
-----------------------------------------------------------------------------
(* A close that the end of a transfer triggers spares the others, provided  *)
(* no batch is submitted while its connection is being closed.  It asks     *)
(* whether a transfer is registered, and by then none can be on the way to  *)
(* register: a close that is deferred has a closer behind it, and no batch  *)
(* of its connection is between its check and its spawn.                    *)

ClosingFor(c) == \E w \in Closers : pc[w] # "idle" /\ ConnOf(w) = c

Entering(r) == pc[r] \in {"checked", "registered", "queued"}

DeferralsHaveClosers == \A c \in deferred : ClosingFor(c)

CallsHaveClosers ==
  \A r \in Runs :
    call[r] \in {"askActive", "undefer", "disconnect"} => ClosingFor(ConnOf(r))

NobodyEnters == \A c \in Conns : ClosingFor(c) =>
                  \A r \in Runs : ConnOf(r) = c => ~Entering(r)

ClosesSpare ==
  \A r, s \in Runs :
    call[r] \in {"undefer", "disconnect"} /\ ConnOf(s) = ConnOf(r) => ~Registered(s)

SpareInv == DeferralsHaveClosers /\ CallsHaveClosers /\ NobodyEnters /\ ClosesSpare

LEMMA SpareInvInit == Init => SpareInv
  BY DEF Init, SpareInv, DeferralsHaveClosers, CallsHaveClosers, NobodyEnters,
         ClosesSpare, ClosingFor, Threads

\* A run that is inside a close carries a connection.
LEMMA CallersHaveConns ==
  ASSUME TypeInv, StopInv, NEW r \in Runs, call[r] # "none"
  PROVE  ConnOf(r) \in Conns
<1>1. pc[r] \in Ending \cup {"closing"}
  BY DEF StopInv, CallsInPlace, CallPlaces, Threads
<1>2. Live(r)
  BY <1>1 DEF Live, Ending
<1> QED
  BY <1>2 DEF TypeInv, LiveRunsCarryJobs

\* A step that keeps the closers, and by which no run enters, is called upon to
\* close, or registers from elsewhere than behind its check.
LEMMA SpareFrame ==
  ASSUME TypeInv, StopInv, SpareInv,
         \A w \in Closers : pc[w] # "idle" <=> pc'[w] # "idle",
         \A w \in Closers : ConnOf(w)' = ConnOf(w),
         deferred' \subseteq deferred,
         \A r \in Runs : Entering(r)' => Entering(r) /\ ConnOf(r)' = ConnOf(r),
         \A r \in Runs : Registered(r)' =>
                           (Entering(r) \/ Registered(r)) /\ ConnOf(r)' = ConnOf(r),
         \A r \in Runs : call'[r] \in {"askActive", "undefer", "disconnect"} =>
                           call'[r] = call[r] /\ ConnOf(r)' = ConnOf(r)
  PROVE  SpareInv'
<1>0. \A c : ClosingFor(c)' <=> ClosingFor(c)
  BY DEF ClosingFor
<1>1. DeferralsHaveClosers'
  BY <1>0 DEF SpareInv, DeferralsHaveClosers
<1>2. CallsHaveClosers'
  BY <1>0 DEF SpareInv, CallsHaveClosers
<1>3. NobodyEnters'
  BY <1>0 DEF SpareInv, NobodyEnters
<1>4. ASSUME NEW r \in Runs, NEW s \in Runs, call'[r] \in {"undefer", "disconnect"},
             ConnOf(s)' = ConnOf(r)'
      PROVE  ~Registered(s)'
  <2>1. call[r] \in {"undefer", "disconnect"} /\ ConnOf(r)' = ConnOf(r)
    BY <1>4
  <2>2. SUFFICES ASSUME Registered(s)' PROVE FALSE
    OBVIOUS
  <2>3. (Entering(s) \/ Registered(s)) /\ ConnOf(s) = ConnOf(r)
    BY <1>4, <2>1, <2>2
  <2>4. ~Registered(s)
    BY <2>1, <2>3 DEF SpareInv, ClosesSpare
  <2>5. ConnOf(r) \in Conns /\ ClosingFor(ConnOf(r))
    BY <2>1, CallersHaveConns DEF SpareInv, CallsHaveClosers
  <2> QED
    BY <2>3, <2>4, <2>5 DEF SpareInv, NobodyEnters
<1>5. ClosesSpare'
  BY <1>4 DEF ClosesSpare
<1> QED
  BY <1>1, <1>2, <1>3, <1>5 DEF SpareInv

LEMMA SpareInvSubmit ==
  ASSUME TypeInv, StopInv, SpareInv, ~SubmitWhileClosing,
         NEW c \in Conns, NEW B \in (SUBSET Runs) \ {{}}, NEW idOf, NEW keyOf, NEW k,
         Submit(c, B, idOf, keyOf, k)
  PROVE  SpareInv'
<1> USE ThreadsDisjoint
<1>1. /\ \A w \in Closers : pc'[w] = pc[w] /\ ConnOf(w)' = ConnOf(w)
      /\ deferred' = deferred /\ call' = call
      /\ \A r \in Runs \ B : pc'[r] = pc[r] /\ ConnOf(r)' = ConnOf(r)
      /\ \A r \in B : pc[r] = "idle" /\ pc'[r] = "checked" /\ ConnOf(r)' = c
      /\ \A w \in Closers : ConnOf(w) # c
  BY DEF Submit, MaySubmit, ConnOf, Threads
<1>2. \A r \in B : call[r] = "none"
  BY <1>1 DEF StopInv, CallsInPlace, CallPlaces, Ending, Threads
<1>3. \A cc : ClosingFor(cc)' <=> ClosingFor(cc)
  BY <1>1 DEF ClosingFor
<1>4. ~ClosingFor(c)
  BY <1>1 DEF ClosingFor
<1>5. DeferralsHaveClosers' /\ CallsHaveClosers'
  BY <1>1, <1>2, <1>3 DEF SpareInv, DeferralsHaveClosers, CallsHaveClosers
<1>6. NobodyEnters'
  BY <1>1, <1>3, <1>4 DEF SpareInv, NobodyEnters, Entering
<1>7. \A r \in B : ~Registered(r)'
  BY <1>1 DEF Registered
<1>8. \A r \in Runs \ B : Registered(r)' => Registered(r)
  BY <1>1 DEF Registered
<1>9. ClosesSpare'
  BY <1>1, <1>2, <1>7, <1>8 DEF SpareInv, ClosesSpare
<1> QED
  BY <1>5, <1>6, <1>9 DEF SpareInv

LEMMA SpareInvEnqueue ==
  ASSUME TypeInv, StopInv, SpareInv, NEW B \in SUBSET Runs, EnqueueStep(B)
  PROVE  SpareInv'
<1> USE ThreadsDisjoint DEF EnqueueStep, RegisterBatch, RefuseBatch, SpawnBatch, BatchAt
<1>1. /\ \A w \in Closers : pc'[w] = pc[w] /\ ConnOf(w)' = ConnOf(w)
      /\ deferred' = deferred /\ call' = call
      /\ \A r \in Runs \ B : pc'[r] = pc[r] /\ ConnOf(r)' = ConnOf(r)
  BY DEF ConnOf, Threads
<1>2. \A r \in B : /\ pc[r] \in {"checked", "queued"} /\ call[r] = "none"
                   /\ \/ pc'[r] \in {"registered", "waiting"} /\ ConnOf(r)' = ConnOf(r)
                      \/ pc'[r] = "done"
  BY DEF ConnOf, Threads, StopInv, CallsInPlace, CallPlaces, Ending
<1>3. \A r \in Runs : Entering(r)' => Entering(r) /\ ConnOf(r)' = ConnOf(r)
  BY <1>1, <1>2 DEF Entering
<1>4. \A r \in Runs : Registered(r)' => (Entering(r) \/ Registered(r)) /\ ConnOf(r)' = ConnOf(r)
  BY <1>1, <1>2 DEF Entering, Registered
<1>5. \A r \in Runs : call'[r] \in {"askActive", "undefer", "disconnect"} =>
                        call'[r] = call[r] /\ ConnOf(r)' = ConnOf(r)
  BY <1>1, <1>2
<1> QED
  BY <1>1, <1>3, <1>4, <1>5, SpareFrame

LEMMA SpareInvRun ==
  ASSUME TypeInv, StopInv, SpareInv, NEW r \in Runs, RunStep(r)
  PROVE  SpareInv'
<1> USE ThreadsDisjoint DEF TypeInv, TypeOK
<1>0. /\ \A t \in Threads \ {r} : pc'[t] = pc[t] /\ arg'[t] = arg[t] /\ call'[t] = call[t]
      /\ call[r] = "none"
  BY CallsInPlaceRun
<1>1. /\ \A w \in Closers : pc'[w] = pc[w] /\ ConnOf(w)' = ConnOf(w)
      /\ \A s \in Runs \ {r} : pc'[s] = pc[s] /\ ConnOf(s)' = ConnOf(s) /\ call'[s] = call[s]
  BY <1>0 DEF ConnOf, Threads
<1>2. deferred' = deferred /\ call'[r] \in {"none", "askDeferred"}
  BY <1>0 DEF Threads, RunStep, RunForward, RecordQueued, AcquirePermit, StartJob,
         RegisterActive, EmitProgress, OpenSession, CheckCanceled, Complete, Fail,
         Finish, FinishCancel, FinishActive, RecordEnd, DropCancel, DropActive,
         RecordTerminal, EndActive, EndCancel, Leave, ForgetCancellation, ForgetActive
<1>3. /\ Entering(r)' => Entering(r) /\ ConnOf(r)' = ConnOf(r)
      /\ Registered(r)' => Registered(r) /\ ConnOf(r)' = ConnOf(r)
  BY DEF Threads, Entering, Registered, ConnOf, Goto, At,
         RunStep, RunForward, RecordQueued, AcquirePermit, StartJob,
         RegisterActive, EmitProgress, OpenSession, CheckCanceled, Complete, Fail,
         Finish, FinishCancel, FinishActive, RecordEnd, DropCancel, DropActive,
         RecordTerminal, EndActive, EndCancel, Leave, ForgetCancellation, ForgetActive
<1>4. \A s \in Runs : Entering(s)' => Entering(s) /\ ConnOf(s)' = ConnOf(s)
  BY <1>1, <1>3 DEF Entering
<1>5. \A s \in Runs : Registered(s)' => (Entering(s) \/ Registered(s)) /\ ConnOf(s)' = ConnOf(s)
  BY <1>1, <1>3 DEF Registered
<1>6. \A s \in Runs : call'[s] \in {"askActive", "undefer", "disconnect"} =>
                        call'[s] = call[s] /\ ConnOf(s)' = ConnOf(s)
  BY <1>1, <1>2
<1> QED
  BY <1>1, <1>2, <1>4, <1>5, <1>6, SpareFrame

LEMMA SpareInvClose ==
  ASSUME TypeInv, LockInv, StopInv, SpareInv, NEW t \in Threads, CloseStep(t)
  PROVE  SpareInv'
<1> USE DEF TypeInv, TypeOK, Threads
<1>0. /\ pc' = pc
      /\ \A u \in Threads : ConnOf(u)' = ConnOf(u)
      /\ \A u \in Threads \ {t} : call'[u] = call[u]
  BY CallsInPlaceClose
<1>1. /\ \A c : ClosingFor(c)' <=> ClosingFor(c)
      /\ \A r \in Runs : Entering(r)' = Entering(r) /\ Registered(r)' = Registered(r)
  BY <1>0 DEF ClosingFor, Entering, Registered
<1>2. deferred' \subseteq deferred
  BY DEF CloseStep, AskDeferred, AskActive, Undefer, DropConnection, GatherActive,
         CancelGathered, ReleaseResources
<1>3. DeferralsHaveClosers' /\ NobodyEnters'
  BY <1>0, <1>1, <1>2 DEF SpareInv, DeferralsHaveClosers, NobodyEnters
<1>4. CallsHaveClosers'
  <2>1. call'[t] \in {"askActive", "undefer", "disconnect"} =>
          \/ call[t] \in {"askActive", "undefer", "disconnect"}
          \/ ConnOf(t) \in deferred
    BY DEF CloseStep, AskDeferred, AskActive, Undefer, DropConnection, GatherActive,
           CancelGathered, ReleaseResources
  <2>2. ASSUME NEW r \in Runs, call'[r] \in {"askActive", "undefer", "disconnect"}
        PROVE  ClosingFor(ConnOf(r))
    BY <1>0, <2>1, <2>2 DEF SpareInv, DeferralsHaveClosers, CallsHaveClosers
  <2> QED
    BY <1>0, <1>1, <2>2 DEF CallsHaveClosers
<1>5. ClosesSpare'
  <2>1. call'[t] \in {"undefer", "disconnect"} =>
          call[t] \in {"undefer", "disconnect"} \/ ~ActiveOn(ConnOf(t))
    <3>1. CASE AskActive(t)
      BY <3>1 DEF AskActive
    <3>2. CASE ~AskActive(t)
      BY <3>2 DEF CloseStep, AskDeferred, Undefer, DropConnection, GatherActive,
                  CancelGathered, ReleaseResources
    <3> QED
      BY <3>1, <3>2
  <2>2. ASSUME NEW s \in Runs, ~ActiveOn(ConnOf(s)) PROVE ~Registered(s)
    <3> SUFFICES ASSUME Registered(s) PROVE FALSE
      OBVIOUS
    <3>1. active[IdOf(s)] = [conn |-> ConnOf(s), key |-> job[s].key]
      BY DEF LockInv, EntriesOwned
    <3>2. active[IdOf(s)].conn = ConnOf(s)
      BY <3>1
    <3>3. IdOf(s) \in Ids
      BY RegisteredIsLive, LiveRunsHaveIds
    <3> QED
      BY <2>2, <3>2, <3>3 DEF ActiveOn
  <2>3. ASSUME NEW r \in Runs, NEW s \in Runs, call'[r] \in {"undefer", "disconnect"},
               ConnOf(s) = ConnOf(r)
        PROVE  ~Registered(s)
    <3>1. CASE call[r] \in {"undefer", "disconnect"}
      BY <2>3, <3>1 DEF SpareInv, ClosesSpare
    <3>2. CASE call[r] \notin {"undefer", "disconnect"}
      BY <1>0, <2>1, <2>2, <2>3, <3>2
    <3> QED
      BY <3>1, <3>2
  <2> QED
    BY <1>0, <1>1, <2>3 DEF ClosesSpare
<1> QED
  BY <1>3, <1>4, <1>5 DEF SpareInv

LEMMA SpareInvCaller ==
  ASSUME TypeInv, StopInv, SpareInv, ~SubmitWhileClosing,
         NEW w \in Closers, CloserStep(w)
  PROVE  SpareInv'
<1> USE ThreadsDisjoint DEF TypeInv, TypeOK, Threads
<1>1. /\ \A r \in Runs : pc'[r] = pc[r] /\ ConnOf(r)' = ConnOf(r) /\ call'[r] = call[r]
      /\ \A v \in Closers \ {w} : pc'[v] = pc[v] /\ ConnOf(v)' = ConnOf(v)
      /\ pc'[w] # "idle"
  BY DEF CloserStep, Disconnect, WindowDestroyed, ReadActive, InsertDeferred, Closed,
         Goto, ConnOf
<1>2. /\ \A r \in Runs : Entering(r)' = Entering(r) /\ Registered(r)' = Registered(r)
  BY <1>1 DEF Entering, Registered
<1>3. ClosesSpare'
  BY <1>1, <1>2 DEF SpareInv, ClosesSpare
<1>4. \A c : ClosingFor(c) => ClosingFor(c)'
  <2>1. pc[w] # "idle" => ConnOf(w)' = ConnOf(w)
    BY DEF CloserStep, Disconnect, WindowDestroyed, ReadActive, InsertDeferred, Closed,
           ConnOf
  <2> QED
    BY <1>1, <2>1 DEF ClosingFor
<1>5. CallsHaveClosers'
  BY <1>1, <1>4 DEF SpareInv, CallsHaveClosers
<1>6. DeferralsHaveClosers'
  <2>1. deferred' = deferred \/ deferred' = deferred \cup {ConnOf(w)}
    BY DEF CloserStep, Disconnect, WindowDestroyed, ReadActive, InsertDeferred, Closed
  <2>2. deferred' # deferred => ConnOf(w)' = ConnOf(w)
    BY DEF CloserStep, Disconnect, WindowDestroyed, ReadActive, InsertDeferred, Closed,
           ConnOf
  <2>3. ASSUME NEW c, c = ConnOf(w), deferred' # deferred PROVE ClosingFor(c)'
    BY <1>1, <2>2, <2>3 DEF ClosingFor
  <2>4. ASSUME NEW c \in deferred' PROVE ClosingFor(c)'
    BY <1>4, <2>1, <2>3, <2>4 DEF SpareInv, DeferralsHaveClosers
  <2> QED
    BY <2>4 DEF DeferralsHaveClosers
<1>7. NobodyEnters'
  <2>1. \A c \in Conns : ClosingFor(c)' => ClosingFor(c) \/ MayClose(c)
    <3>1. pc[w] = "idle" =>
            \E c \in Conns : MayClose(c) /\ arg' = [arg EXCEPT ![w].conn = c]
      BY DEF CloserStep, Disconnect, WindowDestroyed, ReadActive, InsertDeferred, Closed, At
    <3>2. pc[w] = "idle" => MayClose(ConnOf(w)')
      BY <3>1 DEF ConnOf
    <3>3. pc[w] # "idle" => ConnOf(w)' = ConnOf(w)
      BY DEF CloserStep, Disconnect, WindowDestroyed, ReadActive, InsertDeferred, Closed,
             ConnOf
    <3> QED
      BY <1>1, <3>2, <3>3 DEF ClosingFor
  <2> QED
    BY <1>1, <1>2, <2>1 DEF SpareInv, NobodyEnters, MayClose, Entering
<1> QED
  BY <1>3, <1>5, <1>6, <1>7 DEF SpareInv

LEMMA SpareInvNext ==
  ~SubmitWhileClosing =>
    (TypeInv /\ LockInv /\ StopInv /\ SpareInv /\ [Next]_vars => SpareInv')
<1> SUFFICES ASSUME ~SubmitWhileClosing, TypeInv, LockInv, StopInv, SpareInv, [Next]_vars
             PROVE  SpareInv'
  OBVIOUS
<1>1. CASE SubmitSome
  <2>1. PICK c \in Conns, B \in (SUBSET Runs) \ {{}}, k \in 1..MaxConcurrency :
          \E idOf \in [B -> Ids],
             keyOf \in [B -> {ResourceKey(c, d, t) : d \in Directions, t \in Targets}] :
            Submit(c, B, idOf, keyOf, k)
    BY <1>1 DEF SubmitSome
  <2>2. PICK idOf, keyOf : Submit(c, B, idOf, keyOf, k)
    BY <2>1
  <2> QED
    BY <2>2, SpareInvSubmit
<1>2. CASE \E B \in SUBSET Runs : EnqueueStep(B)
  BY <1>2, SpareInvEnqueue
<1>3. CASE \E r \in Runs : RunStep(r)
  BY <1>3, SpareInvRun
<1>4. CASE \E t \in Threads : CloseStep(t)
  BY <1>4, SpareInvClose
<1>5. CASE \E w \in Closers : CloserStep(w)
  BY <1>5, SpareInvCaller
<1>6. CASE \/ \E x \in Cancelers : CancelerStep(x)
           \/ \E i \in Ids : RemoveTask(i)
           \/ Rest
           \/ UNCHANGED vars
  <2>1. /\ deferred' = deferred /\ call' = call
        /\ \A t \in Runs \cup Closers : pc'[t] = pc[t] /\ ConnOf(t)' = ConnOf(t)
    BY <1>6, ThreadsDisjoint
       DEF CancelerStep, CancelRequest, InsertCancellations, RemoveTask, Rest, vars,
           Goto, ConnOf, TypeInv, TypeOK, Threads
  <2> QED
    BY <2>1, SpareFrame DEF Entering, Registered
<1> QED
  BY <1>1, <1>2, <1>3, <1>4, <1>5, <1>6 DEF Next

\* Under the two provisos a close that the end of a transfer triggers never
\* takes the connection from another transfer (docs/sftp-transfer-window.md:14).
\* The README, section 4, shows the interleaving that does without the second.
THEOREM DeferredClosesSpareTransfers ==
  ~RetryWhileEnding /\ ~SubmitWhileClosing => (Spec => DeferredCloseSparesTransfers)
<1> SUFFICES ASSUME ~RetryWhileEnding, ~SubmitWhileClosing
             PROVE  Spec => DeferredCloseSparesTransfers
  OBVIOUS
<1>1. SpareInv =>
        [\A r \in Runs :
           call[r] = "disconnect" /\ call'[r] = "gather"
             => \A s \in Runs : ConnOf(s) = ConnOf(r) => ~Registered(s)]_vars
  BY DEF SpareInv, ClosesSpare
<1>2. TypeInv /\ LockInv /\ [Next]_vars => LockInv'
  BY LockInvNext
<1>3. TypeInv /\ LockInv /\ StopInv /\ SpareInv /\ [Next]_vars => SpareInv'
  BY SpareInvNext
<1> QED
  BY <1>1, <1>2, <1>3, TypeInvInit, TypeInvNext, LockInvInit, StopInvInit, StopInvNext,
     SpareInvInit, PTL DEF Spec, DeferredCloseSparesTransfers
=============================================================================
