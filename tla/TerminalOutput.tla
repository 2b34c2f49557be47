--------------------------- MODULE TerminalOutput ---------------------------
(***************************************************************************)
(* Output of one terminal on its way to the screen, and the flow control   *)
(* that keeps it bounded.  The backend task of terminal.rs reads from the  *)
(* shell, sends batches as terminal:data events and stops reading while    *)
(* too much is pending or unacknowledged (TerminalOutputFlow); the window  *)
(* queues the events, writes them to xterm batch by batch and acknowledges *)
(* each batch when xterm is done (terminalOutputFlow.ts).  A restart makes *)
(* a new task with a new flow; the window's controller stays.              *)
(*                                                                         *)
(* Lengths are in a unit of the instance's choice.  Left out: the text     *)
(* itself, the pressure display, the yielding to the event loop, and the   *)
(* alternate screen, which only chooses the timer a scheduled write waits  *)
(* for and, like control sequences in the queue, keeps Ctrl+C from         *)
(* dropping output.                                                        *)
(***************************************************************************)
EXTENDS Integers, SequencesExt

CONSTANTS
  Batch,             \* TERMINAL_OUTPUT_BATCH_BYTES
  High, Low,         \* TERMINAL_OUTPUT_HIGH_WATER_BYTES and ..._LOW_WATER_BYTES
  ReadMax,           \* longest read from the shell
  MaxBatch,          \* defaultMaxBatchBytes
  FloodBatch,        \* defaultFloodBatchBytes
  FloodThreshold,    \* defaultFloodThresholdBytes
  DropThreshold,     \* queued bytes from which Ctrl+C drops (128 KiB)
  MaxQueueItems,     \* defaultMaxQueueItems
  Output,            \* bound: how much each shell prints
  MaxSessions,       \* bound: how often the shell is started
  CtrlCWhileWriting, \* may Ctrl+C be pressed while xterm writes a batch?
  AcksOvertake,      \* may an acknowledgement overtake an earlier one?
  RestartUndrained   \* may the shell be restarted before its output is shown?

ASSUME FlowAssumption ==
  /\ Batch \in Nat \ {0} /\ ReadMax \in Nat \ {0}
  /\ Low \in Nat /\ High \in Nat /\ Low < High
  /\ Output \in Nat /\ MaxSessions \in Nat \ {0}

ASSUME WindowAssumption ==
  /\ MaxBatch \in Nat \ {0} /\ FloodBatch \in Nat /\ FloodThreshold \in Nat
  /\ DropThreshold \in Nat /\ MaxQueueItems \in Nat \ {0}
  /\ {CtrlCWhileWriting, AcksOvertake, RestartUndrained} \subseteq BOOLEAN

VARIABLES
  \* the backend task
  session,      \* which start of the shell this is
  alive,        \* the task runs and the terminals map holds it
  left,         \* what the shell still has to print
  flow,         \* TerminalOutputFlow
  \* between backend and window
  events,       \* terminal:data events on their way, in order
  acks,         \* acknowledgements on their way
  \* the window's controller
  queue,        \* chunks waiting to be written
  queuedBytes,  \* their length, counted along
  writing,      \* the batch xterm is writing, or NoChunk
  scheduled,    \* a write has been scheduled
  visible       \* the terminal is visible

backend == <<session, alive, left, flow>>
window  == <<queue, queuedBytes, writing, scheduled, visible>>
vars    == <<backend, events, acks, window>>

-----------------------------------------------------------------------------
(* TerminalOutputFlow *)

NewFlow == [pending |-> 0, inFlight |-> 0, nextSequence |-> 0, lastAcked |-> 0,
            backpressured |-> FALSE]

Buffered(f) == f.inFlight + f.pending

Refresh(f) ==
  CASE f.backpressured /\ Buffered(f) <= Low -> [f EXCEPT !.backpressured = FALSE]
    [] ~f.backpressured /\ Buffered(f) >= High -> [f EXCEPT !.backpressured = TRUE]
    [] OTHER -> f

\* Mutant: the watermark is looked at only when a batch is sent.
PushUnchecked(f, n) == [f EXCEPT !.pending = @ + n]

Push(f, n) == Refresh([f EXCEPT !.pending = @ + n])

Flush(f) == Refresh([f EXCEPT !.pending = 0, !.inFlight = @ + f.pending,
                              !.nextSequence = @ + 1])

\* An acknowledgement that is not newer than the last one is ignored.
Acknowledge(f, sequence, n) ==
  IF sequence <= f.lastAcked
  THEN f
  ELSE Refresh([f EXCEPT !.lastAcked = sequence, !.inFlight = IF @ > n THEN @ - n ELSE 0])

-----------------------------------------------------------------------------
(* Chunks of output: the sequence numbers first..sequence of one session.  *)

Chunk(s, first, sequence, n) ==
  [session |-> s, first |-> first, sequence |-> sequence, bytes |-> n]
NoChunk == Chunk(0, 0, 0, 0)

\* The event that Flush emits.
Emission(f) == Chunk(session, f.nextSequence + 1, f.nextSequence + 1, f.pending)

Bytes(chunks) ==
  LET total[n \in 0..Len(chunks)] == IF n = 0 THEN 0 ELSE total[n - 1] + chunks[n].bytes
  IN  total[Len(chunks)]

\* Mutant: a joined chunk is acknowledged by the first of its numbers.
JoinUnderFirst(chunks) == [Head(chunks) EXCEPT !.bytes = Bytes(chunks)]

\* Chunks written or acknowledged together go by the last of their numbers.
Join(chunks) ==
  Chunk(Last(chunks).session, Head(chunks).first, Last(chunks).sequence, Bytes(chunks))

\* Mutant: the last, shorter group is cut off.
CompactWholeGroups(chunks) ==
  IF Len(chunks) <= MaxQueueItems
  THEN chunks
  ELSE LET target == Max({1, MaxQueueItems \div 2})
           size   == Max({2, (Len(chunks) + target - 1) \div target})
       IN  [g \in 1..(Len(chunks) \div size) |->
              Join(SubSeq(chunks, (g - 1) * size + 1, g * size))]

\* compactQueue: a queue that is too long is joined group by group.
Compact(chunks) ==
  IF Len(chunks) <= MaxQueueItems
  THEN chunks
  ELSE LET target == Max({1, MaxQueueItems \div 2})
           size   == Max({2, (Len(chunks) + target - 1) \div target})
           groups == (Len(chunks) + size - 1) \div size
       IN  [g \in 1..groups |->
              Join(SubSeq(chunks, (g - 1) * size + 1, Min({g * size, Len(chunks)})))]

\* takeBatch: as many chunks as fit, but at least one.
BatchLimit == IF queuedBytes >= FloodThreshold THEN Max({MaxBatch, FloodBatch}) ELSE MaxBatch
BatchLength ==
  Max({1} \cup {n \in 1..Len(queue) : Bytes(SubSeq(queue, 1, n)) <= BatchLimit})

-----------------------------------------------------------------------------
(* The backend task *)

Init ==
  /\ session = 1 /\ alive = TRUE /\ left = Output /\ flow = NewFlow
  /\ events = <<>> /\ acks = <<>>
  /\ queue = <<>> /\ queuedBytes = 0 /\ writing = NoChunk
  /\ scheduled = FALSE /\ visible = TRUE

CanRead == alive /\ ~flow.backpressured

\* A full batch is sent with the read that fills it.
Read(n) ==
  /\ CanRead /\ n <= left
  /\ left' = left - n
  /\ LET pushed == Push(flow, n)
         full   == pushed.pending >= Batch
     IN  /\ flow' = IF full THEN Flush(pushed) ELSE pushed
         /\ events' = IF full THEN Append(events, Emission(pushed)) ELSE events
  /\ UNCHANGED <<session, alive, acks, window>>

\* output_tick sends what has not filled a batch.
Tick ==
  /\ alive /\ flow.pending > 0
  /\ flow' = Flush(flow)
  /\ events' = Append(events, Emission(flow))
  /\ UNCHANGED <<session, alive, left, acks, window>>

\* The end of the shell is read like its output, so not under backpressure.
Exit ==
  /\ CanRead
  /\ alive' = FALSE
  /\ flow' = IF flow.pending > 0 THEN Flush(flow) ELSE flow
  /\ events' = IF flow.pending > 0 THEN Append(events, Emission(flow)) ELSE events
  /\ UNCHANGED <<session, left, acks, window>>

Drained == events = <<>> /\ acks = <<>> /\ queue = <<>> /\ writing = NoChunk

\* The user, or the reconnect timer, starts the shell again.
Restart ==
  /\ ~alive /\ session < MaxSessions
  /\ RestartUndrained \/ Drained
  /\ session' = session + 1 /\ alive' = TRUE /\ left' = Output /\ flow' = NewFlow
  /\ UNCHANGED <<events, acks, window>>

\* Mutant: an acknowledgement changes the count and not the pressure.
ServeAckUnrefreshed(i) ==
  /\ i = 1 \/ AcksOvertake
  /\ acks' = RemoveAt(acks, i)
  /\ flow' = IF alive /\ acks[i].sequence > flow.lastAcked
             THEN [flow EXCEPT !.lastAcked = acks[i].sequence, !.inFlight = @ - acks[i].bytes]
             ELSE flow
  /\ UNCHANGED <<session, alive, left, events, window>>

\* acknowledge_terminal_output checks the numbers it is given and finds the
\* task by the terminal's id alone.
\* Calls are asynchronous commands, served in any order if AcksOvertake.
ServeAck(i) ==
  /\ i = 1 \/ AcksOvertake
  /\ acks' = RemoveAt(acks, i)
  /\ flow' = IF alive /\ acks[i].sequence \in Nat /\ acks[i].bytes \in 1..(2 * High)
             THEN Acknowledge(flow, acks[i].sequence, acks[i].bytes)
             ELSE flow
  /\ UNCHANGED <<session, alive, left, events, window>>

-----------------------------------------------------------------------------
(* The window's controller *)

\* schedule(), given the queue and the batch being written.
Scheduled(chunks, batch) == visible /\ batch = NoChunk /\ chunks # <<>>

\* enqueue
Deliver ==
  /\ events # <<>>
  /\ events' = Tail(events)
  /\ queue' = Compact(Append(queue, Head(events)))
  /\ queuedBytes' = queuedBytes + Head(events).bytes
  /\ scheduled' = (scheduled \/ Scheduled(queue', writing))
  /\ UNCHANGED <<backend, acks, writing, visible>>

\* The scheduled turn hands a batch to xterm.
Write ==
  /\ scheduled
  /\ LET batch == SubSeq(queue, 1, BatchLength)
     IN  /\ writing' = Join(batch)
         /\ queue' = SubSeq(queue, BatchLength + 1, Len(queue))
         /\ queuedBytes' = queuedBytes - Bytes(batch)
  /\ scheduled' = FALSE
  /\ UNCHANGED <<backend, events, acks, visible>>

\* xterm has written the batch: acknowledge it and go on.
Done ==
  /\ writing # NoChunk
  /\ writing' = NoChunk
  /\ acks' = Append(acks, writing)
  /\ scheduled' = (scheduled \/ Scheduled(queue, NoChunk))
  /\ UNCHANGED <<backend, events, queue, queuedBytes, visible>>

\* prioritizeInput: Ctrl+C drops what is queued and acknowledges it at once.
CtrlC ==
  /\ queue # <<>> /\ queuedBytes >= DropThreshold
  /\ CtrlCWhileWriting \/ writing = NoChunk
  /\ queue' = <<>> /\ queuedBytes' = 0 /\ scheduled' = FALSE
  /\ acks' = Append(acks, Join(queue))
  /\ UNCHANGED <<backend, events, writing, visible>>

\* setVisible: a hidden terminal writes nothing, so it acknowledges nothing.
Hide ==
  /\ visible
  /\ visible' = FALSE /\ scheduled' = FALSE
  /\ UNCHANGED <<backend, events, acks, queue, queuedBytes, writing>>

Show ==
  /\ ~visible
  /\ visible' = TRUE
  /\ scheduled' = (writing = NoChunk /\ queue # <<>>)
  /\ UNCHANGED <<backend, events, acks, queue, queuedBytes, writing>>

-----------------------------------------------------------------------------
Next ==
  \/ \E n \in 1..ReadMax : Read(n)
  \/ Tick
  \/ Exit
  \/ Restart
  \/ \E i \in 1..Len(acks) : ServeAck(i)
  \/ Deliver
  \/ Write
  \/ Done
  \/ CtrlC
  \/ Hide
  \/ Show

Spec == Init /\ [][Next]_vars

\* The shell prints all it has while it is read; the task's timer, the event
\* channel, the calls, scheduled turns and xterm's callback all go on.
\* Nobody has to leave the shell, restart it, press a key or show the window.
Fairness ==
  /\ WF_vars(\E n \in 1..ReadMax : Read(n))
  /\ WF_vars(Tick)
  /\ WF_vars(\E i \in 1..Len(acks) : ServeAck(i))
  /\ WF_vars(Deliver)
  /\ WF_vars(Write)
  /\ WF_vars(Done)

FairSpec == Spec /\ Fairness

-----------------------------------------------------------------------------
(* Properties *)

FlowType ==
  [pending : Nat, inFlight : Nat, nextSequence : Nat, lastAcked : Nat,
   backpressured : BOOLEAN]

ChunkType == [session : Nat, first : Nat, sequence : Nat, bytes : Nat]

TypeOK ==
  /\ session \in 1..MaxSessions /\ alive \in BOOLEAN /\ left \in 0..Output
  /\ flow \in FlowType
  /\ events \in Seq(ChunkType) /\ acks \in Seq(ChunkType) /\ queue \in Seq(ChunkType)
  /\ queuedBytes \in Nat /\ writing \in ChunkType
  /\ scheduled \in BOOLEAN /\ visible \in BOOLEAN

\* docs/ssh-architecture.md: output is bounded.  However slowly the window
\* acknowledges, the task holds less than the high watermark and one read
\* more, and reads only while it holds less than the watermark.
OutputBounded ==
  /\ Buffered(flow) < High + ReadMax
  /\ ~flow.backpressured => Buffered(flow) < High

\* Everything on its way through the window, oldest first.
InWindow == (IF writing = NoChunk THEN <<>> ELSE <<writing>>) \o queue \o events

\* xterm gets the output in the order of its numbers, and nothing between two
\* chunks is lost on the way, through batches, joined chunks and restarts.
OutputInOrder ==
  \A i \in 1..(Len(InWindow) - 1) :
    \/ InWindow[i + 1].first = InWindow[i].sequence + 1
    \/ InWindow[i + 1].first = 1 /\ InWindow[i].session < InWindow[i + 1].session

\* What the running task counts as unacknowledged is what is on its way to
\* the screen, or on its way back as an acknowledgement: counting less would
\* let the window's queue grow, counting more would stop the terminal.
InFlightIsOutstanding ==
  alive => flow.inFlight = Bytes(InWindow) + Bytes(acks)

\* docs/ssh-architecture.md: reading resumes at the low watermark.  When the
\* window has shown all it was sent and its acknowledgements have arrived,
\* the task reads.
ReadingResumes == (alive /\ flow.pending = 0 /\ Drained) => CanRead

\* In a terminal that stays visible all output is shown, and acknowledged.
OutputIsShown ==
  <>[]visible => <>[](Drained /\ flow.pending = 0 /\ (alive => left = 0))
=============================================================================
