------------------------ MODULE TerminalOutputProofs ------------------------
(***************************************************************************)
(* Theorems about the output of a terminal, for all batch sizes,           *)
(* watermarks, read lengths and lengths of the window's queue.             *)
(*                                                                         *)
(* The backend's output stays bounded whatever the window acknowledges, in *)
(* whatever order and however often.  The output reaches xterm in order,   *)
(* and what the task counts as in flight is what is on its way, for the    *)
(* order of events that the theorems name.  Both are about sequences of    *)
(* chunks that the window joins again and again: the relation Rejoins says *)
(* what joining keeps, and the steps of the window are shown to be steps   *)
(* of that relation.                                                       *)
(***************************************************************************)
EXTENDS TerminalOutput, SequenceTheorems, WellFoundedInduction, TLAPS

-----------------------------------------------------------------------------
(* The task *)

(* OutputBounded is not inductive: Flush and Acknowledge need to know that *)
(* the counts are natural numbers.                                         *)
FlowInv == flow \in FlowType /\ OutputBounded

(* After Refresh a flow that reads is below the high watermark.            *)
LEMMA RefreshSettles ==
  ASSUME NEW f, f \in FlowType
  PROVE  /\ Refresh(f) \in FlowType
         /\ Buffered(Refresh(f)) = Buffered(f)
         /\ Refresh(f).pending = f.pending
         /\ ~Refresh(f).backpressured => Buffered(f) < High
<1>1. Buffered(f) \in Nat /\ Low \in Nat /\ High \in Nat /\ Low < High
  BY FlowAssumption DEF FlowType, Buffered
<1>2. CASE f.backpressured /\ Buffered(f) <= Low
  <2>1. Refresh(f) = [f EXCEPT !.backpressured = FALSE]
    BY <1>2 DEF Refresh
  <2>2. Buffered(f) < High
    BY <1>1, <1>2
  <2>3. /\ Refresh(f) \in FlowType /\ Refresh(f).pending = f.pending
        /\ Refresh(f).inFlight = f.inFlight
    BY <2>1 DEF FlowType
  <2> QED BY <2>2, <2>3 DEF Buffered
<1>3. CASE ~f.backpressured /\ Buffered(f) >= High
  <2>1. Refresh(f) = [f EXCEPT !.backpressured = TRUE]
    BY <1>3 DEF Refresh
  <2> QED BY <2>1 DEF FlowType, Buffered
<1>4. CASE ~(f.backpressured /\ Buffered(f) <= Low) /\ ~(~f.backpressured /\ Buffered(f) >= High)
  <2>1. Refresh(f) = f
    BY <1>4 DEF Refresh
  <2> QED BY <1>1, <1>4, <2>1
<1> QED BY <1>2, <1>3, <1>4

(* A read adds its length to what is buffered.                             *)
LEMMA PushAdds ==
  ASSUME NEW f, f \in FlowType, NEW n \in Nat
  PROVE  /\ Push(f, n) \in FlowType
         /\ Buffered(Push(f, n)) = Buffered(f) + n
         /\ ~Push(f, n).backpressured => Buffered(Push(f, n)) < High
<1> DEFINE pushed == [f EXCEPT !.pending = @ + n]
<1>1. pushed = [pending |-> f.pending + n, inFlight |-> f.inFlight,
                nextSequence |-> f.nextSequence, lastAcked |-> f.lastAcked,
                backpressured |-> f.backpressured]
  BY DEF FlowType
<1>2. pushed \in FlowType /\ Buffered(pushed) = Buffered(f) + n
  BY <1>1 DEF FlowType, Buffered
<1> HIDE DEF pushed
<1> QED BY <1>2, RefreshSettles DEF Push, pushed

(* Sending moves what is pending to what is in flight.                     *)
LEMMA FlushMoves ==
  ASSUME NEW f, f \in FlowType
  PROVE  /\ Flush(f) \in FlowType
         /\ Buffered(Flush(f)) = Buffered(f)
         /\ ~Flush(f).backpressured => Buffered(Flush(f)) < High
<1> DEFINE sent == [f EXCEPT !.pending = 0, !.inFlight = @ + f.pending, !.nextSequence = @ + 1]
<1>0. f.nextSequence + 1 \in Nat /\ f.inFlight + f.pending \in Nat
  BY DEF FlowType
<1>1. /\ sent \in FlowType
      /\ sent.pending = 0 /\ sent.inFlight = f.inFlight + f.pending
  <2>1. sent = [f EXCEPT !.pending = 0, !.inFlight = f.inFlight + f.pending,
                         !.nextSequence = f.nextSequence + 1]
    BY DEF FlowType
  <2> HIDE DEF sent
  <2> QED BY <1>0, <2>1 DEF FlowType
<1>2. Buffered(sent) = Buffered(f)
  BY <1>1 DEF FlowType, Buffered
<1> HIDE DEF sent
<1> QED BY <1>1, <1>2, RefreshSettles DEF Flush, sent

(* An acknowledgement frees bytes and never counts below zero.             *)
LEMMA AcknowledgeFrees ==
  ASSUME NEW f, f \in FlowType, NEW sequence \in Nat, NEW n \in Nat,
         ~f.backpressured => Buffered(f) < High
  PROVE  /\ Acknowledge(f, sequence, n) \in FlowType
         /\ Buffered(Acknowledge(f, sequence, n)) <= Buffered(f)
         /\ ~Acknowledge(f, sequence, n).backpressured
              => Buffered(Acknowledge(f, sequence, n)) < High
<1> DEFINE rest  == IF f.inFlight > n THEN f.inFlight - n ELSE 0
           freed == [f EXCEPT !.lastAcked = sequence, !.inFlight = rest]
<1>1. rest \in Nat /\ rest <= f.inFlight
  BY DEF FlowType
<1>2. freed = [f EXCEPT !.lastAcked = sequence, !.inFlight = IF @ > n THEN @ - n ELSE 0]
  BY DEF FlowType
<1> HIDE DEF rest
<1>a. /\ freed \in FlowType
      /\ freed.pending = f.pending /\ freed.inFlight = rest
  BY <1>1 DEF FlowType
<1> HIDE DEF freed
<1>3. freed \in FlowType /\ Buffered(freed) <= Buffered(f)
  BY <1>1, <1>a DEF FlowType, Buffered
<1>4. CASE sequence <= f.lastAcked
  <2>1. Buffered(f) \in Nat
    BY DEF FlowType, Buffered
  <2> QED BY <1>4, <2>1 DEF Acknowledge
<1>5. CASE ~(sequence <= f.lastAcked)
  <2>1. Acknowledge(f, sequence, n) = Refresh(freed)
    BY <1>5, <1>2 DEF Acknowledge
  <2>2. /\ Refresh(freed) \in FlowType
        /\ Buffered(Refresh(freed)) = Buffered(freed)
        /\ ~Refresh(freed).backpressured => Buffered(freed) < High
    BY <1>3, RefreshSettles
  <2> QED BY <1>3, <2>1, <2>2
<1> QED BY <1>4, <1>5

LEMMA FlowInvariant == Spec => []FlowInv
<1>1. Init => FlowInv
  <2> SUFFICES ASSUME Init PROVE FlowInv
    OBVIOUS
  <2>1. flow \in FlowType
    BY DEF Init, NewFlow, FlowType
  <2>2. Buffered(flow) = 0
    BY DEF Init, NewFlow, Buffered
  <2> QED BY <2>1, <2>2, FlowAssumption DEF FlowInv, OutputBounded
<1>2. FlowInv /\ [Next]_vars => FlowInv'
  <2> SUFFICES ASSUME FlowInv, [Next]_vars
               PROVE  FlowInv'
    OBVIOUS
  <2>0. flow \in FlowType /\ Buffered(flow) \in Nat /\ High \in Nat /\ ReadMax \in Nat
    BY FlowAssumption DEF FlowInv, FlowType, Buffered
  <2> DEFINE bounded(f) == /\ f \in FlowType /\ Buffered(f) < High + ReadMax
                           /\ ~f.backpressured => Buffered(f) < High
  <2>a. bounded(flow') => FlowInv'
    BY DEF FlowInv, OutputBounded, Buffered, FlowType
  <2>b. bounded(flow)
    BY DEF FlowInv, OutputBounded
  <2>c. bounded(Flush(flow))
    BY <2>0, <2>b, FlushMoves
  <2> SUFFICES bounded(flow')
    BY <2>a
  <2>1. ASSUME NEW n \in 1..ReadMax, Read(n)
        PROVE  bounded(flow')
    <3> DEFINE pushed == Push(flow, n)
    <3>1. n \in Nat /\ n <= ReadMax /\ Buffered(flow) < High
      BY <2>0, <2>1, <2>b DEF Read, CanRead
    <3>2. pushed \in FlowType /\ Buffered(pushed) = Buffered(flow) + n
          /\ (~pushed.backpressured => Buffered(pushed) < High)
      BY <2>0, <3>1, PushAdds
    <3>3. flow' = pushed \/ flow' = Flush(pushed)
      BY <2>1 DEF Read
    <3> HIDE DEF pushed
    <3>4. bounded(pushed)
      BY <2>0, <3>1, <3>2
    <3>5. bounded(Flush(pushed))
      BY <3>2, <3>4, FlushMoves
    <3> QED BY <3>3, <3>4, <3>5
  <2>2. CASE Tick
    BY <2>2, <2>c DEF Tick
  <2>3. CASE Exit
    <3>1. flow' = flow \/ flow' = Flush(flow)
      BY <2>3 DEF Exit
    <3> QED BY <2>b, <2>c, <3>1
  <2>4. CASE Restart
    <3>1. flow' = NewFlow
      BY <2>4 DEF Restart
    <3>2. NewFlow \in FlowType /\ Buffered(NewFlow) = 0
      BY DEF NewFlow, FlowType, Buffered
    <3>3. bounded(NewFlow)
      BY <3>2, FlowAssumption
    <3> QED BY <3>1, <3>3
  <2>5. ASSUME NEW i \in 1..Len(acks), ServeAck(i)
        PROVE  bounded(flow')
    <3>1. CASE flow' = flow
      BY <2>b, <3>1
    <3>2. CASE flow' # flow
      <4>1. /\ acks[i].sequence \in Nat
            /\ acks[i].bytes \in 1..(2 * High)
            /\ flow' = Acknowledge(flow, acks[i].sequence, acks[i].bytes)
        BY <2>5, <3>2 DEF ServeAck
      <4>2. acks[i].bytes \in Nat
        BY <2>0, <4>1
      <4> DEFINE next == Acknowledge(flow, acks[i].sequence, acks[i].bytes)
      <4>3. next \in FlowType /\ Buffered(next) <= Buffered(flow)
            /\ (~next.backpressured => Buffered(next) < High)
        BY <2>0, <2>b, <4>1, <4>2, AcknowledgeFrees
      <4> HIDE DEF next
      <4>4. Buffered(next) \in Nat
        BY <4>3 DEF FlowType, Buffered
      <4>5. bounded(next)
        BY <2>0, <2>b, <4>3, <4>4
      <4> QED BY <4>1, <4>5 DEF next
    <3> QED BY <3>1, <3>2
  <2>6. CASE UNCHANGED flow
    BY <2>b, <2>6
  <2>7. Deliver \/ Write \/ Done \/ CtrlC \/ Hide \/ Show \/ UNCHANGED vars => UNCHANGED flow
    BY DEF Deliver, Write, Done, CtrlC, Hide, Show, vars, backend
  <2> QED BY <2>1, <2>2, <2>3, <2>4, <2>5, <2>6, <2>7 DEF Next
<1> QED BY <1>1, <1>2, PTL DEF Spec

(* OutputBounded of every reachable state: high and low watermark and the  *)
(* length of a read bound what the task holds for a terminal.              *)
THEOREM OutputStaysBounded == Spec => []OutputBounded
<1>1. FlowInv => OutputBounded
  BY DEF FlowInv
<1> QED BY <1>1, FlowInvariant, PTL

(* Refresh changes nothing but the pressure.                               *)
LEMMA RefreshKeeps ==
  ASSUME NEW f, f \in FlowType
  PROVE  /\ Refresh(f) \in FlowType
         /\ Refresh(f).pending = f.pending /\ Refresh(f).inFlight = f.inFlight
         /\ Refresh(f).nextSequence = f.nextSequence /\ Refresh(f).lastAcked = f.lastAcked
<1>1. Refresh(f) = f \/ \E b \in BOOLEAN : Refresh(f) = [f EXCEPT !.backpressured = b]
  BY DEF Refresh
<1> QED BY <1>1 DEF FlowType

(* A read changes what is pending and nothing that was sent.               *)
LEMMA PushKeeps ==
  ASSUME NEW f, f \in FlowType, NEW n \in Nat
  PROVE  /\ Push(f, n) \in FlowType
         /\ Push(f, n).pending = f.pending + n /\ Push(f, n).inFlight = f.inFlight
         /\ Push(f, n).nextSequence = f.nextSequence /\ Push(f, n).lastAcked = f.lastAcked
<1> DEFINE pushed == [f EXCEPT !.pending = @ + n]
<1>1. pushed = [pending |-> f.pending + n, inFlight |-> f.inFlight,
                nextSequence |-> f.nextSequence, lastAcked |-> f.lastAcked,
                backpressured |-> f.backpressured]
  BY DEF FlowType
<1>2. pushed \in FlowType
  BY <1>1 DEF FlowType
<1>3. Push(f, n) = Refresh(pushed)
  BY DEF Push
<1>4. /\ pushed.pending = f.pending + n /\ pushed.inFlight = f.inFlight
      /\ pushed.nextSequence = f.nextSequence /\ pushed.lastAcked = f.lastAcked
  BY <1>1
<1> HIDE DEF pushed
<1> QED BY <1>2, <1>3, <1>4, RefreshKeeps

(* Sending takes the next number and counts the bytes as in flight.        *)
LEMMA FlushSends ==
  ASSUME NEW f, f \in FlowType
  PROVE  /\ Flush(f) \in FlowType
         /\ Flush(f).pending = 0 /\ Flush(f).inFlight = f.inFlight + f.pending
         /\ Flush(f).nextSequence = f.nextSequence + 1 /\ Flush(f).lastAcked = f.lastAcked
<1> DEFINE sent == [f EXCEPT !.pending = 0, !.inFlight = @ + f.pending, !.nextSequence = @ + 1]
<1>0. f.nextSequence + 1 \in Nat /\ f.inFlight + f.pending \in Nat
  BY DEF FlowType
<1>1. sent = [f EXCEPT !.pending = 0, !.inFlight = f.inFlight + f.pending,
                       !.nextSequence = f.nextSequence + 1]
  BY DEF FlowType
<1>3. Flush(f) = Refresh(sent)
  BY DEF Flush
<1>4. /\ sent.pending = 0 /\ sent.inFlight = f.inFlight + f.pending
      /\ sent.nextSequence = f.nextSequence + 1 /\ sent.lastAcked = f.lastAcked
  BY DEF FlowType
<1> HIDE DEF sent
<1>2. sent \in FlowType
  BY <1>0, <1>1 DEF FlowType
<1> QED BY <1>2, <1>3, <1>4, RefreshKeeps

(* An acknowledgement that is newer than the last, of bytes in flight,     *)
(* settles exactly these.                                                  *)
LEMMA AcknowledgeSettles ==
  ASSUME NEW f, f \in FlowType, NEW q \in Nat, NEW n \in Nat
  PROVE  /\ Acknowledge(f, q, n) \in FlowType
         /\ Acknowledge(f, q, n).nextSequence = f.nextSequence
         /\ q > f.lastAcked /\ n <= f.inFlight =>
              /\ Acknowledge(f, q, n).lastAcked = q
              /\ Acknowledge(f, q, n).inFlight = f.inFlight - n
<1> DEFINE rest  == IF f.inFlight > n THEN f.inFlight - n ELSE 0
           freed == [f EXCEPT !.lastAcked = q, !.inFlight = IF @ > n THEN @ - n ELSE 0]
<1>1. rest \in Nat /\ (n <= f.inFlight => rest = f.inFlight - n)
  BY DEF FlowType
<1>2. freed = [f EXCEPT !.lastAcked = q, !.inFlight = rest]
  BY DEF FlowType
<1> HIDE DEF rest
<1>3. /\ freed \in FlowType /\ freed.inFlight = rest
      /\ freed.nextSequence = f.nextSequence /\ freed.lastAcked = q
  BY <1>1, <1>2 DEF FlowType
<1>4. Acknowledge(f, q, n) = IF q <= f.lastAcked THEN f ELSE Refresh(freed)
  BY DEF Acknowledge
<1> HIDE DEF freed
<1>5. f.lastAcked \in Nat
  BY DEF FlowType
<1> QED BY <1>1, <1>3, <1>4, <1>5, RefreshKeeps

-----------------------------------------------------------------------------
(* Induction and greatest elements *)

(* A set of naturals that is not empty has a least element.                *)
LEMMA LeastNatural ==
  ASSUME NEW T, T \subseteq Nat, T # {}
  PROVE  \E n \in T : \A m \in T : n <= m
<1> DEFINE R == {ss \in Nat \X Nat : ss[1] < ss[2]}
<1>0. IsWellFoundedOn(R, Nat)
  BY NatLessThanWellFounded DEF OpToRel
<1> HIDE DEF R
<1>1. PICK n \in T : \A m \in T : ~(<<m, n>> \in R)
  BY <1>0, WFMin
<1>2. \A m \in T : ~(m < n)
  BY <1>1 DEF R
<1> QED BY <1>2

(* Induction, as a fact about sets: the library's theorem takes an operator. *)
LEMMA SetInduction ==
  ASSUME NEW P, 0 \in P, \A n \in Nat : n \in P => n + 1 \in P
  PROVE  Nat \subseteq P
<1> SUFFICES ASSUME Nat \ P # {} PROVE FALSE
  OBVIOUS
<1>1. PICK n \in Nat \ P : \A m \in Nat \ P : n <= m
  BY LeastNatural
<1>2. n # 0 /\ n - 1 \in Nat
  BY <1>1
<1>3. n - 1 \in P
  BY <1>1, <1>2
<1> QED BY <1>1, <1>2, <1>3

(* A set of naturals with a bound has a greatest element.                  *)
LEMMA GreatestNatural ==
  ASSUME NEW T, T \subseteq Nat, T # {}, NEW b \in Nat, \A m \in T : m <= b
  PROVE  Max(T) \in T /\ \A m \in T : m <= Max(T)
<1> DEFINE R == {b - m : m \in T}
<1>1. R \subseteq Nat /\ R # {}
  <2>1. \A m \in T : b - m \in Nat
    OBVIOUS
  <2>2. PICK m \in T : TRUE
    OBVIOUS
  <2>3. b - m \in R
    BY <2>2
  <2> QED BY <2>1, <2>3
<1>2. PICK n \in R : \A m \in R : n <= m
  BY <1>1, LeastNatural
<1>3. \E x \in T : \A y \in T : x >= y
  <2>1. PICK x \in T : n = b - x
    BY <1>2
  <2>2. \A y \in T : b - x <= b - y
    BY <1>2, <2>1
  <2>3. \A y \in T : x >= y
    BY <2>1, <2>2
  <2> QED BY <2>1, <2>3
<1>4. Max(T) \in T /\ \A y \in T : Max(T) >= y
  BY <1>3 DEF Max
<1> QED BY <1>4

-----------------------------------------------------------------------------
(* The bytes of a sequence of chunks *)

(* The sums that Bytes counts along a sequence.                            *)
Sums(s, total) ==
  /\ total \in [0..Len(s) -> Nat]
  /\ total[0] = 0
  /\ \A n \in 1..Len(s) : total[n] = total[n - 1] + s[n].bytes

(* Every sequence of chunks has its sums, and Bytes is the last of them.   *)
LEMMA BytesAreSummed ==
  ASSUME NEW s \in Seq(ChunkType)
  PROVE  \E total : Sums(s, total) /\ Bytes(s) = total[Len(s)]
<1>0. Len(s) \in Nat /\ \A n \in 1..Len(s) : s[n].bytes \in Nat
  <2>1. Len(s) \in Nat /\ \A n \in 1..Len(s) : s[n] \in ChunkType
    BY LenProperties, ElementOfSeq
  <2> QED BY <2>1 DEF ChunkType
<1> DEFINE step(f, n) == IF n = 0 THEN 0 ELSE f[n - 1] + s[n].bytes
           upTo(N) == \E f : f = [n \in 0..N |-> step(f, n)] /\ f \in [0..N -> Nat]
           P == {N \in Nat : N <= Len(s) => upTo(N)}
<1>1. 0 \in P
  <2> DEFINE f == [n \in 0..0 |-> 0]
  <2>1. f = [n \in 0..0 |-> step(f, n)] /\ f \in [0..0 -> Nat]
    OBVIOUS
  <2> QED BY <2>1
<1>2. ASSUME NEW N \in Nat, N \in P
      PROVE  N + 1 \in P
  <2> SUFFICES ASSUME N + 1 <= Len(s) PROVE upTo(N + 1)
    BY SMTT(20)
  <2>0. upTo(N)
    <3> HIDE DEF upTo
    <3>1. N <= Len(s)
      BY <1>0
    <3> QED BY <1>2, <3>1
  <2>1. PICK f : f = [n \in 0..N |-> step(f, n)] /\ f \in [0..N -> Nat]
    BY <2>0
  <2> DEFINE g == [n \in 0..(N + 1) |-> IF n = N + 1 THEN f[N] + s[N + 1].bytes ELSE f[n]]
  <2>2. g \in [0..(N + 1) -> Nat]
    BY <1>0, <2>1
  <2>3. \A n \in 0..(N + 1) : g[n] = step(g, n)
    <3> SUFFICES ASSUME NEW n \in 0..(N + 1) PROVE g[n] = step(g, n)
      OBVIOUS
    <3>1. CASE n = N + 1
      BY <3>1
    <3>2. CASE n # N + 1
      <4>1. n \in 0..N /\ g[n] = f[n] /\ f[n] = step(f, n)
        BY <2>1, <3>2
      <4>2. n # 0 => n - 1 \in 0..N /\ g[n - 1] = f[n - 1]
        BY <4>1
      <4> QED BY <4>1, <4>2
    <3> QED BY <3>1, <3>2
  <2> HIDE DEF g
  <2>4. g = [n \in 0..(N + 1) |-> step(g, n)]
    BY <2>2, <2>3
  <2> QED BY <2>2, <2>4
<1>3. upTo(Len(s))
  <2> HIDE DEF P
  <2>1. Nat \subseteq P
    BY <1>1, <1>2, SetInduction
  <2> QED BY <1>0, <2>1 DEF P
<1> DEFINE total == CHOOSE f : f = [n \in 0..Len(s) |-> step(f, n)]
<1>4. total = [n \in 0..Len(s) |-> step(total, n)]
  BY <1>3
<1>5. Bytes(s) = total[Len(s)]
  BY DEF Bytes
<1> HIDE DEF total
<1>6. \A n \in 0..Len(s) : total[n] = step(total, n)
  BY <1>4
<1>7. total \in [0..Len(s) -> Nat]
  <2> DEFINE Q == {n \in Nat : n <= Len(s) => total[n] \in Nat}
  <2>1. 0 \in Q
    BY <1>0, <1>6
  <2>2. ASSUME NEW n \in Nat, n \in Q
        PROVE  n + 1 \in Q
    <3> SUFFICES ASSUME n + 1 <= Len(s) PROVE total[n + 1] \in Nat
      OBVIOUS
    <3>1. total[n + 1] = total[n] + s[n + 1].bytes
      BY <1>0, <1>6
    <3> QED BY <1>0, <2>2, <3>1
  <2>3. Nat \subseteq Q
    <3> HIDE DEF Q
    <3> QED BY <2>1, <2>2, SetInduction
  <2>4. \A n \in 0..Len(s) : total[n] \in Nat
    BY <1>0, <2>3
  <2> QED BY <1>4, <2>4
<1>8. Sums(s, total)
  BY <1>0, <1>6, <1>7 DEF Sums
<1> QED BY <1>5, <1>8

(* What Bytes is of a sequence built up chunk by chunk.                    *)
LEMMA BytesOfAppend ==
  ASSUME NEW s \in Seq(ChunkType), NEW c \in ChunkType
  PROVE  Bytes(Append(s, c)) = Bytes(s) + c.bytes
<1> DEFINE t == Append(s, c)
<1>0. Len(s) \in Nat /\ t \in Seq(ChunkType) /\ Len(t) = Len(s) + 1
      /\ (\A i \in 1..Len(s) : t[i] = s[i]) /\ t[Len(s) + 1] = c
  BY LenProperties, AppendProperties
<1> HIDE DEF t
<1>1. PICK a : Sums(s, a) /\ Bytes(s) = a[Len(s)]
  BY BytesAreSummed
<1>2. PICK b : Sums(t, b) /\ Bytes(t) = b[Len(t)]
  BY <1>0, BytesAreSummed
<1> DEFINE P == {n \in Nat : n <= Len(s) => a[n] = b[n]}
<1>3. 0 \in P
  BY <1>1, <1>2 DEF Sums
<1>4. ASSUME NEW n \in Nat, n \in P
      PROVE  n + 1 \in P
  <2> SUFFICES ASSUME n + 1 <= Len(s) PROVE a[n + 1] = b[n + 1]
    OBVIOUS
  <2>1. a[n + 1] = a[n] + s[n + 1].bytes /\ b[n + 1] = b[n] + t[n + 1].bytes
    BY <1>0, <1>1, <1>2 DEF Sums
  <2> QED BY <1>0, <1>4, <2>1
<1>5. a[Len(s)] = b[Len(s)]
  <2> HIDE DEF P
  <2>1. Nat \subseteq P
    BY <1>3, <1>4, SetInduction
  <2> QED BY <1>0, <2>1 DEF P
<1>6. b[Len(s) + 1] = b[Len(s)] + c.bytes
  BY <1>0, <1>2 DEF Sums
<1> QED BY <1>0, <1>1, <1>2, <1>5, <1>6 DEF t

(* Nothing has no bytes.                                                   *)
LEMMA BytesOfEmpty == Bytes(<<>>) = 0
<1>1. <<>> \in Seq(ChunkType) /\ Len(<<>>) = 0
  BY EmptySeq
<1>2. PICK a : Sums(<<>>, a) /\ Bytes(<<>>) = a[Len(<<>>)]
  BY <1>1, BytesAreSummed
<1> QED BY <1>1, <1>2 DEF Sums

(* Bytes is a number.                                                      *)
LEMMA BytesAreNatural ==
  ASSUME NEW s \in Seq(ChunkType)
  PROVE  Bytes(s) \in Nat
<1>1. PICK a : Sums(s, a) /\ Bytes(s) = a[Len(s)]
  BY BytesAreSummed
<1> QED BY <1>1, LenProperties DEF Sums

(* Bytes of two sequences one after the other.                             *)
LEMMA BytesOfConcat ==
  ASSUME NEW s \in Seq(ChunkType), NEW t \in Seq(ChunkType)
  PROVE  Bytes(s \o t) = Bytes(s) + Bytes(t)
<1> DEFINE front(n) == SubSeq(t, 1, n)
           P == {n \in Nat : n <= Len(t) => Bytes(s \o front(n)) = Bytes(s) + Bytes(front(n))}
<1>0. Len(t) \in Nat /\ \A i \in 1..Len(t) : t[i] \in ChunkType
  BY LenProperties, ElementOfSeq
<1>a. Bytes(s) \in Nat
  BY BytesAreNatural
<1>1. 0 \in P
  <2>1. front(0) = <<>>
    BY SubSeqEmpty
  <2> DEFINE whole == s \o front(0)
  <2>2. whole = s
    BY <2>1, ConcatEmptySeq
  <2> HIDE DEF P, front, whole
  <2>3. Bytes(whole) = Bytes(s) + Bytes(front(0))
    BY <1>a, <2>1, <2>2, BytesOfEmpty
  <2> USE DEF P, whole
  <2> QED BY <2>3
<1>2. ASSUME NEW n \in Nat, n \in P
      PROVE  n + 1 \in P
  <2> SUFFICES ASSUME n + 1 <= Len(t)
               PROVE  Bytes(s \o front(n + 1)) = Bytes(s) + Bytes(front(n + 1))
    OBVIOUS
  <2>1. /\ front(n) \in Seq(ChunkType) /\ front(n + 1) \in Seq(ChunkType)
        /\ Len(front(n)) = n /\ Len(front(n + 1)) = n + 1
    BY <1>0, SubSeqProperties
  <2>2. front(n + 1) = Append(front(n), t[n + 1])
    <3>1. 1 \in 1..Len(t) /\ n + 1 \in 1..Len(t) /\ (n + 1) - 1 = n
      BY <1>0
    <3>2. front(n + 1) = front(n) \o <<t[n + 1]>>
      BY <3>1, SubSeqRecursiveSecond
    <3> QED BY <1>0, <2>1, <3>1, <3>2, AppendIsConcat
  <2>8. Bytes(s \o front(n)) = Bytes(s) + Bytes(front(n))
    BY <1>0, <1>2
  <2> HIDE DEF P, front
  <2>3. s \o front(n) \in Seq(ChunkType)
    BY <2>1, ConcatProperties
  <2>4. s \o front(n + 1) = Append(s \o front(n), t[n + 1])
    <3>1. t[n + 1] \in ChunkType /\ <<t[n + 1]>> \in Seq(ChunkType)
      BY <1>0
    <3> DEFINE one == <<t[n + 1]>>
    <3>a. front(n) \in Seq(ChunkType) /\ one \in Seq(ChunkType)
      BY <2>1, <3>1
    <3> HIDE DEF one
    <3>b. (s \o front(n)) \o one = s \o (front(n) \o one)
      BY SMTT(20), <3>a
    <3>2. (s \o front(n)) \o <<t[n + 1]>> = s \o (front(n) \o <<t[n + 1]>>)
      BY <3>b DEF one
    <3>3. front(n + 1) = front(n) \o <<t[n + 1]>>
      BY <2>1, <2>2, <3>1, AppendIsConcat
    <3>4. Append(s \o front(n), t[n + 1]) = (s \o front(n)) \o <<t[n + 1]>>
      BY <2>3, <3>1, AppendIsConcat
    <3> QED BY <3>2, <3>3, <3>4
  <2>5. t[n + 1] \in ChunkType /\ t[n + 1].bytes \in Nat
    BY SMTT(20), <1>0 DEF ChunkType
  <2>6. Bytes(s \o front(n + 1)) = Bytes(s \o front(n)) + t[n + 1].bytes
    BY <2>3, <2>4, <2>5, BytesOfAppend
  <2>7. Bytes(front(n + 1)) = Bytes(front(n)) + t[n + 1].bytes
    BY <2>1, <2>2, <2>5, BytesOfAppend
  <2>9. Bytes(front(n)) \in Nat
    BY <2>1, BytesAreNatural
  <2> QED BY <1>a, <2>5, <2>6, <2>7, <2>8, <2>9
<1>3. Bytes(s \o front(Len(t))) = Bytes(s) + Bytes(front(Len(t)))
  <2> HIDE DEF P
  <2>1. Nat \subseteq P
    BY <1>1, <1>2, SetInduction
  <2> QED BY <1>0, <2>1 DEF P
<1>4. front(Len(t)) = t
  BY SubSeqFull
<1> QED BY <1>3, <1>4

-----------------------------------------------------------------------------
(* Joining neighbouring chunks *)

(* Output before and after neighbouring chunks are joined: t has the bytes *)
(* of s, and its chunk g stands for those of s after cut[g - 1], up to     *)
(* cut[g].                                                                 *)
CutAt(t, s, cut) ==
  /\ cut \in [0..Len(t) -> 0..Len(s)]
  /\ cut[0] = 0 /\ cut[Len(t)] = Len(s)
  /\ \A g, h \in 0..Len(t) : g < h => cut[g] < cut[h]

Rejoins(t, s) ==
  /\ t \in Seq(ChunkType) /\ s \in Seq(ChunkType)
  /\ Bytes(t) = Bytes(s)
  /\ \E cut :
       /\ CutAt(t, s, cut)
       /\ \A g \in 1..Len(t) :
            /\ t[g].first = s[cut[g - 1] + 1].first
            /\ t[g].sequence = s[cut[g]].sequence /\ t[g].session = s[cut[g]].session
            /\ t[g].bytes >= s[cut[g]].bytes

(* Nothing is missing between two chunks, and later chunks are newer.      *)
Follows(c, d) == d.first = c.sequence + 1 \/ (d.first = 1 /\ c.session < d.session)
Earlier(c, d) == c.session < d.session \/ (c.session = d.session /\ c.sequence < d.sequence)

Unbroken(s) == \A i \in 1..(Len(s) - 1) : Follows(s[i], s[i + 1])
Rising(s)   == \A i, j \in 1..Len(s) : i < j => Earlier(s[i], s[j])

(* The fields of the chunks of a sequence are numbers.                     *)
LEMMA ChunksAreTyped ==
  ASSUME NEW s \in Seq(ChunkType)
  PROVE  /\ Len(s) \in Nat
         /\ \A i \in 1..Len(s) :
              /\ s[i] \in ChunkType
              /\ s[i].session \in Nat /\ s[i].first \in Nat /\ s[i].sequence \in Nat
              /\ s[i].bytes \in Nat
<1>1. Len(s) \in Nat /\ \A i \in 1..Len(s) : s[i] \in ChunkType
  BY LenProperties, ElementOfSeq
<1> QED BY <1>1 DEF ChunkType

(* Every group of a cut has chunks.                                        *)
LEMMA CutsAreOrdered ==
  ASSUME NEW t \in Seq(ChunkType), NEW s \in Seq(ChunkType), NEW cut, CutAt(t, s, cut),
         NEW g \in 1..Len(t)
  PROVE  /\ cut[g - 1] < cut[g]
         /\ cut[g] \in 1..Len(s) /\ cut[g - 1] \in 0..(Len(s) - 1)
         /\ cut[g - 1] + 1 \in 1..Len(s)
<1>1. Len(t) \in Nat /\ Len(s) \in Nat
  BY LenProperties
<1>2. g \in 0..Len(t) /\ g - 1 \in 0..Len(t) /\ g - 1 < g
  BY <1>1
<1>3. cut[g - 1] < cut[g] /\ cut[g] \in 0..Len(s) /\ cut[g - 1] \in 0..Len(s)
  BY <1>2 DEF CutAt
<1> QED BY <1>1, <1>3

(* Joining keeps the order.                                                *)
LEMMA RejoiningKeepsOrder ==
  ASSUME NEW t, NEW s, Rejoins(t, s), Rising(s)
  PROVE  Rising(t) /\ (Unbroken(s) => Unbroken(t))
<1>0. t \in Seq(ChunkType) /\ s \in Seq(ChunkType)
  BY DEF Rejoins
<1>1. PICK cut :
        /\ CutAt(t, s, cut)
        /\ \A g \in 1..Len(t) :
             /\ t[g].first = s[cut[g - 1] + 1].first
             /\ t[g].sequence = s[cut[g]].sequence /\ t[g].session = s[cut[g]].session
  BY DEF Rejoins
<1>2. Len(t) \in Nat /\ Len(s) \in Nat
  BY <1>0, LenProperties
<1>3. \A g \in 1..Len(t) : /\ g - 1 \in 0..Len(t) /\ g \in 0..Len(t)
                           /\ cut[g - 1] < cut[g] /\ cut[g] \in 1..Len(s)
                           /\ cut[g - 1] \in 0..(Len(s) - 1) /\ cut[g - 1] + 1 \in 1..Len(s)
  BY <1>0, <1>1, <1>2, CutsAreOrdered
<1>4. Rising(t)
  <2> SUFFICES ASSUME NEW i \in 1..Len(t), NEW j \in 1..Len(t), i < j
               PROVE  Earlier(t[i], t[j])
    BY DEF Rising
  <2>1. cut[i] < cut[j]
    BY <1>1, <1>2 DEF CutAt
  <2>2. Earlier(s[cut[i]], s[cut[j]])
    BY <1>3, <2>1 DEF Rising
  <2> QED BY <1>1, <2>2 DEF Earlier
<1>5. ASSUME Unbroken(s) PROVE Unbroken(t)
  <2> SUFFICES ASSUME NEW i \in 1..(Len(t) - 1)
               PROVE  Follows(t[i], t[i + 1])
    BY DEF Unbroken
  <2>1. i \in 1..Len(t) /\ i + 1 \in 1..Len(t) /\ (i + 1) - 1 = i
    BY <1>2
  <2> DEFINE k == cut[i]
             m == cut[i + 1]
  <2>2. k \in 1..(Len(s) - 1) /\ m \in 1..Len(s) /\ k + 1 <= m
    BY <1>2, <1>3, <2>1
  <2>3. /\ t[i].sequence = s[k].sequence /\ t[i].session = s[k].session
        /\ t[i + 1].first = s[k + 1].first /\ t[i + 1].session = s[m].session
    BY <1>1, <2>1
  <2> HIDE DEF k, m
  <2>4. Follows(s[k], s[k + 1])
    BY <1>5, <2>2 DEF Unbroken
  <2>5. s[k + 1].session <= s[m].session
    <3>1. k + 1 \in 1..Len(s) /\ s[k + 1].session \in Nat /\ s[m].session \in Nat
      BY <1>0, <1>2, <2>2, ChunksAreTyped
    <3>2. CASE k + 1 = m
      BY <3>1, <3>2
    <3>3. CASE k + 1 < m
      BY <2>2, <3>1, <3>3 DEF Rising, Earlier
    <3> QED BY <1>2, <2>2, <3>2, <3>3
  <2>6. s[k].session \in Nat /\ s[k + 1].session \in Nat /\ s[m].session \in Nat
    BY <1>0, <1>2, <2>2, ChunksAreTyped
  <2> QED BY <2>3, <2>4, <2>5, <2>6 DEF Follows
<1> QED BY <1>4, <1>5

(* Every chunk of t has the last numbers of one of s, and no fewer bytes;  *)
(* the last of t those of the last of s.                                   *)
LEMMA RejoinedChunks ==
  ASSUME NEW t, NEW s, Rejoins(t, s)
  PROVE  /\ \A g \in 1..Len(t) : \E i \in 1..Len(s) :
              /\ t[g].sequence = s[i].sequence /\ t[g].session = s[i].session
              /\ t[g].bytes >= s[i].bytes
         /\ Len(t) = 0 <=> Len(s) = 0
         /\ Len(t) > 0 => /\ t[Len(t)].sequence = s[Len(s)].sequence
                          /\ t[Len(t)].session = s[Len(s)].session
<1>0. t \in Seq(ChunkType) /\ s \in Seq(ChunkType)
  BY DEF Rejoins
<1>1. PICK cut :
        /\ CutAt(t, s, cut)
        /\ \A g \in 1..Len(t) :
             /\ t[g].first = s[cut[g - 1] + 1].first
             /\ t[g].sequence = s[cut[g]].sequence /\ t[g].session = s[cut[g]].session
             /\ t[g].bytes >= s[cut[g]].bytes
  BY DEF Rejoins
<1>2. Len(t) \in Nat /\ Len(s) \in Nat
  BY <1>0, LenProperties
<1>3. \A g \in 1..Len(t) : cut[g] \in 1..Len(s)
  BY <1>1, <1>2 DEF CutAt
<1>4. \A g \in 1..Len(t) : \E i \in 1..Len(s) :
              /\ t[g].sequence = s[i].sequence /\ t[g].session = s[i].session
              /\ t[g].bytes >= s[i].bytes
  BY <1>1, <1>3
<1>5. Len(t) = 0 <=> Len(s) = 0
  BY <1>1, <1>2 DEF CutAt
<1>6. Len(t) > 0 => /\ t[Len(t)].sequence = s[Len(s)].sequence
                    /\ t[Len(t)].session = s[Len(s)].session
  BY <1>1, <1>2 DEF CutAt
<1> QED BY <1>4, <1>5, <1>6

(* Nothing need be joined.                                                 *)
LEMMA RejoinsItself ==
  ASSUME NEW s \in Seq(ChunkType)
  PROVE  Rejoins(s, s)
<1>1. Len(s) \in Nat /\ \A i \in 1..Len(s) : s[i].bytes \in Nat
  BY ChunksAreTyped
<1> DEFINE cut == [k \in 0..Len(s) |-> k]
<1>2. CutAt(s, s, cut)
  BY <1>1 DEF CutAt
<1>3. \A g \in 1..Len(s) : cut[g - 1] + 1 = g /\ cut[g] = g
  BY <1>1
<1> HIDE DEF cut
<1> QED BY <1>1, <1>2, <1>3 DEF Rejoins

(* Joining within a longer sequence.                                       *)
LEMMA RejoinsBehind ==
  ASSUME NEW a \in Seq(ChunkType), NEW t, NEW s, Rejoins(t, s)
  PROVE  Rejoins(a \o t, a \o s)
<1>0. t \in Seq(ChunkType) /\ s \in Seq(ChunkType) /\ Bytes(t) = Bytes(s)
  BY DEF Rejoins
<1>1. PICK cut :
        /\ CutAt(t, s, cut)
        /\ \A g \in 1..Len(t) :
             /\ t[g].first = s[cut[g - 1] + 1].first
             /\ t[g].sequence = s[cut[g]].sequence /\ t[g].session = s[cut[g]].session
             /\ t[g].bytes >= s[cut[g]].bytes
  BY DEF Rejoins
<1> DEFINE at == a \o t
           as == a \o s
           n  == Len(a)
           cut2 == [k \in 0..Len(at) |-> IF k <= n THEN k ELSE n + cut[k - n]]
<1>2. /\ n \in Nat /\ Len(t) \in Nat /\ Len(s) \in Nat
      /\ Len(at) = n + Len(t) /\ Len(as) = n + Len(s)
      /\ at \in Seq(ChunkType) /\ as \in Seq(ChunkType)
  BY <1>0, LenProperties, ConcatProperties
<1>3. \A i \in 1..Len(at) : at[i] = IF i <= n THEN a[i] ELSE t[i - n]
  BY <1>0, <1>2, ConcatProperties
<1>4. \A i \in 1..Len(as) : as[i] = IF i <= n THEN a[i] ELSE s[i - n]
  BY <1>0, <1>2, ConcatProperties
<1>5. Bytes(at) = Bytes(as)
  BY <1>0, BytesOfConcat
<1>c. n \in Nat /\ Len(s) \in Nat /\ Len(as) = n + Len(s)
  BY <1>2
<1>b. \A i \in 1..n : a[i].bytes \in Nat
  BY ChunksAreTyped
<1> HIDE DEF at, as, n
<1>d. ASSUME NEW x \in 1..Len(s)
      PROVE  as[n + x] = s[x]
  <2>1. PICK m \in Nat : m = n + x
    BY <1>c
  <2>2. m \in 1..Len(as) /\ ~(m <= n) /\ m - n = x
    BY <1>c, <2>1
  <2>3. as[m] = s[m - n]
    BY <1>4, <2>2
  <2> QED BY <2>1, <2>2, <2>3
<1>6. CutAt(at, as, cut2)
  <2>1. \A k \in 0..Len(at) : k > n => k - n \in 1..Len(t) /\ cut[k - n] \in 1..Len(s)
    <3>1. \A k \in 0..Len(at) : k > n => k - n \in 1..Len(t)
      BY <1>2
    <3> QED BY <1>0, <1>1, <3>1, CutsAreOrdered
  <2>2. cut2 \in [0..Len(at) -> 0..Len(as)]
    BY <1>2, <2>1
  <2>3. cut2[0] = 0 /\ cut2[Len(at)] = Len(as)
    BY <1>1, <1>2 DEF CutAt
  <2>4. \A g, h \in 0..Len(at) : g < h => cut2[g] < cut2[h]
    <3> SUFFICES ASSUME NEW g \in 0..Len(at), NEW h \in 0..Len(at), g < h
                 PROVE  cut2[g] < cut2[h]
      OBVIOUS
    <3>1. CASE h <= n
      BY <1>2, <3>1
    <3>2. CASE g <= n /\ h > n
      BY <1>2, <2>1, <3>2
    <3>3. CASE g > n
      <4>1. g - n < h - n /\ g - n \in 0..Len(t) /\ h - n \in 0..Len(t)
        BY <1>2, <3>3
      <4>2. cut[g - n] < cut[h - n]
        BY <1>1, <4>1 DEF CutAt
      <4>3. cut[g - n] \in Nat /\ cut[h - n] \in Nat
        BY <1>2, <2>1, <3>3
      <4>4. cut2[g] = n + cut[g - n] /\ cut2[h] = n + cut[h - n]
        BY <1>2, <3>3
      <4> QED BY <1>2, <4>2, <4>3, <4>4
    <3> QED BY <1>2, <3>1, <3>2, <3>3
  <2> HIDE DEF cut2
  <2> QED BY <2>2, <2>3, <2>4 DEF CutAt
<1>e. \A k \in 0..Len(at) : cut2[k] = IF k <= n THEN k ELSE n + cut[k - n]
  OBVIOUS
<1> HIDE DEF cut2
<1>7. ASSUME NEW g \in 1..Len(at)
      PROVE  /\ at[g].first = as[cut2[g - 1] + 1].first
             /\ at[g].sequence = as[cut2[g]].sequence /\ at[g].session = as[cut2[g]].session
             /\ at[g].bytes >= as[cut2[g]].bytes
  <2>1. CASE g <= n
    <3>1. g \in 1..n /\ g \in 1..Len(as) /\ cut2[g] = g /\ cut2[g - 1] + 1 = g
      BY <1>2, <1>e, <2>1
    <3>2. at[g] = a[g] /\ as[g] = a[g]
      BY <1>3, <1>4, <2>1, <3>1
    <3>3. a[g].bytes \in Nat
      BY <1>b, <3>1
    <3>4. as[cut2[g - 1] + 1] = a[g]
      BY <3>1, <3>2
    <3>5. as[cut2[g]] = a[g]
      BY <3>1, <3>2
    <3> QED BY <3>2, <3>3, <3>4, <3>5
  <2>2. CASE g > n
    <3>1. PICK j \in 1..Len(t) : j = g - n /\ j - 1 \in 0..Len(t)
      BY <1>2, <2>2
    <3>2. cut[j] \in 1..Len(s) /\ cut[j - 1] \in Nat /\ cut[j - 1] + 1 \in 1..Len(s)
      BY <1>0, <1>1, <3>1, CutsAreOrdered
    <3>3. cut2[g] = n + cut[j]
      BY <1>2, <1>e, <2>2, <3>1
    <3>4. cut2[g - 1] = n + cut[j - 1]
      <4>1. CASE g - 1 = n
        <5>1. cut[j - 1] = 0 /\ cut2[g - 1] = n
          BY <1>1, <1>2, <1>e, <3>1, <4>1 DEF CutAt
        <5> QED BY <1>2, <5>1
      <4>2. CASE g - 1 > n
        <5>1. (g - 1) - n = j - 1
          BY <1>2, <3>1
        <5>2. cut2[g - 1] = n + cut[(g - 1) - n]
          BY <1>2, <1>e, <4>2
        <5> QED BY <5>1, <5>2
      <4> QED BY <1>2, <2>2, <4>1, <4>2
    <3>5. at[g] = t[j]
      BY <1>3, <2>2, <1>2, <3>1
    <3>a. PICK p \in 1..Len(s), q \in 1..Len(s) : p = cut[j] /\ q = cut[j - 1] + 1
      BY <3>2
    <3>6. as[cut2[g]] = s[p]
      BY <1>d, <3>3, <3>a
    <3>7. as[cut2[g - 1] + 1] = s[q]
      <4>1. cut2[g - 1] + 1 = n + q
        BY SMTT(20), <1>c, <3>2, <3>4, <3>a
      <4> QED BY <1>d, <4>1
    <3>8. /\ t[j].first = s[q].first
          /\ t[j].sequence = s[p].sequence /\ t[j].session = s[p].session
          /\ t[j].bytes >= s[p].bytes
      BY <1>1, <3>a
    <3>9. at[g].first = as[cut2[g - 1] + 1].first
      BY <3>5, <3>7, <3>8
    <3>10. at[g].sequence = as[cut2[g]].sequence /\ at[g].session = as[cut2[g]].session
      BY <3>5, <3>6, <3>8
    <3>11. at[g].bytes >= as[cut2[g]].bytes
      BY <3>5, <3>6, <3>8
    <3> QED BY <3>9, <3>10, <3>11
  <2>3. g <= n \/ g > n
    BY <1>c
  <2> QED BY <2>1, <2>2, <2>3
<1>8. Rejoins(at, as)
  BY <1>2, <1>5, <1>6, <1>7 DEF Rejoins
<1> QED BY <1>8 DEF at, as

(* Joining in front of what comes later.                                   *)
LEMMA RejoinsBefore ==
  ASSUME NEW b \in Seq(ChunkType), NEW t, NEW s, Rejoins(t, s)
  PROVE  Rejoins(t \o b, s \o b)
<1>0. t \in Seq(ChunkType) /\ s \in Seq(ChunkType) /\ Bytes(t) = Bytes(s)
  BY DEF Rejoins
<1>1. PICK cut :
        /\ CutAt(t, s, cut)
        /\ \A g \in 1..Len(t) :
             /\ t[g].first = s[cut[g - 1] + 1].first
             /\ t[g].sequence = s[cut[g]].sequence /\ t[g].session = s[cut[g]].session
             /\ t[g].bytes >= s[cut[g]].bytes
  BY DEF Rejoins
<1> DEFINE tb == t \o b
           sb == s \o b
           n  == Len(t)
           m  == Len(s)
           cut2 == [k \in 0..Len(tb) |-> IF k <= n THEN cut[k] ELSE m + (k - n)]
<1>2. /\ n \in Nat /\ m \in Nat /\ Len(b) \in Nat
      /\ Len(tb) = n + Len(b) /\ Len(sb) = m + Len(b)
  BY <1>0, LenProperties, ConcatProperties
<1>t. tb \in Seq(ChunkType) /\ sb \in Seq(ChunkType)
  BY <1>0, ConcatProperties
<1>3. \A i \in 1..Len(tb) : tb[i] = IF i <= n THEN t[i] ELSE b[i - n]
  BY <1>0, <1>2, ConcatProperties
<1>4. \A i \in 1..Len(sb) : sb[i] = IF i <= m THEN s[i] ELSE b[i - m]
  BY <1>0, <1>2, ConcatProperties
<1>5. Bytes(tb) = Bytes(sb)
  BY <1>0, BytesOfConcat
<1>b. \A i \in 1..Len(b) : b[i].bytes \in Nat
  BY ChunksAreTyped
<1>c. /\ cut[0] = 0 /\ cut[n] = m
      /\ \A k \in 0..n : cut[k] \in 0..m
      /\ \A g, h \in 0..n : g < h => cut[g] < cut[h]
  BY <1>1 DEF CutAt
<1>d. \A g \in 1..n : /\ cut[g] \in 1..m /\ cut[g - 1] \in 0..(m - 1)
                      /\ cut[g - 1] + 1 \in 1..m
  BY <1>0, <1>1, CutsAreOrdered
<1>e. \A k \in 0..Len(tb) : cut2[k] = IF k <= n THEN cut[k] ELSE m + (k - n)
  OBVIOUS
<1>f. cut2 \in [0..Len(tb) -> 0..Len(sb)]
  <2>1. ASSUME NEW k \in 0..Len(tb)
        PROVE  (IF k <= n THEN cut[k] ELSE m + (k - n)) \in 0..Len(sb)
    <3>1. CASE k <= n
      <4>1. k \in 0..n /\ cut[k] \in 0..m
        BY <1>2, <1>c, <3>1
      <4> QED BY <1>2, <3>1, <4>1
    <3>2. CASE ~(k <= n)
      BY <1>2, <3>2
    <3> QED BY <3>1, <3>2
  <2> QED BY <2>1
<1> HIDE DEF tb, sb, n, m, cut2
<1>6. CutAt(tb, sb, cut2)
  <2>3. cut2[0] = 0 /\ cut2[Len(tb)] = Len(sb)
    <3>1. cut2[0] = 0
      BY <1>2, <1>c, <1>e
    <3>2. CASE Len(b) = 0
      BY <1>2, <1>c, <1>e, <3>1, <3>2
    <3>3. CASE Len(b) > 0
      BY <1>2, <1>e, <3>1, <3>3
    <3> QED BY <1>2, <3>2, <3>3
  <2>4. \A g, h \in 0..Len(tb) : g < h => cut2[g] < cut2[h]
    <3> SUFFICES ASSUME NEW g \in 0..Len(tb), NEW h \in 0..Len(tb), g < h
                 PROVE  cut2[g] < cut2[h]
      OBVIOUS
    <3>1. CASE h <= n
      BY <1>2, <1>c, <1>e, <3>1
    <3>2. CASE g <= n /\ h > n
      <4>1. PICK x \in 0..m : x = cut[g]
        BY <1>2, <1>c, <3>2
      <4>2. cut2[g] = x /\ cut2[h] = m + (h - n)
        BY <1>2, <1>e, <3>2, <4>1
      <4> QED BY <1>2, <3>2, <4>1, <4>2
    <3>3. CASE g > n
      BY <1>2, <1>e, <3>3
    <3> QED BY <1>2, <3>1, <3>2, <3>3
  <2> QED BY <1>f, <2>3, <2>4 DEF CutAt
<1>7. ASSUME NEW g \in 1..Len(tb)
      PROVE  /\ tb[g].first = sb[cut2[g - 1] + 1].first
             /\ tb[g].sequence = sb[cut2[g]].sequence /\ tb[g].session = sb[cut2[g]].session
             /\ tb[g].bytes >= sb[cut2[g]].bytes
  <2>1. CASE g <= n
    <3>1. g \in 1..n /\ tb[g] = t[g]
      BY <1>2, <1>3, <2>1
    <3>2. PICK p \in 1..m, q \in 1..m : p = cut[g] /\ q = cut[g - 1] + 1
      BY <1>d, <3>1
    <3>3. cut2[g] = p /\ cut2[g - 1] + 1 = q
      <4>1. g \in 0..Len(tb) /\ g <= n /\ g - 1 \in 0..Len(tb) /\ g - 1 <= n
        BY <1>2, <2>1
      <4>2. cut2[g] = cut[g] /\ cut2[g - 1] = cut[g - 1]
        BY <1>e, <4>1
      <4> QED BY <3>2, <4>2
    <3>4. sb[p] = s[p] /\ sb[q] = s[q]
      BY <1>2, <1>4
    <3>5. /\ t[g].first = s[q].first
          /\ t[g].sequence = s[p].sequence /\ t[g].session = s[p].session
          /\ t[g].bytes >= s[p].bytes
      BY <1>1, <3>1, <3>2 DEF n
    <3>6. tb[g].first = sb[cut2[g - 1] + 1].first
      BY <3>1, <3>3, <3>4, <3>5
    <3>7. tb[g].sequence = sb[cut2[g]].sequence /\ tb[g].session = sb[cut2[g]].session
      BY <3>1, <3>3, <3>4, <3>5
    <3>8. tb[g].bytes >= sb[cut2[g]].bytes
      BY <3>1, <3>3, <3>4, <3>5
    <3> QED BY <3>6, <3>7, <3>8
  <2>2. CASE g > n
    <3>1. PICK j \in 1..Len(b) : j = g - n
      BY <1>2, <2>2
    <3>2. PICK i \in 1..Len(sb) : i = m + j /\ i > m /\ i - m = j
      BY <1>2
    <3>3. tb[g] = b[j] /\ sb[i] = b[j] /\ b[j].bytes \in Nat
      BY <1>3, <1>4, <1>b, <2>2, <3>1, <3>2, <1>2
    <3>4. cut2[g] = i
      BY <1>2, <1>e, <2>2, <3>1, <3>2
    <3>5. cut2[g - 1] + 1 = i
      <4>1. CASE g - 1 = n
        BY <1>2, <1>c, <1>e, <3>1, <3>2, <4>1
      <4>2. CASE g - 1 > n
        BY <1>2, <1>e, <3>1, <3>2, <4>2
      <4> QED BY <1>2, <2>2, <4>1, <4>2
    <3>6. tb[g].first = sb[cut2[g - 1] + 1].first
      BY <3>3, <3>5
    <3>7. tb[g].sequence = sb[cut2[g]].sequence /\ tb[g].session = sb[cut2[g]].session
      BY <3>3, <3>4
    <3>8. tb[g].bytes >= sb[cut2[g]].bytes
      BY <3>3, <3>4
    <3> QED BY <3>6, <3>7, <3>8
  <2>3. g <= n \/ g > n
    BY <1>2
  <2> QED BY <2>1, <2>2, <2>3
<1>8. Rejoins(tb, sb)
  BY <1>t, <1>5, <1>6, <1>7 DEF Rejoins
<1> QED BY <1>8 DEF tb, sb

(* The sum of some chunks is at least the length of the last.              *)
LEMMA BytesOfLast ==
  ASSUME NEW s \in Seq(ChunkType), Len(s) > 0
  PROVE  Bytes(s) >= s[Len(s)].bytes
<1>1. PICK total : Sums(s, total) /\ Bytes(s) = total[Len(s)]
  BY BytesAreSummed
<1>2. Len(s) \in 1..Len(s) /\ Len(s) - 1 \in 0..Len(s) /\ s[Len(s)].bytes \in Nat
  BY ChunksAreTyped
<1>3. total[Len(s)] = total[Len(s) - 1] + s[Len(s)].bytes /\ total[Len(s) - 1] \in Nat
  BY <1>1, <1>2 DEF Sums
<1> QED BY <1>1, <1>2, <1>3

(* A join has the first number of its first chunk, the last of its last    *)
(* and the bytes of all.                                                   *)
LEMMA JoinsAreChunks ==
  ASSUME NEW s \in Seq(ChunkType), Len(s) > 0
  PROVE  /\ Join(s) \in ChunkType
         /\ Join(s).first = s[1].first /\ Join(s).session = s[Len(s)].session
         /\ Join(s).sequence = s[Len(s)].sequence /\ Join(s).bytes = Bytes(s)
         /\ Bytes(s) >= s[Len(s)].bytes
<1>1. /\ Len(s) \in 1..Len(s) /\ 1 \in 1..Len(s)
      /\ s[Len(s)].session \in Nat /\ s[1].first \in Nat /\ s[Len(s)].sequence \in Nat
  BY ChunksAreTyped
<1>2. Head(s) = s[1] /\ Last(s) = s[Len(s)]
  BY DEF Last
<1>3. Bytes(s) \in Nat /\ Bytes(s) >= s[Len(s)].bytes
  BY BytesAreNatural, BytesOfLast
<1>4. Join(s) = [session |-> s[Len(s)].session, first |-> s[1].first,
                 sequence |-> s[Len(s)].sequence, bytes |-> Bytes(s)]
  BY <1>2 DEF Join, Chunk
<1> QED BY <1>1, <1>3, <1>4 DEF ChunkType

(* A sequence cut into groups that are joined.                             *)
LEMMA GroupsRejoin ==
  ASSUME NEW s \in Seq(ChunkType), NEW n \in Nat, NEW t, NEW cut,
         cut \in [0..n -> 0..Len(s)], cut[0] = 0, cut[n] = Len(s),
         \A g, h \in 0..n : g < h => cut[g] < cut[h],
         t = [g \in 1..n |-> Join(SubSeq(s, cut[g - 1] + 1, cut[g]))]
  PROVE  Rejoins(t, s)
<1>0. Len(s) \in Nat /\ \A i \in 1..Len(s) : s[i] \in ChunkType
  BY LenProperties, ElementOfSeq
<1> DEFINE group(g) == SubSeq(s, cut[g - 1] + 1, cut[g])
<1>1. ASSUME NEW g \in 1..n
      PROVE  /\ cut[g] \in 1..Len(s) /\ cut[g - 1] \in 0..(Len(s) - 1) /\ cut[g - 1] < cut[g]
             /\ group(g) \in Seq(ChunkType) /\ Len(group(g)) = cut[g] - cut[g - 1]
             /\ group(g)[1] = s[cut[g - 1] + 1] /\ group(g)[Len(group(g))] = s[cut[g]]
  <2>1. g \in 0..n /\ g - 1 \in 0..n /\ g - 1 < g
    OBVIOUS
  <2>2. cut[g - 1] < cut[g] /\ cut[g] \in 0..Len(s) /\ cut[g - 1] \in 0..Len(s)
    BY <2>1
  <2>a. PICK p \in 0..Len(s), q \in 0..Len(s) : p = cut[g - 1] /\ q = cut[g] /\ p < q
    BY <2>2
  <2>3. p \in 0..(Len(s) - 1) /\ q \in 1..Len(s) /\ p = cut[g - 1] /\ q = cut[g] /\ p < q
    BY <1>0, <2>a
  <2>4. \A i \in (p + 1)..q : s[i] \in ChunkType
    BY <1>0, <2>3
  <2>5. /\ SubSeq(s, p + 1, q) \in Seq(ChunkType) /\ Len(SubSeq(s, p + 1, q)) = q - p
        /\ \A i \in 1..(q - p) : SubSeq(s, p + 1, q)[i] = s[p + i]
    <3> DEFINE u == SubSeq(s, p + 1, q)
    <3>1. p + 1 \in Int /\ q \in Int /\ q - (p + 1) + 1 = q - p /\ p + 1 <= q
      BY <1>0, <2>3
    <3>2. /\ u \in Seq(ChunkType)
          /\ Len(u) = IF p + 1 <= q THEN q - (p + 1) + 1 ELSE 0
          /\ \A i \in 1..(q - (p + 1) + 1) : u[i] = s[(p + 1) + i - 1]
      BY <2>4, <3>1, SubSeqProperties
    <3> HIDE DEF u
    <3>3. \A i \in 1..(q - p) : (p + 1) + i - 1 = p + i
      OBVIOUS
    <3> QED BY <3>1, <3>2, <3>3 DEF u
  <2>6. 1 \in 1..(q - p) /\ q - p \in 1..(q - p) /\ p + (q - p) = q
    BY <2>3
  <2> QED BY <2>3, <2>5, <2>6
<1> HIDE DEF group
<1>2. ASSUME NEW g \in 1..n
      PROVE  /\ t[g] = Join(group(g)) /\ t[g] \in ChunkType
             /\ t[g].first = s[cut[g - 1] + 1].first
             /\ t[g].sequence = s[cut[g]].sequence /\ t[g].session = s[cut[g]].session
             /\ t[g].bytes >= s[cut[g]].bytes /\ t[g].bytes = Bytes(group(g))
  <2>1. t[g] = Join(group(g))
    BY DEF group
  <2>2. group(g) \in Seq(ChunkType) /\ Len(group(g)) > 0
    BY <1>1
  <2>3. /\ Join(group(g)) \in ChunkType
        /\ Join(group(g)).first = group(g)[1].first
        /\ Join(group(g)).session = group(g)[Len(group(g))].session
        /\ Join(group(g)).sequence = group(g)[Len(group(g))].sequence
        /\ Join(group(g)).bytes = Bytes(group(g))
        /\ Bytes(group(g)) >= group(g)[Len(group(g))].bytes
    BY <2>2, JoinsAreChunks
  <2> QED BY <1>1, <2>1, <2>3
<1>3. t \in Seq(ChunkType) /\ Len(t) = n
  <2>1. t \in [1..n -> ChunkType]
    BY <1>2
  <2>2. t \in Seq(ChunkType)
    BY <2>1, SeqDef
  <2>3. DOMAIN t = 1..n /\ DOMAIN t = 1..Len(t) /\ Len(t) \in Nat
    BY <2>1, <2>2, LenProperties
  <2> QED BY <2>2, <2>3
<1>4. CutAt(t, s, cut)
  BY <1>3 DEF CutAt
<1>5. Bytes(t) = Bytes(s)
  <2> DEFINE P == {g \in Nat : g <= n => Bytes(SubSeq(t, 1, g)) = Bytes(SubSeq(s, 1, cut[g]))}
  <2>1. 0 \in P
    <3>1. SubSeq(t, 1, 0) = <<>> /\ SubSeq(s, 1, 0) = <<>>
      BY SubSeqEmpty
    <3> QED BY <3>1
  <2>2. ASSUME NEW g \in Nat, g \in P
        PROVE  g + 1 \in P
    <3> SUFFICES ASSUME g + 1 <= n
                 PROVE  Bytes(SubSeq(t, 1, g + 1)) = Bytes(SubSeq(s, 1, cut[g + 1]))
      OBVIOUS
    <3>0. Bytes(SubSeq(t, 1, g)) = Bytes(SubSeq(s, 1, cut[g]))
      BY <2>2
    <3> HIDE DEF P
    <3>1. g + 1 \in 1..n /\ (g + 1) - 1 = g /\ g \in 0..n
      OBVIOUS
    <3>2. PICK p \in 0..(Len(s) - 1), q \in 1..Len(s) : p = cut[g] /\ q = cut[g + 1] /\ p < q
      BY <1>1, <3>1
    <3> DEFINE tg == SubSeq(t, 1, g)
               sp == SubSeq(s, 1, p)
               u  == SubSeq(s, p + 1, q)
    <3>3. tg \in Seq(ChunkType) /\ t[g + 1] \in ChunkType
      <4>1. \A i \in 1..g : t[i] \in ChunkType
        BY <1>2, <3>1
      <4> QED BY <1>2, <3>1, <4>1, SubSeqProperties
    <3>4. SubSeq(t, 1, g + 1) = Append(tg, t[g + 1])
      <4>1. 1 \in 1..Len(t) /\ g + 1 \in 1..Len(t)
        BY <1>3, <3>1
      <4>2. SubSeq(t, 1, g + 1) = tg \o <<t[g + 1]>>
        BY <1>3, <3>1, <4>1, SubSeqRecursiveSecond
      <4> QED BY <3>3, <4>2, AppendIsConcat
    <3>5. SubSeq(s, 1, q) = sp \o u
      <4>1. 1 \in 1..(Len(s) + 1) /\ p \in (1 - 1)..Len(s) /\ q \in p..Len(s)
        BY <1>0, <3>2
      <4> QED BY <4>1, ConcatAdjacentSubSeq
    <3>6. sp \in Seq(ChunkType) /\ u \in Seq(ChunkType)
      <4>1. (\A i \in 1..p : s[i] \in ChunkType) /\ (\A i \in (p + 1)..q : s[i] \in ChunkType)
        BY <1>0, <3>2
      <4>2. sp \in Seq(ChunkType)
        BY <4>1, SubSeqProperties
      <4>3. u \in Seq(ChunkType)
        BY <4>1, SubSeqProperties
      <4> QED BY <4>2, <4>3
    <3>7. t[g + 1].bytes = Bytes(u)
      BY <1>2, <3>1, <3>2 DEF group
    <3> HIDE DEF tg, sp, u
    <3>8. Bytes(Append(tg, t[g + 1])) = Bytes(tg) + t[g + 1].bytes
      BY <3>3, BytesOfAppend
    <3>9. Bytes(sp \o u) = Bytes(sp) + Bytes(u)
      BY <3>6, BytesOfConcat
    <3>10. Bytes(tg) = Bytes(sp)
      BY <3>0, <3>2 DEF tg, sp
    <3>11. Bytes(SubSeq(t, 1, g + 1)) = Bytes(SubSeq(s, 1, q))
      BY <3>4, <3>5, <3>7, <3>8, <3>9, <3>10
    <3> QED BY <3>2, <3>11
  <2>3. Bytes(SubSeq(t, 1, n)) = Bytes(SubSeq(s, 1, cut[n]))
    <3> HIDE DEF P
    <3>1. Nat \subseteq P
      BY <2>1, <2>2, SetInduction
    <3> QED BY <3>1 DEF P
  <2>4. SubSeq(t, 1, n) = t /\ SubSeq(s, 1, Len(s)) = s
    BY <1>3, SubSeqFull
  <2> QED BY <2>3, <2>4
<1>6. \A g \in 1..Len(t) :
        /\ t[g].first = s[cut[g - 1] + 1].first
        /\ t[g].sequence = s[cut[g]].sequence /\ t[g].session = s[cut[g]].session
        /\ t[g].bytes >= s[cut[g]].bytes
  BY <1>2, <1>3
<1>7. \E c :
        /\ CutAt(t, s, c)
        /\ \A g \in 1..Len(t) :
             /\ t[g].first = s[c[g - 1] + 1].first
             /\ t[g].sequence = s[c[g]].sequence /\ t[g].session = s[c[g]].session
             /\ t[g].bytes >= s[c[g]].bytes
  BY <1>4, <1>6
<1> QED BY <1>3, <1>5, <1>7 DEF Rejoins

(* Max of two numbers, as Compact uses it.                                 *)
LEMMA MaxOfTwo ==
  ASSUME NEW a \in Nat, NEW b \in Nat
  PROVE  Max({a, b}) \in Nat /\ Max({a, b}) >= a /\ Max({a, b}) >= b
<1>1. \E x \in {a, b} : \A y \in {a, b} : x >= y
  OBVIOUS
<1>2. Max({a, b}) \in {a, b} /\ \A y \in {a, b} : Max({a, b}) >= y
  BY <1>1 DEF Max
<1> QED BY <1>2

(* Min of two numbers, as Compact uses it.                                 *)
LEMMA MinOfTwo ==
  ASSUME NEW a \in Nat, NEW b \in Nat
  PROVE  Min({a, b}) = IF a <= b THEN a ELSE b
<1>1. \E x \in {a, b} : \A y \in {a, b} : x <= y
  OBVIOUS
<1>2. Min({a, b}) \in {a, b} /\ \A y \in {a, b} : Min({a, b}) <= y
  BY <1>1 DEF Min
<1> QED BY <1>2

(* Groups of a given size that cover a sequence of n chunks.               *)
LEMMA GroupsCover ==
  ASSUME NEW n \in Nat, n > 0, NEW size \in Nat, size > 0
  PROVE  LET groups == (n + size - 1) \div size
         IN  /\ groups \in Nat /\ groups > 0 /\ groups * size >= n
             /\ \A k \in 0..(groups - 1) : k * size \in Nat /\ k * size < n
<1> DEFINE groups == (n + size - 1) \div size
<1>1. groups \in Nat
  OBVIOUS
<1>2. groups * size <= n + size - 1 /\ n + size - 1 < groups * size + size
  OBVIOUS
<1> HIDE DEF groups
<1>3. groups * size \in Nat
  BY <1>1
<1>4. groups > 0
  <2> SUFFICES ASSUME groups = 0 PROVE FALSE
    BY <1>1
  <2>1. groups * size = 0
    OBVIOUS
  <2> QED BY <1>2, <2>1
<1>5. ASSUME NEW k \in 0..(groups - 1)
      PROVE  k * size \in Nat /\ k * size < n
  <2>1. k \in Nat /\ groups - k \in Nat /\ groups - k >= 1
    BY <1>1
  <2>2. (groups - k) * size >= size
    BY <2>1
  <2>3. groups * size = k * size + (groups - k) * size
    BY <1>1, <2>1
  <2>4. k * size \in Nat /\ (groups - k) * size \in Nat
    BY <2>1
  <2> QED BY <1>2, <1>3, <2>2, <2>3, <2>4
<1>6. groups * size >= n
  BY <1>2, <1>3
<1> QED BY <1>1, <1>4, <1>5, <1>6 DEF groups

(* compactQueue: however long the queue is and may be, its groups cover    *)
(* it.                                                                     *)
LEMMA CompactRejoins ==
  ASSUME NEW s \in Seq(ChunkType)
  PROVE  Rejoins(Compact(s), s)
<1>1. CASE Len(s) <= MaxQueueItems
  BY <1>1, RejoinsItself DEF Compact
<1>2. CASE ~(Len(s) <= MaxQueueItems)
  <2> DEFINE target == Max({1, MaxQueueItems \div 2})
             size   == Max({2, (Len(s) + target - 1) \div target})
             groups == (Len(s) + size - 1) \div size
             t == [g \in 1..groups |->
                     Join(SubSeq(s, (g - 1) * size + 1, Min({g * size, Len(s)})))]
             cut == [k \in 0..groups |-> Min({k * size, Len(s)})]
  <2>0. Len(s) \in Nat /\ Len(s) > 0 /\ MaxQueueItems \in Nat
    BY <1>2, LenProperties, WindowAssumption
  <2>1. Compact(s) = t
    BY <1>2 DEF Compact
  <2>2. target \in Nat /\ target >= 1
    <3>1. MaxQueueItems \div 2 \in Nat
      BY <2>0
    <3> QED BY <3>1, MaxOfTwo
  <2> HIDE DEF target
  <2>3. size \in Nat /\ size >= 2
    <3>1. (Len(s) + target - 1) \div target \in Nat
      BY <2>0, <2>2
    <3> QED BY <3>1, MaxOfTwo
  <2> HIDE DEF size
  <2>4. /\ groups \in Nat /\ groups > 0 /\ groups * size >= Len(s)
        /\ \A k \in 0..(groups - 1) : k * size \in Nat /\ k * size < Len(s)
    BY <2>0, <2>3, GroupsCover
  <2>5. groups * size \in Nat
    BY <2>3, <2>4
  <2> HIDE DEF groups
  <2>6. cut[groups] = Len(s)
    BY <2>0, <2>4, <2>5, MinOfTwo
  <2>7. \A k \in 0..(groups - 1) : cut[k] = k * size /\ k * size < Len(s) /\ k * size \in Nat
    BY <2>0, <2>4, MinOfTwo
  <2>8. \A k \in 0..groups : k = groups \/ k \in 0..(groups - 1)
    BY <2>4
  <2>t. t = [g \in 1..groups |-> Join(SubSeq(s, cut[g - 1] + 1, cut[g]))]
    <3> SUFFICES ASSUME NEW g \in 1..groups
                 PROVE  /\ cut[g] = Min({g * size, Len(s)})
                        /\ cut[g - 1] = (g - 1) * size
      OBVIOUS
    <3>1. g \in 0..groups /\ g - 1 \in 0..(groups - 1)
      BY <2>4
    <3>2. cut[g] = Min({g * size, Len(s)})
      BY <3>1
    <3> HIDE DEF cut
    <3> QED BY <2>7, <3>1, <3>2
  <2> HIDE DEF cut, t
  <2>9. cut[0] = 0
    <3>1. 0 \in 0..(groups - 1) /\ 0 * size = 0
      BY <2>3, <2>4
    <3> QED BY <2>7, <3>1
  <2>10. cut \in [0..groups -> 0..Len(s)]
    <3>1. \A k \in 0..groups : cut[k] \in 0..Len(s)
      BY <2>0, <2>6, <2>7, <2>8
    <3> QED BY <3>1 DEF cut
  <2>11. \A g, h \in 0..groups : g < h => cut[g] < cut[h]
    <3> SUFFICES ASSUME NEW g \in 0..groups, NEW h \in 0..groups, g < h
                 PROVE  cut[g] < cut[h]
      OBVIOUS
    <3>1. g \in 0..(groups - 1) /\ cut[g] = g * size /\ g * size < Len(s) /\ g * size \in Nat
      BY <2>4, <2>7
    <3>2. CASE h = groups
      BY <2>6, <3>1, <3>2
    <3>3. CASE h # groups
      <4>1. cut[h] = h * size /\ h * size \in Nat
        BY <2>7, <2>8, <3>3
      <4>2. h - g \in Nat /\ h - g >= 1
        BY <2>4
      <4>3. (h - g) * size >= size /\ (h - g) * size \in Nat
        BY <2>3, <4>2
      <4>4. h * size = g * size + (h - g) * size
        BY <2>3, <2>4
      <4> QED BY <2>3, <3>1, <4>1, <4>3, <4>4
    <3> QED BY <3>2, <3>3
  <2> QED BY <2>1, <2>4, <2>6, <2>9, <2>10, <2>11, <2>t, GroupsRejoin
<1> QED BY <1>1, <1>2

(* A sequence joined into one chunk.                                       *)
LEMMA WholeRejoins ==
  ASSUME NEW s \in Seq(ChunkType), Len(s) > 0
  PROVE  Rejoins(<<Join(s)>>, s) /\ Join(s) \in ChunkType
<1> DEFINE cut == [k \in 0..1 |-> IF k = 0 THEN 0 ELSE Len(s)]
           t == [g \in 1..1 |-> Join(SubSeq(s, cut[g - 1] + 1, cut[g]))]
<1>0. Len(s) \in Nat /\ Join(s) \in ChunkType
  BY LenProperties, JoinsAreChunks
<1>1. cut[0] = 0 /\ cut[1] = Len(s) /\ cut \in [0..1 -> 0..Len(s)]
  BY <1>0
<1>2. \A g, h \in 0..1 : g < h => cut[g] < cut[h]
  BY <1>0
<1> HIDE DEF cut
<1>3. t[1] = Join(s)
  <2>1. SubSeq(s, 0 + 1, Len(s)) = s
    BY SubSeqFull
  <2>2. t[1] = Join(SubSeq(s, cut[0] + 1, cut[1]))
    OBVIOUS
  <2> HIDE DEF t
  <2>3. SubSeq(s, cut[0] + 1, cut[1]) = SubSeq(s, 0 + 1, Len(s))
    BY <1>1
  <2> QED BY <2>1, <2>2, <2>3
<1>4. t = <<Join(s)>>
  BY <1>3
<1> HIDE DEF t
<1>5. Rejoins(t, s)
  BY <1>1, <1>2, GroupsRejoin DEF t
<1> QED BY <1>0, <1>4, <1>5

(* takeBatch takes a front of the queue, of one chunk at least.            *)
LEMMA BatchIsFront ==
  ASSUME queue \in Seq(ChunkType), Len(queue) > 0
  PROVE  BatchLength \in 1..Len(queue)
<1> DEFINE T == {1} \cup {n \in 1..Len(queue) : Bytes(SubSeq(queue, 1, n)) <= BatchLimit}
<1>1. Len(queue) \in Nat
  BY LenProperties
<1>2. T \subseteq 1..Len(queue) /\ T # {}
  BY <1>1
<1>3. BatchLength = Max(T)
  BY DEF BatchLength
<1> HIDE DEF T
<1>4. Max(T) \in T
  <2>1. T \subseteq Nat /\ \A m \in T : m <= Len(queue)
    BY <1>1, <1>2
  <2> QED BY <1>1, <1>2, <2>1, GreatestNatural
<1> QED BY <1>2, <1>3, <1>4

-----------------------------------------------------------------------------
(* The order of what is sent *)

(* The output of sessions up to S that has been sent, the last with number *)
(* N: nothing is missing, and what comes last was sent last.               *)
Ordered(s, S, N) ==
  /\ s \in Seq(ChunkType)
  /\ \A i \in 1..Len(s) : s[i].session \in 1..S
  /\ Rising(s) /\ Unbroken(s)
  /\ Len(s) > 0 => \/ s[Len(s)].session = S /\ s[Len(s)].sequence = N
                   \/ s[Len(s)].session < S /\ N = 0

(* The output of session S that has been sent, above number F and up to N. *)
Counted(s, S, N, F) ==
  /\ s \in Seq(ChunkType)
  /\ \A i \in 1..Len(s) : /\ s[i].session = S /\ s[i].bytes > 0
                          /\ F < s[i].sequence /\ s[i].sequence <= N
  /\ Rising(s)

(* Joined chunks are in order if the chunks were.                          *)
LEMMA RejoinedStaysOrdered ==
  ASSUME NEW t, NEW s, Rejoins(t, s), NEW S, NEW N, Ordered(s, S, N)
  PROVE  Ordered(t, S, N)
<1>1. Rising(t) /\ Unbroken(t)
  BY RejoiningKeepsOrder DEF Ordered
<1>2. /\ \A g \in 1..Len(t) : \E i \in 1..Len(s) : t[g].session = s[i].session
      /\ Len(t) = 0 <=> Len(s) = 0
      /\ Len(t) > 0 => /\ t[Len(t)].sequence = s[Len(s)].sequence
                       /\ t[Len(t)].session = s[Len(s)].session
  BY RejoinedChunks
<1>3. \A g \in 1..Len(t) : t[g].session \in 1..S
  BY <1>2 DEF Ordered
<1>4. t \in Seq(ChunkType) /\ s \in Seq(ChunkType)
  BY DEF Rejoins
<1>5. Len(t) \in Nat /\ Len(s) \in Nat
  BY <1>4, LenProperties
<1>6. Len(t) > 0 => Len(s) > 0
  BY <1>2, <1>5
<1> QED BY <1>1, <1>2, <1>3, <1>4, <1>6 DEF Ordered

(* Joined chunks are as new and as old as the chunks.                      *)
LEMMA RejoinedStaysCounted ==
  ASSUME NEW t, NEW s, Rejoins(t, s), NEW S, NEW N, NEW F, Counted(s, S, N, F)
  PROVE  Counted(t, S, N, F)
<1>1. Rising(t)
  BY RejoiningKeepsOrder DEF Counted
<1>2. t \in Seq(ChunkType) /\ s \in Seq(ChunkType)
  BY DEF Rejoins
<1>3. ASSUME NEW g \in 1..Len(t)
      PROVE  /\ t[g].session = S /\ t[g].bytes > 0
             /\ F < t[g].sequence /\ t[g].sequence <= N
  <2>1. PICK i \in 1..Len(s) :
          /\ t[g].sequence = s[i].sequence /\ t[g].session = s[i].session
          /\ t[g].bytes >= s[i].bytes
    BY RejoinedChunks
  <2>2. /\ s[i].session = S /\ s[i].bytes > 0 /\ F < s[i].sequence /\ s[i].sequence <= N
    BY DEF Counted
  <2>3. t[g].bytes \in Nat /\ s[i].bytes \in Nat
    BY <1>2, ChunksAreTyped
  <2>4. t[g].bytes > 0
    BY <2>1, <2>2, <2>3
  <2> QED BY <2>1, <2>2, <2>4
<1> QED BY <1>1, <1>2, <1>3 DEF Counted

(* What is left when the front is gone is in order.                        *)
LEMMA RestStaysOrdered ==
  ASSUME NEW a \in Seq(ChunkType), NEW t \in Seq(ChunkType), NEW S, NEW N,
         Ordered(a \o t, S, N)
  PROVE  Ordered(t, S, N)
<1> DEFINE s == a \o t
           n == Len(a)
<1>1. /\ n \in Nat /\ Len(t) \in Nat /\ Len(s) = n + Len(t)
  BY LenProperties, ConcatProperties
<1>2. \A i \in 1..Len(t) : n + i \in 1..Len(s) /\ s[n + i] = t[i]
  BY <1>1
<1>3. Ordered(s, S, N)
  OBVIOUS
<1> HIDE DEF s, n
<1>4. \A i \in 1..Len(t) : t[i].session \in 1..S
  BY <1>2, <1>3 DEF Ordered
<1>5. Rising(t)
  <2> SUFFICES ASSUME NEW i \in 1..Len(t), NEW j \in 1..Len(t), i < j
               PROVE  Earlier(t[i], t[j])
    BY DEF Rising
  <2>1. n + i < n + j
    BY <1>1
  <2>2. Earlier(s[n + i], s[n + j])
    BY <1>2, <1>3, <2>1 DEF Ordered, Rising
  <2> QED BY <1>2, <2>2
<1>6. Unbroken(t)
  <2> SUFFICES ASSUME NEW i \in 1..(Len(t) - 1)
               PROVE  Follows(t[i], t[i + 1])
    BY DEF Unbroken
  <2>1. PICK k \in 1..(Len(s) - 1) : k = n + i /\ k + 1 = n + (i + 1)
    BY <1>1
  <2>2. i \in 1..Len(t) /\ i + 1 \in 1..Len(t)
    BY <1>1
  <2>3. s[k] = t[i] /\ s[k + 1] = t[i + 1]
    BY <1>2, <2>1, <2>2
  <2>4. Follows(s[k], s[k + 1])
    BY <1>3 DEF Ordered, Unbroken
  <2> QED BY <2>3, <2>4
<1>7. Len(t) > 0 => Len(s) > 0 /\ s[Len(s)] = t[Len(t)]
  BY <1>1, <1>2
<1> QED BY <1>3, <1>4, <1>5, <1>6, <1>7 DEF Ordered

(* The next chunk of the session continues what was sent.                  *)
LEMMA AppendStaysOrdered ==
  ASSUME NEW s, NEW S \in Nat \ {0}, NEW N \in Nat, NEW b \in Nat, Ordered(s, S, N)
  PROVE  Ordered(Append(s, Chunk(S, N + 1, N + 1, b)), S, N + 1)
<1> DEFINE e == Chunk(S, N + 1, N + 1, b)
           t == Append(s, e)
           n == Len(s)
<1>0. s \in Seq(ChunkType) /\ n \in Nat
  BY LenProperties DEF Ordered
<1>1. /\ e \in ChunkType /\ e.session = S /\ e.first = N + 1 /\ e.sequence = N + 1
  BY DEF Chunk, ChunkType
<1> HIDE DEF e
<1>2. /\ t \in Seq(ChunkType) /\ Len(t) = n + 1 /\ t[n + 1] = e
      /\ \A i \in 1..n : t[i] = s[i]
  BY <1>0, <1>1, AppendProperties
<1> HIDE DEF t
<1>3. \A i \in 1..n : /\ s[i].session \in 1..S
                      /\ s[i].session \in Nat /\ s[i].sequence \in Nat
  BY <1>0, ChunksAreTyped DEF Ordered
<1>l. n > 0 => \/ s[n].session = S /\ s[n].sequence = N
               \/ s[n].session < S /\ N = 0
  BY DEF Ordered
<1> HIDE DEF n
<1>4. ASSUME NEW i \in 1..n
      PROVE  Earlier(s[i], e)
  <2>1. n \in 1..n /\ (i = n \/ i < n)
    BY <1>0
  <2>2. CASE i = n
    BY <1>0, <1>1, <1>3, <1>l, <2>1, <2>2 DEF Earlier
  <2>3. CASE i < n
    <3>1. Earlier(s[i], s[n])
      BY <2>1, <2>3 DEF Ordered, Rising, n
    <3> QED BY <1>0, <1>1, <1>3, <1>l, <2>1, <3>1 DEF Earlier
  <2> QED BY <2>1, <2>2, <2>3
<1>5. \A i \in 1..(n + 1) : i = n + 1 \/ i \in 1..n
  BY <1>0
<1>6. \A i \in 1..Len(t) : t[i].session \in 1..S
  <2>1. S \in 1..S
    OBVIOUS
  <2> QED BY <1>1, <1>2, <1>3, <1>5, <2>1
<1>7. Rising(t)
  <2> SUFFICES ASSUME NEW i \in 1..Len(t), NEW j \in 1..Len(t), i < j
               PROVE  Earlier(t[i], t[j])
    BY DEF Rising
  <2>1. i \in 1..n
    BY <1>0, <1>2
  <2>2. CASE j = n + 1
    BY <1>2, <1>4, <2>1, <2>2
  <2>3. CASE j \in 1..n
    <3>1. Earlier(s[i], s[j])
      BY <2>1, <2>3 DEF Ordered, Rising, n
    <3> QED BY <1>2, <2>1, <2>3, <3>1
  <2> QED BY <1>2, <1>5, <2>2, <2>3
<1>8. Unbroken(t)
  <2> SUFFICES ASSUME NEW i \in 1..(Len(t) - 1)
               PROVE  Follows(t[i], t[i + 1])
    BY DEF Unbroken
  <2>1. i \in 1..n /\ t[i] = s[i]
    BY <1>0, <1>2
  <2>2. CASE i = n
    <3>1. t[i + 1] = e
      BY <1>2, <2>2
    <3>2. \/ s[i].session = S /\ s[i].sequence = N
          \/ s[i].session < S /\ N = 0
      BY <1>0, <1>l, <2>1, <2>2
    <3> QED BY <1>1, <2>1, <3>1, <3>2 DEF Follows
  <2>3. CASE i # n
    <3>1. i \in 1..(n - 1) /\ i + 1 \in 1..n
      BY <1>0, <2>1, <2>3
    <3>2. Follows(s[i], s[i + 1])
      BY <3>1 DEF Ordered, Unbroken, n
    <3>3. t[i + 1] = s[i + 1]
      BY <1>2, <3>1
    <3> QED BY <2>1, <3>2, <3>3
  <2> QED BY <2>2, <2>3
<1>9. t[Len(t)].session = S /\ t[Len(t)].sequence = N + 1
  BY <1>1, <1>2
<1> QED BY <1>2, <1>6, <1>7, <1>8, <1>9 DEF Ordered, t, e

(* A new session starts behind the output of the old ones.                 *)
LEMMA RestartStaysOrdered ==
  ASSUME NEW s, NEW S \in Nat \ {0}, NEW N, Ordered(s, S, N)
  PROVE  Ordered(s, S + 1, 0)
<1>1. s \in Seq(ChunkType) /\ Len(s) \in Nat
  BY LenProperties DEF Ordered
<1>2. \A i \in 1..Len(s) : s[i].session \in 1..(S + 1) /\ s[i].session < S + 1
  BY DEF Ordered
<1>3. Len(s) > 0 => s[Len(s)].session < S + 1
  BY <1>1, <1>2
<1> QED BY <1>1, <1>2, <1>3 DEF Ordered

(* The next chunk of the session is newer than all before.                 *)
LEMMA AppendStaysCounted ==
  ASSUME NEW s, NEW S \in Nat, NEW N \in Nat, NEW F \in Nat, NEW b \in Nat, b > 0, F <= N,
         Counted(s, S, N, F)
  PROVE  Counted(Append(s, Chunk(S, N + 1, N + 1, b)), S, N + 1, F)
<1> DEFINE e == Chunk(S, N + 1, N + 1, b)
           t == Append(s, e)
           n == Len(s)
<1>0. s \in Seq(ChunkType) /\ n \in Nat
  BY LenProperties DEF Counted
<1>1. /\ e \in ChunkType /\ e.session = S /\ e.sequence = N + 1 /\ e.bytes = b
  BY DEF Chunk, ChunkType
<1> HIDE DEF e
<1>2. /\ t \in Seq(ChunkType) /\ Len(t) = n + 1 /\ t[n + 1] = e
      /\ \A i \in 1..n : t[i] = s[i]
  BY <1>0, <1>1, AppendProperties
<1> HIDE DEF t
<1>3. \A i \in 1..n : /\ s[i].session = S /\ s[i].bytes > 0 /\ F < s[i].sequence
                      /\ s[i].sequence <= N /\ s[i].sequence \in Nat
  BY <1>0, ChunksAreTyped DEF Counted
<1>r. \A i, j \in 1..n : i < j => Earlier(s[i], s[j])
  BY DEF Counted, Rising
<1> HIDE DEF n
<1>4. \A i \in 1..(n + 1) : i = n + 1 \/ i \in 1..n
  BY <1>0
<1>5. ASSUME NEW i \in 1..Len(t)
      PROVE  /\ t[i].session = S /\ t[i].bytes > 0
             /\ F < t[i].sequence /\ t[i].sequence <= N + 1
  <2>1. CASE i = n + 1
    BY <1>1, <1>2, <2>1
  <2>2. CASE i \in 1..n
    <3>1. t[i] = s[i]
      BY <1>2, <2>2
    <3>2. s[i].sequence <= N + 1
      BY <1>3, <2>2
    <3> QED BY <1>3, <2>2, <3>1, <3>2
  <2> QED BY <1>2, <1>4, <2>1, <2>2
<1>6. Rising(t)
  <2> SUFFICES ASSUME NEW i \in 1..Len(t), NEW j \in 1..Len(t), i < j
               PROVE  Earlier(t[i], t[j])
    BY DEF Rising
  <2>1. i \in 1..n /\ t[i] = s[i]
    BY <1>0, <1>2
  <2>2. CASE j = n + 1
    <3>1. s[i].sequence < N + 1
      BY <1>3, <2>1
    <3> QED BY <1>1, <1>2, <1>3, <2>1, <2>2, <3>1 DEF Earlier
  <2>3. CASE j \in 1..n
    BY <1>2, <1>r, <2>1, <2>3
  <2> QED BY <1>2, <1>4, <2>2, <2>3
<1> QED BY <1>2, <1>5, <1>6 DEF Counted, t, e

(* Without its first chunk the rest is above that chunk's number.          *)
LEMMA RestStaysCounted ==
  ASSUME NEW c \in ChunkType, NEW t \in Seq(ChunkType), NEW S, NEW N, NEW F,
         Counted(<<c>> \o t, S, N, F)
  PROVE  Counted(t, S, N, c.sequence) /\ Counted(t, S, N, F)
<1> DEFINE s == <<c>> \o t
<1>1. /\ Len(t) \in Nat /\ Len(s) = Len(t) + 1 /\ s[1] = c
      /\ \A i \in 1..Len(t) : i + 1 \in 1..Len(s) /\ s[i + 1] = t[i]
  BY LenProperties
<1>2. Counted(s, S, N, F)
  OBVIOUS
<1> HIDE DEF s
<1>3. \A i \in 1..Len(t) : /\ t[i].session = S /\ t[i].bytes > 0
                           /\ F < t[i].sequence /\ t[i].sequence <= N
  BY <1>1, <1>2 DEF Counted
<1>4. Rising(t)
  <2> SUFFICES ASSUME NEW i \in 1..Len(t), NEW j \in 1..Len(t), i < j
               PROVE  Earlier(t[i], t[j])
    BY DEF Rising
  <2>1. i + 1 < j + 1
    OBVIOUS
  <2>2. Earlier(s[i + 1], s[j + 1])
    BY <1>1, <1>2, <2>1 DEF Counted, Rising
  <2> QED BY <1>1, <2>2
<1>5. ASSUME NEW i \in 1..Len(t)
      PROVE  c.sequence < t[i].sequence
  <2>1. 1 \in 1..Len(s) /\ 1 < i + 1 /\ i + 1 \in 1..Len(s)
    BY <1>1
  <2>2. Earlier(s[1], s[i + 1])
    BY <1>2, <2>1 DEF Counted, Rising
  <2>3. c.session = S /\ t[i].session = S /\ c.session \in Nat
    BY <1>1, <1>2, <2>1 DEF Counted, ChunkType
  <2> QED BY <1>1, <2>2, <2>3 DEF Earlier
<1> QED BY <1>3, <1>4, <1>5 DEF Counted

-----------------------------------------------------------------------------
(* The steps of the task and of the window *)

(* Appending to the second of two sequences.                               *)
LEMMA AppendBehind ==
  ASSUME NEW S, NEW a \in Seq(S), NEW b \in Seq(S), NEW e \in S
  PROVE  a \o Append(b, e) = Append(a \o b, e)
OBVIOUS

(* The last of one sequence is the first of the next.                      *)
LEMMA AppendMoves ==
  ASSUME NEW S, NEW a \in Seq(S), NEW b \in Seq(S), NEW e \in S
  PROVE  Append(a, e) \o b = a \o (<<e>> \o b)
OBVIOUS

(* A sequence is its head and its tail.                                    *)
LEMMA HeadTailConcat ==
  ASSUME NEW S, NEW a \in Seq(S), a # <<>>
  PROVE  a = <<Head(a)>> \o Tail(a) /\ Head(a) \in S /\ Tail(a) \in Seq(S)
OBVIOUS

(* Everything that is sent and not acknowledged, oldest first.             *)
Way == acks \o InWindow

(* The controller counts its queue, and schedules a write only of a queue  *)
(* that is not empty while xterm is idle.                                  *)
WindowInv ==
  /\ TypeOK
  /\ queuedBytes = Bytes(queue)
  /\ scheduled => queue # <<>> /\ writing = NoChunk

(* What a step of the task may do to the output.                           *)
TaskSends ==
  /\ UNCHANGED <<session, acks, window>>
  /\ alive' \in BOOLEAN /\ left' \in 0..Output /\ (alive' => alive) /\ alive
  /\ flow' \in FlowType /\ flow'.lastAcked = flow.lastAcked
  /\ \/ /\ UNCHANGED events
        /\ flow'.nextSequence = flow.nextSequence /\ flow'.inFlight = flow.inFlight
     \/ \E n \in Nat \ {0} :
          /\ events' = Append(events, Chunk(session, flow.nextSequence + 1, flow.nextSequence + 1, n))
          /\ flow'.nextSequence = flow.nextSequence + 1
          /\ flow'.inFlight = flow.inFlight + n

(* The three steps of the task are such steps.                             *)
LEMMA TaskSteps ==
  ASSUME TypeOK, (\E n \in 1..ReadMax : Read(n)) \/ Tick \/ Exit
  PROVE  TaskSends
<1>0. /\ flow \in FlowType /\ flow.pending \in Nat /\ flow.inFlight \in Nat
      /\ alive \in BOOLEAN /\ left \in 0..Output
      /\ Batch \in Nat \ {0} /\ ReadMax \in Nat /\ Output \in Nat
  BY FlowAssumption DEF TypeOK, FlowType
<1>f. /\ Flush(flow) \in FlowType
      /\ Flush(flow).inFlight = flow.inFlight + flow.pending
      /\ Flush(flow).nextSequence = flow.nextSequence + 1
      /\ Flush(flow).lastAcked = flow.lastAcked
  BY <1>0, FlushSends
<1>1. ASSUME NEW n \in 1..ReadMax, Read(n)
      PROVE  TaskSends
  <2> DEFINE pushed == Push(flow, n)
  <2>0. n \in Nat
    BY <1>0
  <2>1. /\ pushed \in FlowType
        /\ pushed.pending = flow.pending + n /\ pushed.inFlight = flow.inFlight
        /\ pushed.nextSequence = flow.nextSequence /\ pushed.lastAcked = flow.lastAcked
    BY <1>0, <2>0, PushKeeps
  <2>2. /\ flow' = IF pushed.pending >= Batch THEN Flush(pushed) ELSE pushed
        /\ events' = IF pushed.pending >= Batch THEN Append(events, Emission(pushed)) ELSE events
    BY <1>1 DEF Read
  <2>3. UNCHANGED <<session, alive, acks, window>> /\ alive /\ left' = left - n /\ n <= left
    BY <1>1 DEF Read, CanRead
  <2> HIDE DEF pushed
  <2>4. left' \in 0..Output /\ alive' \in BOOLEAN
    BY <1>0, <2>0, <2>3
  <2>5. /\ Flush(pushed) \in FlowType
        /\ Flush(pushed).inFlight = pushed.inFlight + pushed.pending
        /\ Flush(pushed).nextSequence = pushed.nextSequence + 1
        /\ Flush(pushed).lastAcked = pushed.lastAcked
    BY <2>1, FlushSends
  <2>6. CASE pushed.pending >= Batch
    <3>1. pushed.pending \in Nat \ {0}
      BY <1>0, <2>1, <2>6 DEF FlowType
    <3>2. events' = Append(events, Chunk(session, flow.nextSequence + 1,
                                         flow.nextSequence + 1, pushed.pending))
      BY <2>1, <2>2, <2>6 DEF Emission
    <3> QED BY <2>1, <2>2, <2>3, <2>4, <2>5, <2>6, <3>1, <3>2 DEF TaskSends
  <2>7. CASE ~(pushed.pending >= Batch)
    BY <2>1, <2>2, <2>3, <2>4, <2>7 DEF TaskSends
  <2> QED BY <2>6, <2>7
<1>2. CASE Tick
  <2>1. flow.pending \in Nat \ {0}
    BY <1>0, <1>2 DEF Tick
  <2>2. events' = Append(events, Chunk(session, flow.nextSequence + 1,
                                       flow.nextSequence + 1, flow.pending))
    BY <1>2 DEF Tick, Emission
  <2>3. UNCHANGED <<session, acks, window, alive, left>> /\ alive /\ flow' = Flush(flow)
    BY <1>2 DEF Tick
  <2> QED BY <1>0, <1>f, <2>1, <2>2, <2>3 DEF TaskSends
<1>3. CASE Exit
  <2>3. UNCHANGED <<session, acks, window, left>> /\ alive' = FALSE /\ alive
    BY <1>3 DEF Exit, CanRead
  <2>4. CASE flow.pending > 0
    <3>1. flow.pending \in Nat \ {0}
      BY <1>0, <2>4
    <3>2. events' = Append(events, Chunk(session, flow.nextSequence + 1,
                                         flow.nextSequence + 1, flow.pending))
      BY <1>3, <2>4 DEF Exit, Emission
    <3>3. flow' = Flush(flow)
      BY <1>3, <2>4 DEF Exit
    <3> QED BY <1>0, <1>f, <2>3, <3>1, <3>2, <3>3 DEF TaskSends
  <2>5. CASE ~(flow.pending > 0)
    <3>1. flow' = flow /\ events' = events
      BY <1>3, <2>5 DEF Exit
    <3> QED BY <1>0, <2>3, <3>1 DEF TaskSends
  <2> QED BY <2>4, <2>5
<1> QED BY <1>1, <1>2, <1>3

(* What TypeOK says of the sequences.                                      *)
LEMMA TypesOfSequences ==
  ASSUME TypeOK
  PROVE  /\ acks \in Seq(ChunkType) /\ queue \in Seq(ChunkType) /\ events \in Seq(ChunkType)
         /\ writing \in ChunkType
         /\ InWindow \in Seq(ChunkType) /\ Way \in Seq(ChunkType)
         /\ InWindow = (IF writing = NoChunk THEN <<>> ELSE <<writing>>) \o queue \o events
<1> DEFINE w == IF writing = NoChunk THEN <<>> ELSE <<writing>>
<1>1. /\ acks \in Seq(ChunkType) /\ queue \in Seq(ChunkType) /\ events \in Seq(ChunkType)
      /\ writing \in ChunkType
  BY DEF TypeOK
<1>2. w \in Seq(ChunkType)
  BY <1>1
<1>3. InWindow = (w \o queue) \o events
  BY DEF InWindow
<1> HIDE DEF w
<1>4. w \o queue \in Seq(ChunkType)
  BY <1>1, <1>2, ConcatProperties
<1>5. InWindow \in Seq(ChunkType)
  BY <1>1, <1>3, <1>4, ConcatProperties
<1>6. Way \in Seq(ChunkType)
  BY <1>1, <1>5, ConcatProperties DEF Way
<1> QED BY <1>1, <1>3, <1>5, <1>6 DEF w

(* A delivery moves the oldest event into the queue and may join chunks.   *)
LEMMA DeliverRejoins ==
  ASSUME TypeOK, Deliver
  PROVE  /\ queue' \in Seq(ChunkType) /\ queue' # <<>> /\ events' \in Seq(ChunkType)
         /\ Bytes(queue') = Bytes(queue) + Head(events).bytes
         /\ Rejoins(InWindow', InWindow)
<1> DEFINE e == Head(events)
           r == Tail(events)
           w == IF writing = NoChunk THEN <<>> ELSE <<writing>>
           q == Append(queue, e)
           c == Compact(q)
<1>1. /\ queue \in Seq(ChunkType) /\ events \in Seq(ChunkType) /\ writing \in ChunkType
      /\ events # <<>> /\ events' = r /\ queue' = c /\ writing' = writing
  BY DEF TypeOK, Deliver
<1>2. e \in ChunkType /\ r \in Seq(ChunkType) /\ events = <<e>> \o r
  BY <1>1, HeadTailConcat
<1>3. w \in Seq(ChunkType)
  BY <1>1
<1>4. InWindow = (w \o queue) \o events /\ InWindow' = (w \o c) \o r
  BY <1>1 DEF InWindow
<1> HIDE DEF e, r, w, c
<1>5. q \in Seq(ChunkType) /\ Len(q) > 0 /\ Bytes(q) = Bytes(queue) + e.bytes
  <2>1. q \in Seq(ChunkType) /\ Len(q) = Len(queue) + 1 /\ Len(queue) \in Nat
    BY <1>1, <1>2, AppendProperties, LenProperties
  <2> QED BY <1>1, <1>2, <2>1, BytesOfAppend
<1>6. (w \o q) \o r = (w \o queue) \o events
  <2>1. <<e>> \in Seq(ChunkType) /\ q = queue \o <<e>>
    BY <1>1, <1>2, AppendIsConcat
  <2>2. w \o (queue \o <<e>>) = (w \o queue) \o <<e>> /\ w \o queue \in Seq(ChunkType)
    BY <1>1, <1>3, <2>1, ConcatAssociative, ConcatProperties
  <2> HIDE DEF q
  <2>3. ((w \o queue) \o <<e>>) \o r = (w \o queue) \o (<<e>> \o r)
    BY <1>2, <2>1, <2>2, ConcatAssociative
  <2> QED BY <1>2, <2>1, <2>2, <2>3
<1> HIDE DEF q
<1>7. Rejoins(c, q)
  BY <1>5, CompactRejoins DEF c
<1>8. c \in Seq(ChunkType) /\ Bytes(c) = Bytes(q)
  BY <1>7 DEF Rejoins
<1>9. c # <<>>
  <2>1. Len(c) \in Nat /\ Len(q) \in Nat /\ (Len(c) = 0 <=> Len(q) = 0)
    BY <1>5, <1>7, <1>8, LenProperties, RejoinedChunks
  <2> QED BY <1>5, <2>1
<1>10. Rejoins((w \o c) \o r, (w \o q) \o r)
  <2>1. Rejoins(w \o c, w \o q)
    BY <1>3, <1>7, RejoinsBehind
  <2> QED BY <1>2, <2>1, RejoinsBefore
<1>11. Rejoins(InWindow', InWindow)
  BY <1>4, <1>6, <1>10
<1> QED BY <1>1, <1>2, <1>5, <1>8, <1>9, <1>11 DEF e

(* A write joins the first chunks of the queue.                            *)
LEMMA WriteRejoins ==
  ASSUME WindowInv, Write
  PROVE  /\ writing' \in ChunkType /\ queue' \in Seq(ChunkType)
         /\ queuedBytes' = Bytes(queue')
         /\ (\A i \in 1..Len(queue) : queue[i].session > 0) => Rejoins(InWindow', InWindow)
<1> DEFINE k == BatchLength
           b == SubSeq(queue, 1, k)
           r == SubSeq(queue, k + 1, Len(queue))
           j == Join(b)
<1>1. /\ queue \in Seq(ChunkType) /\ events \in Seq(ChunkType)
      /\ queue # <<>> /\ writing = NoChunk /\ queuedBytes = Bytes(queue)
      /\ writing' = j /\ queue' = r /\ queuedBytes' = queuedBytes - Bytes(b) /\ events' = events
  BY DEF WindowInv, TypeOK, Write
<1>2. Len(queue) \in Nat /\ Len(queue) > 0 /\ \A i \in 1..Len(queue) : queue[i] \in ChunkType
  BY <1>1, LenProperties, ElementOfSeq, EmptySeq
<1>3. k \in 1..Len(queue)
  BY <1>1, <1>2, BatchIsFront
<1> HIDE DEF k
<1>4. /\ b \in Seq(ChunkType) /\ Len(b) = k /\ b[k] = queue[k]
      /\ r \in Seq(ChunkType)
  <2>1. \A i \in 1..k : queue[i] \in ChunkType
    BY <1>2, <1>3
  <2>2. \A i \in (k + 1)..Len(queue) : queue[i] \in ChunkType
    BY <1>2, <1>3
  <2>3. 1 \in Int /\ k \in Int /\ k + 1 \in Int /\ Len(queue) \in Int
    BY <1>2, <1>3
  <2>4. b \in Seq(ChunkType) /\ Len(b) = k /\ b[k] = queue[k]
    BY <1>3, <2>1, <2>3, SubSeqProperties
  <2>5. r \in Seq(ChunkType)
    BY <2>2, <2>3, SubSeqProperties
  <2> QED BY <2>4, <2>5
<1>5. b \o r = queue
  <2>1. 1 \in 1..(Len(queue) + 1) /\ k \in (1 - 1)..Len(queue) /\ Len(queue) \in k..Len(queue)
    BY <1>2, <1>3
  <2>2. b \o r = SubSeq(queue, 1, Len(queue))
    BY <1>1, <2>1, ConcatAdjacentSubSeq
  <2>3. SubSeq(queue, 1, Len(queue)) = queue
    BY <1>1, SubSeqFull
  <2> HIDE DEF b, r
  <2> QED BY <2>2, <2>3
<1> HIDE DEF b, r
<1>6. /\ Rejoins(<<j>>, b) /\ j \in ChunkType /\ j.session = b[Len(b)].session
  BY <1>3, <1>4, WholeRejoins, JoinsAreChunks
<1>7. ASSUME \A i \in 1..Len(queue) : queue[i].session > 0
      PROVE  Rejoins(InWindow', InWindow)
  <2>1. j # NoChunk
    <3>1. j.session > 0
      BY <1>3, <1>4, <1>6, <1>7
    <3>2. NoChunk.session = 0
      BY DEF NoChunk, Chunk
    <3> HIDE DEF j
    <3> QED BY <3>1, <3>2
  <2> HIDE DEF j
  <2>2. InWindow = (<<>> \o queue) \o events /\ InWindow' = (<<j>> \o r) \o events
    BY <1>1, <2>1 DEF InWindow
  <2>3. Rejoins((<<j>> \o r) \o events, (b \o r) \o events)
    <3>1. Rejoins(<<j>> \o r, b \o r)
      BY <1>4, <1>6, RejoinsBefore
    <3> QED BY <1>1, <3>1, RejoinsBefore
  <2>4. (b \o r) \o events = (<<>> \o queue) \o events
    <3>1. <<>> \o queue = queue
      BY <1>1, ConcatEmptySeq
    <3> QED BY <1>5, <3>1
  <2> QED BY <2>2, <2>3, <2>4
<1>12. queuedBytes' = Bytes(r)
  <2>1. Bytes(b \o r) = Bytes(b) + Bytes(r) /\ Bytes(b) \in Nat /\ Bytes(r) \in Nat
    BY <1>4, BytesOfConcat, BytesAreNatural
  <2>2. Bytes(queue) = Bytes(b) + Bytes(r)
    BY <1>5, <2>1
  <2> QED BY <1>1, <2>1, <2>2
<1> QED BY <1>1, <1>4, <1>6, <1>7, <1>12

(* A written batch goes from the window to the acknowledgements.           *)
LEMMA DoneMoves ==
  ASSUME TypeOK, Done
  PROVE  /\ InWindow = <<writing>> \o InWindow' /\ InWindow' \in Seq(ChunkType)
         /\ Way' = Way
<1>1. /\ queue \in Seq(ChunkType) /\ events \in Seq(ChunkType) /\ writing \in ChunkType
      /\ acks \in Seq(ChunkType)
      /\ writing # NoChunk /\ writing' = NoChunk /\ queue' = queue /\ events' = events
      /\ acks' = Append(acks, writing)
  BY DEF TypeOK, Done
<1> DEFINE rest == (<<>> \o queue) \o events
<1>2. InWindow = (<<writing>> \o queue) \o events /\ InWindow' = rest
  BY <1>1 DEF InWindow
<1>3. rest \in Seq(ChunkType) /\ (<<writing>> \o queue) \o events = <<writing>> \o rest
  BY <1>1
<1> HIDE DEF rest
<1>4. Append(acks, writing) \o rest = acks \o (<<writing>> \o rest)
  BY SMTT(20), <1>1, <1>3, AppendMoves
<1>5. Way' = Append(acks, writing) \o rest /\ Way = acks \o (<<writing>> \o rest)
  BY <1>1, <1>2, <1>3 DEF Way
<1> QED BY <1>2, <1>3, <1>4, <1>5

(* Ctrl+C while xterm is idle takes the queue out of the window's front.   *)
LEMMA CtrlCDrops ==
  ASSUME TypeOK, CtrlC, writing = NoChunk
  PROVE  /\ InWindow = queue \o InWindow' /\ InWindow' \in Seq(ChunkType)
         /\ Rejoins(Way', Way)
<1> DEFINE j == Join(queue)
<1>1. /\ queue \in Seq(ChunkType) /\ events \in Seq(ChunkType) /\ acks \in Seq(ChunkType)
      /\ queue # <<>> /\ writing' = NoChunk /\ queue' = <<>> /\ events' = events
      /\ acks' = Append(acks, j)
  BY DEF TypeOK, CtrlC
<1>2. Len(queue) > 0
  BY <1>1, EmptySeq
<1>3. Rejoins(<<j>>, queue) /\ j \in ChunkType
  BY <1>1, <1>2, WholeRejoins
<1> HIDE DEF j
<1>4. InWindow = (<<>> \o queue) \o events /\ InWindow' = (<<>> \o <<>>) \o events
  BY <1>1 DEF InWindow
<1>5. (<<>> \o <<>>) \o events = events /\ (<<>> \o queue) \o events = queue \o events
  BY <1>1
<1>6. InWindow = queue \o events /\ InWindow' = events
  BY <1>4, <1>5
<1>7. Way' = Append(acks, j) \o events /\ Way = acks \o (queue \o events)
  BY <1>1, <1>6 DEF Way
<1>8. Append(acks, j) \o events = acks \o (<<j>> \o events)
  BY <1>1, <1>3, AppendMoves
<1>9. Rejoins(acks \o (<<j>> \o events), acks \o (queue \o events))
  <2>1. Rejoins(<<j>> \o events, queue \o events)
    BY <1>1, <1>3, RejoinsBefore
  <2> QED BY <1>1, <2>1, RejoinsBehind
<1>10. Rejoins(Way', Way)
  BY <1>7, <1>8, <1>9
<1> QED BY <1>1, <1>6, <1>10

(* What the task sends comes last.                                         *)
LEMMA SendsAppend ==
  ASSUME TypeOK, TaskSends, NEW e \in ChunkType, events' = Append(events, e)
  PROVE  InWindow' = Append(InWindow, e) /\ Way' = Append(Way, e)
<1> DEFINE w == IF writing = NoChunk THEN <<>> ELSE <<writing>>
           a == w \o queue
<1>1. /\ queue \in Seq(ChunkType) /\ events \in Seq(ChunkType) /\ writing \in ChunkType
      /\ acks \in Seq(ChunkType) /\ InWindow \in Seq(ChunkType)
  BY TypesOfSequences
<1>2. UNCHANGED <<acks, queue, writing>>
  BY DEF TaskSends, window
<1>3. InWindow = a \o events /\ InWindow' = a \o Append(events, e)
  BY <1>2 DEF InWindow
<1>4. a \in Seq(ChunkType)
  BY <1>1
<1> HIDE DEF a
<1>5. a \o Append(events, e) = Append(a \o events, e)
  BY <1>1, <1>4, AppendBehind
<1>6. InWindow' = Append(InWindow, e)
  BY <1>3, <1>5
<1>7. Way' = acks \o Append(InWindow, e) /\ Way = acks \o InWindow
  BY <1>2, <1>6 DEF Way
<1>8. acks \o Append(InWindow, e) = Append(acks \o InWindow, e)
  BY <1>1, AppendBehind
<1> QED BY <1>6, <1>7, <1>8

-----------------------------------------------------------------------------
(* The invariants *)

(* WindowInv is inductive, whatever the user, the network and xterm do.    *)
LEMMA WindowInvariant == Spec => []WindowInv
<1>1. Init => WindowInv
  <2> SUFFICES ASSUME Init PROVE WindowInv
    OBVIOUS
  <2>1. /\ 1 \in 1..MaxSessions /\ Output \in 0..Output
    BY FlowAssumption
  <2>2. NewFlow \in FlowType /\ NoChunk \in ChunkType /\ <<>> \in Seq(ChunkType)
    BY EmptySeq DEF NewFlow, FlowType, NoChunk, Chunk, ChunkType
  <2> QED BY <2>1, <2>2, BytesOfEmpty DEF Init, WindowInv, TypeOK
<1>2. WindowInv /\ [Next]_vars => WindowInv'
  <2> SUFFICES ASSUME WindowInv, [Next]_vars
               PROVE  WindowInv'
    OBVIOUS
  <2>0. /\ TypeOK /\ queuedBytes = Bytes(queue)
        /\ scheduled => queue # <<>> /\ writing = NoChunk
        /\ <<>> \in Seq(ChunkType) /\ NoChunk \in ChunkType
    BY EmptySeq DEF WindowInv, NoChunk, Chunk, ChunkType
  <2>1. CASE (\E n \in 1..ReadMax : Read(n)) \/ Tick \/ Exit
    <3>1. TaskSends
      BY <2>0, <2>1, TaskSteps
    <3>2. events' \in Seq(ChunkType)
      <4>1. CASE UNCHANGED events
        BY <2>0, <4>1 DEF TypeOK
      <4>2. ASSUME NEW n \in Nat \ {0},
                   events' = Append(events, Chunk(session, flow.nextSequence + 1,
                                                  flow.nextSequence + 1, n))
            PROVE  events' \in Seq(ChunkType)
        <5>1. Chunk(session, flow.nextSequence + 1, flow.nextSequence + 1, n) \in ChunkType
          <6>1. session \in Nat /\ flow.nextSequence \in Nat
            BY <2>0, FlowAssumption DEF TypeOK, FlowType
          <6> QED BY <6>1 DEF Chunk, ChunkType
        <5>2. events \in Seq(ChunkType)
          BY <2>0 DEF TypeOK
        <5> QED BY <4>2, <5>1, <5>2, AppendProperties
      <4> QED BY <3>1, <4>1, <4>2 DEF TaskSends
    <3>3. UNCHANGED <<session, acks, queue, queuedBytes, writing, scheduled, visible>>
      BY <3>1 DEF TaskSends, window
    <3>4. alive' \in BOOLEAN /\ left' \in 0..Output /\ flow' \in FlowType
      BY <3>1 DEF TaskSends
    <3> QED BY <2>0, <3>2, <3>3, <3>4 DEF WindowInv, TypeOK
  <2>2. CASE Restart
    <3>1. session' \in 1..MaxSessions
      BY <2>0, <2>2, FlowAssumption DEF Restart, TypeOK
    <3>2. Output \in 0..Output /\ NewFlow \in FlowType
      BY FlowAssumption DEF NewFlow, FlowType
    <3> QED BY <2>0, <2>2, <3>1, <3>2 DEF Restart, WindowInv, TypeOK, window
  <2>3. ASSUME NEW i \in 1..Len(acks), ServeAck(i)
        PROVE  WindowInv'
    <3>1. acks \in Seq(ChunkType) /\ flow \in FlowType
      BY <2>0 DEF TypeOK
    <3>2. acks' \in Seq(ChunkType)
      <4>1. Len(acks) \in Nat /\ \A k \in 1..Len(acks) : acks[k] \in ChunkType
        BY <3>1, LenProperties, ElementOfSeq
      <4> DEFINE a == SubSeq(acks, 1, i - 1)
                 b == SubSeq(acks, i + 1, Len(acks))
      <4>2. /\ \A k \in 1..(i - 1) : acks[k] \in ChunkType
            /\ \A k \in (i + 1)..Len(acks) : acks[k] \in ChunkType
            /\ i - 1 \in Int /\ i + 1 \in Int /\ Len(acks) \in Int
        BY <4>1
      <4>3. a \in Seq(ChunkType)
        BY <4>2, SubSeqProperties
      <4>4. b \in Seq(ChunkType)
        BY <4>2, SubSeqProperties
      <4>5. acks' = a \o b
        BY <2>3 DEF ServeAck, RemoveAt
      <4> HIDE DEF a, b
      <4> QED BY <4>3, <4>4, <4>5, ConcatProperties
    <3>3. flow' \in FlowType
      <4>1. acks[i].sequence \in Nat /\ acks[i].bytes \in Nat
        BY <3>1, ChunksAreTyped
      <4>2. Acknowledge(flow, acks[i].sequence, acks[i].bytes) \in FlowType
        BY <3>1, <4>1, AcknowledgeSettles
      <4> QED BY <2>3, <3>1, <4>2 DEF ServeAck
    <3>4. UNCHANGED <<session, alive, left, events, queue, queuedBytes, writing, scheduled, visible>>
      BY <2>3 DEF ServeAck, window
    <3> QED BY <2>0, <3>2, <3>3, <3>4 DEF WindowInv, TypeOK
  <2>4. CASE Deliver
    <3>1. /\ queue' \in Seq(ChunkType) /\ queue' # <<>> /\ events' \in Seq(ChunkType)
          /\ Bytes(queue') = Bytes(queue) + Head(events).bytes
      BY <2>0, <2>4, DeliverRejoins
    <3>2. queuedBytes' = Bytes(queue') /\ scheduled' = (scheduled \/ Scheduled(queue', writing))
      BY <2>0, <2>4, <3>1 DEF Deliver
    <3>3. UNCHANGED <<session, alive, left, flow, acks, writing, visible>>
      BY <2>4 DEF Deliver, backend
    <3>4. Bytes(queue') \in Nat
      BY <3>1, BytesAreNatural
    <3>5. scheduled' => writing' = NoChunk
      BY <2>0, <3>2, <3>3 DEF Scheduled
    <3>6. scheduled' \in BOOLEAN
      BY <2>0, <3>2 DEF Scheduled, TypeOK
    <3> QED BY <2>0, <3>1, <3>2, <3>3, <3>4, <3>5, <3>6 DEF WindowInv, TypeOK
  <2>5. CASE Write
    <3>1. /\ writing' \in ChunkType /\ queue' \in Seq(ChunkType) /\ queuedBytes' = Bytes(queue')
      BY <2>5, WriteRejoins
    <3>2. queuedBytes' \in Nat
      BY <3>1, BytesAreNatural
    <3>3. UNCHANGED <<session, alive, left, flow, events, acks, visible>> /\ scheduled' = FALSE
      BY <2>5 DEF Write, backend
    <3> QED BY <2>0, <3>1, <3>2, <3>3 DEF WindowInv, TypeOK
  <2>6. CASE Done
    <3>1. UNCHANGED <<session, alive, left, flow, events, queue, queuedBytes, visible>>
      BY <2>6 DEF Done, backend
    <3>2. acks' \in Seq(ChunkType) /\ writing' = NoChunk
      BY <2>0, <2>6, AppendProperties DEF Done, TypeOK
    <3>3. scheduled' = (scheduled \/ Scheduled(queue, NoChunk))
      BY <2>6 DEF Done
    <3>4. scheduled' => queue' # <<>>
      BY <2>0, <3>1, <3>3 DEF Scheduled
    <3>5. scheduled' \in BOOLEAN
      BY <2>0, <3>3 DEF Scheduled, TypeOK
    <3> QED BY <2>0, <3>1, <3>2, <3>4, <3>5 DEF WindowInv, TypeOK
  <2>7. CASE CtrlC
    <3>1. UNCHANGED <<session, alive, left, flow, events, writing, visible>>
      BY <2>7 DEF CtrlC, backend
    <3>2. queue' = <<>> /\ queuedBytes' = 0 /\ scheduled' = FALSE /\ acks' = Append(acks, Join(queue))
      BY <2>7 DEF CtrlC
    <3>3. Join(queue) \in ChunkType
      <4>1. queue \in Seq(ChunkType) /\ queue # <<>>
        BY <2>0, <2>7 DEF TypeOK, CtrlC
      <4>2. Len(queue) > 0
        BY <4>1, EmptySeq
      <4> QED BY <4>1, <4>2, JoinsAreChunks
    <3>4. acks' \in Seq(ChunkType)
      BY <2>0, <3>2, <3>3, AppendProperties DEF TypeOK
    <3> QED BY <2>0, <3>1, <3>2, <3>4, BytesOfEmpty DEF WindowInv, TypeOK
  <2>8. CASE Hide
    BY <2>0, <2>8 DEF Hide, WindowInv, TypeOK, backend
  <2>9. CASE Show
    <3>1. scheduled' = (writing = NoChunk /\ queue # <<>>) /\ visible' = TRUE
      BY <2>9 DEF Show
    <3>2. scheduled' \in BOOLEAN
      BY <3>1
    <3> QED BY <2>0, <2>9, <3>1, <3>2 DEF Show, WindowInv, TypeOK, backend
  <2>10. CASE UNCHANGED vars
    BY <2>0, <2>10 DEF vars, backend, window, WindowInv, TypeOK
  <2> QED BY <2>1, <2>2, <2>3, <2>4, <2>5, <2>6, <2>7, <2>8, <2>9, <2>10 DEF Next
<1> QED BY <1>1, <1>2, PTL DEF Spec

(* TypeOK of every reachable state.                                        *)
THEOREM TerminalTypeCorrect == Spec => []TypeOK
<1>1. WindowInv => TypeOK
  BY DEF WindowInv
<1> QED BY <1>1, WindowInvariant, PTL

(* OutputInOrder is not inductive: a join can only be known to follow its  *)
(* predecessor if sessions and numbers rise throughout the window, and a   *)
(* chunk that is sent only if the last one there is the last that was sent. *)
OrderInv == WindowInv /\ Ordered(InWindow, session, flow.nextSequence)

(* While xterm is idle the queue is the front of the window.               *)
LEMMA QueueIsInWindow ==
  ASSUME TypeOK, writing = NoChunk
  PROVE  \A i \in 1..Len(queue) : i \in 1..Len(InWindow) /\ InWindow[i] = queue[i]
<1>1. queue \in Seq(ChunkType) /\ events \in Seq(ChunkType)
  BY DEF TypeOK
<1>2. (<<>> \o queue) \o events = queue \o events
  BY <1>1
<1>3. InWindow = queue \o events
  BY <1>2 DEF InWindow
<1>4. Len(queue) \in Nat /\ Len(events) \in Nat
  BY <1>1, LenProperties
<1>5. /\ Len(queue \o events) = Len(queue) + Len(events)
      /\ \A i \in 1..Len(queue) : (queue \o events)[i] = queue[i]
  BY <1>1, <1>4
<1> QED BY <1>3, <1>4, <1>5

(* OrderInv is inductive. Only Ctrl+C while a batch is being written can   *)
(* tear a hole: it takes chunks from behind the batch.                     *)
LEMMA OrderInvariant == ~CtrlCWhileWriting => (Spec => []OrderInv)
<1> SUFFICES ASSUME ~CtrlCWhileWriting
             PROVE  Spec => []OrderInv
  OBVIOUS
<1>1. Init => Ordered(InWindow, session, flow.nextSequence)
  <2> SUFFICES ASSUME Init PROVE Ordered(InWindow, session, flow.nextSequence)
    OBVIOUS
  <2>1. InWindow = (<<>> \o <<>>) \o <<>>
    BY DEF Init, InWindow
  <2>2. (<<>> \o <<>>) \o <<>> = <<>> /\ <<>> \in Seq(ChunkType) /\ Len(<<>>) = 0
    BY EmptySeq
  <2>3. InWindow \in Seq(ChunkType) /\ Len(InWindow) = 0
    BY <2>1, <2>2
  <2>4. Rising(InWindow) /\ Unbroken(InWindow)
    BY <2>3 DEF Rising, Unbroken
  <2> QED BY <2>3, <2>4 DEF Ordered
<1>2. /\ WindowInv /\ Ordered(InWindow, session, flow.nextSequence) /\ [Next]_vars
      => Ordered(InWindow, session, flow.nextSequence)'
  <2> SUFFICES ASSUME WindowInv, Ordered(InWindow, session, flow.nextSequence), [Next]_vars
               PROVE  Ordered(InWindow', session', flow'.nextSequence)
    OBVIOUS
  <2>0. /\ TypeOK /\ flow \in FlowType /\ flow.nextSequence \in Nat /\ session \in Nat \ {0}
    BY FlowAssumption DEF WindowInv, TypeOK, FlowType
  <2>1. CASE (\E n \in 1..ReadMax : Read(n)) \/ Tick \/ Exit
    <3>1. TaskSends
      BY <2>0, <2>1, TaskSteps
    <3>2. session' = session
      BY <3>1 DEF TaskSends
    <3>3. CASE UNCHANGED events /\ flow'.nextSequence = flow.nextSequence
      <4>1. InWindow' = InWindow
        BY <3>1, <3>3 DEF TaskSends, window, InWindow
      <4> QED BY <3>2, <3>3, <4>1
    <3>4. ASSUME NEW n \in Nat \ {0},
                 events' = Append(events, Chunk(session, flow.nextSequence + 1,
                                                flow.nextSequence + 1, n)),
                 flow'.nextSequence = flow.nextSequence + 1
          PROVE  Ordered(InWindow', session', flow'.nextSequence)
      <4> DEFINE e == Chunk(session, flow.nextSequence + 1, flow.nextSequence + 1, n)
      <4>1. e \in ChunkType
        BY <2>0 DEF Chunk, ChunkType
      <4>2. Ordered(Append(InWindow, e), session, flow.nextSequence + 1)
        BY <2>0, AppendStaysOrdered
      <4>3. events' = Append(events, e)
        BY <3>4
      <4> HIDE DEF e
      <4>4. InWindow' = Append(InWindow, e)
        BY <2>0, <3>1, <4>1, <4>3, SendsAppend
      <4> QED BY <3>2, <3>4, <4>2, <4>4
    <3> QED BY <3>1, <3>3, <3>4 DEF TaskSends
  <2>2. CASE Restart
    <3>1. InWindow' = InWindow /\ session' = session + 1 /\ flow'.nextSequence = 0
      BY <2>2 DEF Restart, window, InWindow, NewFlow
    <3>2. Ordered(InWindow, session + 1, 0)
      BY <2>0, RestartStaysOrdered
    <3> QED BY <3>1, <3>2
  <2>3. ASSUME NEW i \in 1..Len(acks), ServeAck(i)
        PROVE  Ordered(InWindow', session', flow'.nextSequence)
    <3>1. InWindow' = InWindow /\ session' = session
      BY <2>3 DEF ServeAck, window, InWindow
    <3>2. flow'.nextSequence = flow.nextSequence
      <4>1. acks[i].sequence \in Nat /\ acks[i].bytes \in Nat
        BY <2>0, ChunksAreTyped DEF TypeOK
      <4>2. Acknowledge(flow, acks[i].sequence, acks[i].bytes).nextSequence = flow.nextSequence
        BY ZenonT(30), <2>0, <4>1, AcknowledgeSettles
      <4> QED BY <2>3, <4>2 DEF ServeAck
    <3> QED BY <3>1, <3>2
  <2>4. CASE Deliver
    <3>1. Rejoins(InWindow', InWindow)
      BY <2>0, <2>4, DeliverRejoins
    <3>2. session' = session /\ flow' = flow
      BY <2>4 DEF Deliver, backend
    <3> QED BY <3>1, <3>2, RejoinedStaysOrdered
  <2>5. CASE Write
    <3>1. \A i \in 1..Len(queue) : queue[i].session > 0
      <4>1. writing = NoChunk
        BY <2>5 DEF Write, WindowInv
      <4>2. \A i \in 1..Len(queue) : queue[i].session \in 1..session
        BY <2>0, <4>1, QueueIsInWindow DEF Ordered
      <4> QED BY <2>0, <4>2
    <3>2. Rejoins(InWindow', InWindow)
      BY <2>5, <3>1, WriteRejoins
    <3>3. session' = session /\ flow' = flow
      BY <2>5 DEF Write, backend
    <3> QED BY <3>2, <3>3, RejoinedStaysOrdered
  <2>6. CASE Done
    <3>1. InWindow = <<writing>> \o InWindow' /\ InWindow' \in Seq(ChunkType)
      BY <2>0, <2>6, DoneMoves
    <3>2. <<writing>> \in Seq(ChunkType)
      BY <2>0 DEF TypeOK
    <3>3. Ordered(<<writing>> \o InWindow', session, flow.nextSequence)
      BY <3>1
    <3>4. session' = session /\ flow' = flow
      BY <2>6 DEF Done, backend
    <3> QED BY <3>1, <3>2, <3>3, <3>4, RestStaysOrdered
  <2>7. CASE CtrlC
    <3>1. writing = NoChunk
      BY <2>7 DEF CtrlC
    <3>2. InWindow = queue \o InWindow' /\ InWindow' \in Seq(ChunkType) /\ queue \in Seq(ChunkType)
      BY <2>0, <2>7, <3>1, CtrlCDrops DEF TypeOK
    <3>3. Ordered(queue \o InWindow', session, flow.nextSequence)
      BY <3>2
    <3>4. session' = session /\ flow' = flow
      BY <2>7 DEF CtrlC, backend
    <3> QED BY <3>2, <3>3, <3>4, RestStaysOrdered
  <2>8. CASE Hide \/ Show \/ UNCHANGED vars
    <3>1. UNCHANGED <<session, flow, events, queue, writing>>
      BY <2>8 DEF Hide, Show, vars, backend, window
    <3> QED BY <3>1 DEF InWindow
  <2> QED BY <2>1, <2>2, <2>3, <2>4, <2>5, <2>6, <2>7, <2>8 DEF Next
<1>3. OrderInv <=> WindowInv /\ Ordered(InWindow, session, flow.nextSequence)
  BY DEF OrderInv
<1> QED BY <1>1, <1>2, <1>3, WindowInvariant, PTL DEF Spec

(* OutputInOrder of every reachable state, if Ctrl+C does not hit a batch  *)
(* that is being written: xterm gets the output of every session in the    *)
(* order of its numbers and without a gap, whatever the batch sizes, the   *)
(* length of the queue and the order of the acknowledgements.              *)
THEOREM OutputArrivesInOrder == ~CtrlCWhileWriting => (Spec => []OutputInOrder)
<1>1. OrderInv => OutputInOrder
  BY DEF OrderInv, Ordered, Unbroken, Follows, OutputInOrder
<1> QED BY <1>1, OrderInvariant, PTL

-----------------------------------------------------------------------------
(* What is acknowledged already: the numbers up to this one.               *)
Floor == IF alive THEN flow.lastAcked ELSE 0

(* InFlightIsOutstanding is not inductive: an acknowledgement counts only  *)
(* if it is newer than the last one, so the numbers on their way have to   *)
(* rise and to be above the last that was acknowledged.                    *)
OutstandingIsCounted ==
  /\ flow.lastAcked <= flow.nextSequence
  /\ Counted(Way, session, flow.nextSequence, Floor)
  /\ alive => flow.inFlight = Bytes(Way)

CountInv == WindowInv /\ OutstandingIsCounted

(* A lower floor holds as well.                                            *)
LEMMA CountedFromBelow ==
  ASSUME NEW s, NEW S, NEW N, NEW F \in Nat, NEW G \in Nat, G <= F, Counted(s, S, N, F)
  PROVE  Counted(s, S, N, G)
<1>1. \A i \in 1..Len(s) : s[i].sequence \in Nat
  BY ChunksAreTyped DEF Counted
<1>2. \A i \in 1..Len(s) : G < s[i].sequence
  BY <1>1 DEF Counted
<1> QED BY <1>2 DEF Counted

(* The oldest acknowledgement is served: its bytes were in flight.         *)
LEMMA OldestAckSettles ==
  ASSUME WindowInv, OutstandingIsCounted, FlowInv, ReadMax <= High, 1 \in 1..Len(acks), ServeAck(1)
  PROVE  OutstandingIsCounted'
<1> DEFINE c == acks[1]
           r == Tail(acks)
<1>0. /\ acks \in Seq(ChunkType) /\ InWindow \in Seq(ChunkType) /\ flow \in FlowType
      /\ flow.lastAcked \in Nat /\ flow.nextSequence \in Nat /\ flow.inFlight \in Nat
      /\ flow.pending \in Nat /\ High \in Nat /\ ReadMax \in Nat /\ alive \in BOOLEAN
  BY TypesOfSequences, FlowAssumption DEF WindowInv, TypeOK, FlowType
<1>1. acks # <<>>
  BY <1>0
<1>2. c \in ChunkType /\ r \in Seq(ChunkType) /\ acks = <<c>> \o r
  BY <1>0, <1>1, HeadTailConcat
<1>3. acks' = r
  <2>1. acks' = SubSeq(acks, 1, 1 - 1) \o SubSeq(acks, 1 + 1, Len(acks))
    BY DEF ServeAck, RemoveAt
  <2>2. SubSeq(acks, 1, 1 - 1) = <<>>
    BY SubSeqEmpty
  <2>3. r = SubSeq(acks, 1 + 1, Len(acks))
    BY <1>0, <1>1, TailIsSubSeq
  <2>4. <<>> \o r = r
    BY <1>2, ConcatEmptySeq
  <2> HIDE DEF r
  <2> QED BY <2>1, <2>2, <2>3, <2>4
<1>4. c.sequence \in Nat /\ c.bytes \in Nat /\ c.session \in Nat
  BY <1>2 DEF ChunkType
<1>a. flow' = IF alive /\ c.sequence \in Nat /\ c.bytes \in 1..(2 * High)
              THEN Acknowledge(flow, c.sequence, c.bytes) ELSE flow
  BY DEF ServeAck
<1> HIDE DEF c, r
<1> DEFINE rest == r \o InWindow
<1>5. InWindow' = InWindow /\ session' = session /\ alive' = alive
  BY DEF ServeAck, window, InWindow
<1>6. Way' = rest /\ Way = <<c>> \o rest /\ rest \in Seq(ChunkType)
  <2>1. (<<c>> \o r) \o InWindow = <<c>> \o (r \o InWindow) /\ r \o InWindow \in Seq(ChunkType)
    BY <1>0, <1>2
  <2> QED BY <1>2, <1>3, <1>5, <2>1 DEF Way
<1> HIDE DEF rest
<1>7. Counted(<<c>> \o rest, session, flow.nextSequence, Floor)
  BY <1>6 DEF OutstandingIsCounted
<1>8. /\ Counted(rest, session, flow.nextSequence, c.sequence)
      /\ Counted(rest, session, flow.nextSequence, Floor)
  BY <1>2, <1>6, <1>7, RestStaysCounted
<1>9. c.bytes > 0 /\ Floor < c.sequence /\ c.sequence <= flow.nextSequence
  <2>1. 1 \in 1..Len(<<c>> \o rest) /\ (<<c>> \o rest)[1] = c
    BY <1>2, <1>6
  <2> QED BY <1>7, <2>1 DEF Counted
<1>10. CASE alive
  <2>1. Bytes(Way) = c.bytes + Bytes(rest) /\ Bytes(rest) \in Nat
    <3>1. <<c>> \in Seq(ChunkType) /\ Bytes(rest) \in Nat
      BY <1>2, <1>6, BytesAreNatural
    <3>2. Bytes(<<c>> \o rest) = Bytes(<<c>>) + Bytes(rest)
      BY <1>6, <3>1, BytesOfConcat
    <3>3. Bytes(<<c>>) = c.bytes
      <4>1. <<>> \in Seq(ChunkType) /\ Append(<<>>, c) = <<c>>
        BY EmptySeq
      <4>2. Bytes(Append(<<>>, c)) = Bytes(<<>>) + c.bytes
        BY <1>2, <4>1, BytesOfAppend
      <4> QED BY <1>4, <4>1, <4>2, BytesOfEmpty
    <3> QED BY <1>6, <3>1, <3>2, <3>3
  <2>2. flow.inFlight = c.bytes + Bytes(rest)
    BY <1>10, <2>1 DEF OutstandingIsCounted
  <2>3. c.bytes <= flow.inFlight
    BY <1>4, <2>1, <2>2
  <2>4. c.bytes \in 1..(2 * High)
    <3>1. flow.inFlight + flow.pending < High + ReadMax
      BY DEF FlowInv, OutputBounded, Buffered
    <3> QED BY <1>0, <1>4, <1>9, <2>3, <3>1
  <2>5. c.sequence > flow.lastAcked
    BY <1>0, <1>4, <1>9, <1>10 DEF Floor
  <2>6. flow' = Acknowledge(flow, c.sequence, c.bytes)
    BY <1>4, <1>10, <1>a, <2>4
  <2>7. /\ flow'.nextSequence = flow.nextSequence /\ flow'.lastAcked = c.sequence
        /\ flow'.inFlight = flow.inFlight - c.bytes
    <3> DEFINE next == Acknowledge(flow, c.sequence, c.bytes)
    <3>0. flow \in FlowType /\ c.sequence \in Nat /\ c.bytes \in Nat
      BY <1>0, <1>4
    <3>1. /\ next.nextSequence = flow.nextSequence
          /\ (c.sequence > flow.lastAcked /\ c.bytes <= flow.inFlight) =>
               /\ next.lastAcked = c.sequence
               /\ next.inFlight = flow.inFlight - c.bytes
      BY ZenonT(30), <3>0, AcknowledgeSettles
    <3> HIDE DEF next
    <3>2. flow' = next
      BY <2>6 DEF next
    <3> QED BY <2>3, <2>5, <3>1, <3>2
  <2>8. flow'.inFlight = Bytes(rest)
    BY <1>4, <2>1, <2>2, <2>7
  <2>9. Floor' = c.sequence
    BY <1>5, <1>10, <2>7 DEF Floor
  <2> QED BY <1>5, <1>6, <1>8, <1>9, <2>7, <2>8, <2>9 DEF OutstandingIsCounted
<1>11. CASE ~alive
  <2>1. flow' = flow /\ Floor' = Floor
    BY <1>5, <1>11, <1>a DEF Floor
  <2> QED BY <1>5, <1>6, <1>8, <1>11, <2>1 DEF OutstandingIsCounted
<1> QED BY <1>10, <1>11

(* CountInv is inductive.                                                  *)
LEMMA CountInvariant ==
  ~CtrlCWhileWriting /\ ~AcksOvertake /\ ~RestartUndrained /\ ReadMax <= High
    => (Spec => []CountInv)
<1> SUFFICES ASSUME ~CtrlCWhileWriting, ~AcksOvertake, ~RestartUndrained, ReadMax <= High
             PROVE  Spec => []CountInv
  OBVIOUS
<1>e. /\ <<>> \in Seq(ChunkType) /\ Len(<<>>) = 0
      /\ \A S, N, F : Counted(<<>>, S, N, F)
  BY EmptySeq DEF Counted, Rising
<1>1. Init => OutstandingIsCounted
  <2> SUFFICES ASSUME Init PROVE OutstandingIsCounted
    OBVIOUS
  <2>1. Way = <<>> \o ((<<>> \o <<>>) \o <<>>)
    BY DEF Init, InWindow, Way
  <2>2. <<>> \o ((<<>> \o <<>>) \o <<>>) = <<>>
    BY <1>e
  <2>3. Way = <<>>
    BY <2>1, <2>2
  <2>4. flow.lastAcked = 0 /\ flow.nextSequence = 0 /\ flow.inFlight = 0
    BY DEF Init, NewFlow
  <2> QED BY <1>e, <2>3, <2>4, BytesOfEmpty DEF OutstandingIsCounted
<1>2. WindowInv /\ FlowInv /\ OutstandingIsCounted /\ [Next]_vars => OutstandingIsCounted'
  <2> SUFFICES ASSUME WindowInv, FlowInv, OutstandingIsCounted, [Next]_vars
               PROVE  OutstandingIsCounted'
    OBVIOUS
  <2>0. /\ TypeOK /\ flow \in FlowType /\ flow.nextSequence \in Nat /\ flow.lastAcked \in Nat
        /\ flow.inFlight \in Nat /\ session \in Nat \ {0} /\ Floor \in Nat
        /\ acks \in Seq(ChunkType) /\ Way \in Seq(ChunkType) /\ InWindow \in Seq(ChunkType)
    BY TypesOfSequences, FlowAssumption DEF WindowInv, TypeOK, FlowType, Floor
  <2>a. /\ flow.lastAcked <= flow.nextSequence
        /\ Counted(Way, session, flow.nextSequence, Floor)
        /\ alive => flow.inFlight = Bytes(Way)
        /\ Floor <= flow.nextSequence
    BY <2>0 DEF OutstandingIsCounted, Floor
  <2>b. ASSUME Rejoins(Way', Way), UNCHANGED backend
        PROVE  OutstandingIsCounted'
    <3>1. Counted(Way', session, flow.nextSequence, Floor)
      BY <2>a, <2>b, RejoinedStaysCounted
    <3>2. Bytes(Way') = Bytes(Way)
      BY <2>b DEF Rejoins
    <3>3. session' = session /\ flow' = flow /\ alive' = alive
      BY <2>b DEF backend
    <3>4. Floor' = Floor
      BY <3>3 DEF Floor
    <3> QED BY <2>a, <3>1, <3>2, <3>3, <3>4 DEF OutstandingIsCounted
  <2>1. CASE (\E n \in 1..ReadMax : Read(n)) \/ Tick \/ Exit
    <3>1. TaskSends
      BY <2>0, <2>1, TaskSteps
    <3>2. session' = session /\ flow'.lastAcked = flow.lastAcked /\ alive /\ alive' \in BOOLEAN
      BY <3>1 DEF TaskSends
    <3>f. Floor' \in Nat /\ Floor' <= Floor
      BY <2>0, <3>2 DEF Floor
    <3>3. CASE UNCHANGED events /\ flow'.nextSequence = flow.nextSequence
               /\ flow'.inFlight = flow.inFlight
      <4>1. Way' = Way
        BY <3>1, <3>3 DEF TaskSends, window, InWindow, Way
      <4>2. Counted(Way, session, flow.nextSequence, Floor')
        BY <2>0, <2>a, <3>f, CountedFromBelow
      <4> QED BY <2>a, <3>2, <3>3, <4>1, <4>2 DEF OutstandingIsCounted
    <3>4. ASSUME NEW n \in Nat \ {0},
                 events' = Append(events, Chunk(session, flow.nextSequence + 1,
                                                flow.nextSequence + 1, n)),
                 flow'.nextSequence = flow.nextSequence + 1,
                 flow'.inFlight = flow.inFlight + n
          PROVE  OutstandingIsCounted'
      <4> DEFINE e == Chunk(session, flow.nextSequence + 1, flow.nextSequence + 1, n)
      <4>1. e \in ChunkType /\ e.bytes = n
        BY <2>0 DEF Chunk, ChunkType
      <4>2. Counted(Append(Way, e), session, flow.nextSequence + 1, Floor)
        BY <2>0, <2>a, AppendStaysCounted
      <4>3. events' = Append(events, e)
        BY <3>4
      <4> HIDE DEF e
      <4>4. Way' = Append(Way, e)
        BY <2>0, <3>1, <4>1, <4>3, SendsAppend
      <4>5. Counted(Way', session', flow'.nextSequence, Floor')
        BY <2>0, <3>2, <3>4, <3>f, <4>2, <4>4, CountedFromBelow
      <4>6. flow'.inFlight = Bytes(Way')
        BY <2>0, <2>a, <3>2, <3>4, <4>1, <4>4, BytesOfAppend
      <4>7. flow'.lastAcked <= flow'.nextSequence
        BY <2>0, <2>a, <3>2, <3>4
      <4> QED BY <4>5, <4>6, <4>7 DEF OutstandingIsCounted
    <3> QED BY <3>1, <3>3, <3>4 DEF TaskSends
  <2>2. CASE Restart
    <3>1. acks = <<>> /\ queue = <<>> /\ events = <<>> /\ writing = NoChunk
      BY <2>2 DEF Restart, Drained
    <3>2. UNCHANGED <<events, acks, queue, writing>> /\ flow' = NewFlow
      BY <2>2 DEF Restart, window
    <3>3. Way' = <<>> \o ((<<>> \o <<>>) \o <<>>)
      BY <3>1, <3>2 DEF InWindow, Way
    <3>4. <<>> \o ((<<>> \o <<>>) \o <<>>) = <<>>
      BY <1>e
    <3>5. Way' = <<>>
      BY <3>3, <3>4
    <3>6. flow'.lastAcked = 0 /\ flow'.nextSequence = 0 /\ flow'.inFlight = 0
      BY <3>2 DEF NewFlow
    <3> QED BY <1>e, <3>5, <3>6, BytesOfEmpty DEF OutstandingIsCounted
  <2>3. ASSUME NEW i \in 1..Len(acks), ServeAck(i)
        PROVE  OutstandingIsCounted'
    <3>1. i = 1
      BY <2>3 DEF ServeAck
    <3> QED BY <2>3, <3>1, OldestAckSettles
  <2>4. CASE Deliver
    <3>1. Rejoins(InWindow', InWindow) /\ acks' = acks /\ UNCHANGED backend
      BY <2>0, <2>4, DeliverRejoins DEF Deliver
    <3>2. Rejoins(acks \o InWindow', acks \o InWindow)
      BY <2>0, <3>1, RejoinsBehind
    <3>3. Rejoins(Way', Way)
      BY <3>1, <3>2 DEF Way
    <3> QED BY <2>b, <3>1, <3>3
  <2>5. CASE Write
    <3>1. \A i \in 1..Len(queue) : queue[i].session > 0
      <4> SUFFICES ASSUME NEW i \in 1..Len(queue)
                   PROVE  queue[i].session > 0
        OBVIOUS
      <4>1. writing = NoChunk
        BY <2>5 DEF Write, WindowInv
      <4>2. i \in 1..Len(InWindow) /\ InWindow[i] = queue[i]
        BY <2>0, <4>1, QueueIsInWindow
      <4>3. Len(acks) \in Nat /\ Len(InWindow) \in Nat
        BY <2>0, LenProperties
      <4>4. /\ Len(acks) + i \in 1..Len(acks \o InWindow)
            /\ (acks \o InWindow)[Len(acks) + i] = InWindow[i]
        BY <2>0, <4>2, <4>3
      <4>5. PICK k \in 1..Len(Way) : Way[k] = queue[i]
        BY <4>2, <4>4 DEF Way
      <4> QED BY SMTT(20), <2>0, <2>a, <4>5 DEF Counted
    <3>2. Rejoins(InWindow', InWindow) /\ acks' = acks /\ UNCHANGED backend
      BY <2>5, <3>1, WriteRejoins DEF Write
    <3>3. Rejoins(acks \o InWindow', acks \o InWindow)
      BY <2>0, <3>2, RejoinsBehind
    <3>4. Rejoins(Way', Way)
      BY <3>2, <3>3 DEF Way
    <3> QED BY <2>b, <3>2, <3>4
  <2>6. CASE Done
    <3>1. Way' = Way /\ UNCHANGED backend
      BY <2>0, <2>6, DoneMoves DEF Done
    <3>2. Rejoins(Way', Way)
      BY <2>0, <3>1, RejoinsItself
    <3> QED BY <2>b, <3>1, <3>2
  <2>7. CASE CtrlC
    <3>1. writing = NoChunk /\ UNCHANGED backend
      BY <2>7 DEF CtrlC
    <3> QED BY <2>0, <2>7, <2>b, <3>1, CtrlCDrops
  <2>8. CASE Hide \/ Show \/ UNCHANGED vars
    <3>1. UNCHANGED <<backend, acks, events, queue, writing>>
      BY <2>8 DEF Hide, Show, vars, window
    <3>2. Way' = Way
      BY <3>1 DEF InWindow, Way
    <3>3. Rejoins(Way', Way)
      BY <2>0, <3>2, RejoinsItself
    <3> QED BY <2>b, <3>1, <3>3
  <2> QED BY <2>1, <2>2, <2>3, <2>4, <2>5, <2>6, <2>7, <2>8 DEF Next
<1>3. CountInv <=> WindowInv /\ OutstandingIsCounted
  BY DEF CountInv
<1> QED BY <1>1, <1>2, <1>3, WindowInvariant, FlowInvariant, PTL DEF Spec

(* InFlightIsOutstanding of every reachable state, if Ctrl+C does not hit  *)
(* a batch that is being written, acknowledgements arrive in order, the    *)
(* shell is restarted only when its output is shown, and a read is not     *)
(* longer than the high watermark.                                         *)
THEOREM InFlightIsTrue ==
  ~CtrlCWhileWriting /\ ~AcksOvertake /\ ~RestartUndrained /\ ReadMax <= High
    => (Spec => []InFlightIsOutstanding)
<1>1. CountInv => InFlightIsOutstanding
  <2> SUFFICES ASSUME CountInv, alive
               PROVE  flow.inFlight = Bytes(InWindow) + Bytes(acks)
    BY DEF InFlightIsOutstanding
  <2>1. acks \in Seq(ChunkType) /\ InWindow \in Seq(ChunkType)
    BY TypesOfSequences DEF CountInv, WindowInv
  <2>2. Bytes(acks \o InWindow) = Bytes(acks) + Bytes(InWindow)
        /\ Bytes(acks) \in Nat /\ Bytes(InWindow) \in Nat
    BY <2>1, BytesOfConcat, BytesAreNatural
  <2>3. flow.inFlight = Bytes(Way)
    BY DEF CountInv, OutstandingIsCounted
  <2> QED BY <2>2, <2>3 DEF Way
<1> QED BY <1>1, CountInvariant, PTL
=============================================================================
