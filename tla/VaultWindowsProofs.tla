------------------------- MODULE VaultWindowsProofs -------------------------
(***************************************************************************)
(* Theorems about VaultWindows, for any number of windows, edits and syncs *)
(* and any bound on troubles: its types, that a window at rest has saved   *)
(* what it shows, and that no window saves a copy without the secrets.     *)
(***************************************************************************)
EXTENDS VaultWindows, TLAPS

Document == SUBSET Item

-----------------------------------------------------------------------------
(* The invariants                                                          *)

QueueRecord ==
  [pending : Document \cup {None}, inFlight : Document \cup {None},
   latest : Document \cup {None},
   outcome : {"none", "pending", "in-flight", "succeeded", "failed"},
   run : {"none", "scheduled", "saving", "ended"}]

\* What holds of a window's queue between two stretches of its code.
QueueOK(q) ==
  /\ q \in QueueRecord
  /\ q.run = "saving" <=> q.inFlight # None
  /\ q.run = "none" => q.pending = None
  /\ q.pending # None <=> q.outcome = "pending"
  /\ q.pending # None => q.pending = q.latest
  /\ q.outcome = "in-flight" => q.inFlight # None /\ q.inFlight = q.latest
  /\ q.inFlight # None => q.outcome \in {"pending", "in-flight"}

TypeInv ==
  /\ VaultTypeOK
  /\ queue \in [Window -> QueueRecord]
  /\ \A w \in Window : QueueOK(queue[w])
  /\ requests \in [Window -> SUBSET Request]
  /\ inbox \in [Window -> Seq(Message)]

Reply == {"saved", "failed"}

NoReply(s) == \A i \in 1..Len(s) : s[i] \notin Reply

OneReply(s) == \A i, j \in 1..Len(s) : s[i] \in Reply /\ s[j] \in Reply => i = j

\* A reply is on its way only to a window that saves and whose call was served,
\* and only one is.
RepliesInv ==
  \A w \in Window :
    /\ OneReply(inbox[w])
    /\ queue[w].run # "saving" \/ sent[w] => NoReply(inbox[w])

\* A window whose effects have run shows what it saved last, or is about to save
\* what it shows, or its last save failed.
SettledInv ==
  \A w \in Window : hydrated[w] /\ rendered[w] =>
    \/ queue[w].outcome = "failed"
    \/ queue[w].outcome \in {"pending", "in-flight"} /\ queue[w].latest = doc[w]
    \/ queue[w].outcome \in {"none", "succeeded"} /\ persisted[w] = doc[w]

IsFull(d) == {Hosts, Secrets} \subseteq d

\* What is stored, shown by a hydrated window, about to be saved or read in full has
\* the secrets.
CopiesAreFull ==
  /\ IsFull(vault)
  /\ \A w \in Window :
       /\ hydrated[w] => IsFull(doc[w])
       /\ queue[w].pending # None => IsFull(queue[w].pending)
       /\ queue[w].inFlight # None => IsFull(queue[w].inFlight)
       /\ \A r \in requests[w] : r.snap # None /\ r.kind # "public" => IsFull(r.snap)

\* A window that is not hydrated has been neither edited nor queued, and at most one of
\* its requests is the latest; that of a hydrated one is not for a public snapshot.
LoadingInv ==
  \A w \in Window :
    /\ ~hydrated[w] => ~HasWork(queue[w]) /\ \A r \in requests[w] : r.fresh
    /\ hydrated[w] => \A r \in requests[w] : r.kind = "public" => ~r.latest
    /\ \A r, s \in requests[w] : r.latest /\ s.latest => r = s
    /\ load[w] = "start" =>
         /\ ~hydrated[w]
         /\ \A r \in requests[w] : r.kind = "public"
         /\ \A r, s \in requests[w] : r = s

-----------------------------------------------------------------------------
(* The queue                                                               *)

LEMMA EmptyQueueOK == QueueOK(EmptyQueue) /\ EmptyQueue \in QueueRecord
BY DEF QueueOK, EmptyQueue, QueueRecord

\* What is enqueued is what will be saved last.
LEMMA EnqueueOK ==
  ASSUME NEW q, QueueOK(q), NEW d \in Document
  PROVE  /\ QueueOK(Enqueue(q, d)) /\ Enqueue(q, d) \in QueueRecord
         /\ Enqueue(q, d).latest = d
         /\ Enqueue(q, d).outcome \in {"pending", "in-flight"}
         /\ Enqueue(q, d).inFlight = q.inFlight
         /\ Enqueue(q, d).pending \in {d, None}
         /\ Enqueue(q, d).run = "saving" <=> q.run = "saving"
<1>0. d # None
  BY VaultAssumption DEF Document
<1>1. CASE q.pending = d
  BY <1>0, <1>1 DEF QueueOK, QueueRecord, Enqueue
<1>2. CASE q.pending # d /\ q.inFlight = d
  BY <1>0, <1>2 DEF QueueOK, QueueRecord, Enqueue
<1>3. CASE q.pending # d /\ q.inFlight # d
  <2> DEFINE p == [q EXCEPT !.pending = d, !.latest = d, !.outcome = "pending"]
  <2>1. Enqueue(q, d) = EnsureRun(p)
    BY <1>3 DEF Enqueue
  <2>2. /\ p \in QueueRecord /\ p.pending = d /\ p.latest = d /\ p.outcome = "pending"
        /\ p.inFlight = q.inFlight /\ p.run = q.run
    BY DEF QueueOK, QueueRecord
  <2> HIDE DEF p
  <2>3. CASE q.run = "none"
    <3>1. EnsureRun(p) = [p EXCEPT !.run = "scheduled"]
      BY <1>0, <2>2, <2>3 DEF EnsureRun
    <3> QED BY <1>0, <2>1, <2>2, <2>3, <3>1 DEF QueueOK, QueueRecord
  <2>4. CASE q.run # "none"
    <3>1. EnsureRun(p) = p
      BY <2>2, <2>4 DEF EnsureRun
    <3> QED BY <1>0, <2>1, <2>2, <2>4, <3>1 DEF QueueOK, QueueRecord
  <2> QED BY <2>3, <2>4
<1> QED BY <1>1, <1>2, <1>3

\* The head of the save loop, when nothing is in flight.
LEMMA TakePendingOK ==
  ASSUME NEW q \in QueueRecord, q.inFlight = None,
         q.pending # None <=> q.outcome = "pending",
         q.pending # None => q.pending = q.latest,
         q.outcome # "in-flight"
  PROVE  /\ QueueOK(TakePending(q)) /\ TakePending(q) \in QueueRecord
         /\ TakePending(q).latest = q.latest
         /\ TakePending(q).pending = None /\ TakePending(q).inFlight = q.pending
         /\ TakePending(q).outcome = IF q.outcome = "pending" THEN "in-flight" ELSE q.outcome
<1>1. CASE q.pending = None
  BY <1>1 DEF QueueOK, QueueRecord, TakePending
<1>2. CASE q.pending # None
  BY <1>2 DEF QueueOK, QueueRecord, TakePending
<1> QED BY <1>1, <1>2

LEMMA FinishOK ==
  ASSUME NEW q, QueueOK(q), q.run = "saving", NEW result \in {"succeeded", "failed"}
  PROVE  /\ QueueOK(Finish(q, result)) /\ Finish(q, result) \in QueueRecord
         /\ Finish(q, result).latest = q.latest
         /\ Finish(q, result).pending = None /\ Finish(q, result).inFlight = q.pending
         /\ Finish(q, result).outcome = IF q.outcome = "pending" THEN "in-flight" ELSE result
<1> DEFINE p == [q EXCEPT !.inFlight = None,
                          !.outcome = IF @ = "in-flight" THEN result ELSE @]
<1>1. q.outcome \in {"pending", "in-flight"}
  BY DEF QueueOK
<1>2. /\ p \in QueueRecord /\ p.inFlight = None /\ p.pending = q.pending
      /\ p.latest = q.latest
      /\ p.outcome = IF q.outcome = "pending" THEN "pending" ELSE result
  <2>1. CASE q.outcome = "pending"
    BY <2>1 DEF QueueOK, QueueRecord
  <2>2. CASE q.outcome = "in-flight"
    BY <2>2 DEF QueueOK, QueueRecord
  <2> QED BY <1>1, <2>1, <2>2
<1>3. Finish(q, result) = TakePending(p)
  BY DEF Finish
<1> HIDE DEF p
<1>4. (q.pending # None <=> q.outcome = "pending") /\ (q.pending # None => q.pending = q.latest)
  BY DEF QueueOK
<1> QED BY <1>2, <1>3, <1>4, TakePendingOK

LEMMA EndRunOK ==
  ASSUME NEW q, QueueOK(q), q.run = "ended"
  PROVE  /\ QueueOK(EndRun(q)) /\ EndRun(q) \in QueueRecord
         /\ EndRun(q).run # "saving"
         /\ EndRun(q).latest = q.latest /\ EndRun(q).outcome = q.outcome
         /\ EndRun(q).pending = q.pending /\ EndRun(q).inFlight = q.inFlight
<1>1. CASE q.pending = None
  BY <1>1 DEF EndRun, EnsureRun, QueueOK, QueueRecord
<1>2. CASE q.pending # None
  BY <1>2 DEF EndRun, EnsureRun, QueueOK, QueueRecord
<1> QED BY <1>1, <1>2

-----------------------------------------------------------------------------
(* Messages                                                                *)

LEMMA AppendMessage ==
  ASSUME NEW s \in Seq(Message), NEW m \in Message
  PROVE  /\ Append(s, m) \in Seq(Message)
         /\ m \notin Reply /\ NoReply(s) => NoReply(Append(s, m))
         /\ m \notin Reply /\ OneReply(s) => OneReply(Append(s, m))
         /\ NoReply(s) => OneReply(Append(s, m))
BY DEF NoReply, OneReply

LEMMA TailMessages ==
  ASSUME NEW s \in Seq(Message), s # <<>>
  PROVE  /\ Tail(s) \in Seq(Message)
         /\ Head(s) \in Message
         /\ NoReply(s) => NoReply(Tail(s)) /\ Head(s) \notin Reply
         /\ OneReply(s) => OneReply(Tail(s))
         /\ OneReply(s) /\ Head(s) \in Reply => NoReply(Tail(s))
<1>1. /\ Tail(s) \in Seq(Message) /\ Len(s) \in Nat \ {0} /\ Len(Tail(s)) = Len(s) - 1
      /\ \A i \in 1..Len(Tail(s)) : Tail(s)[i] = s[i + 1]
      /\ Head(s) = s[1] /\ Head(s) \in Message
  OBVIOUS
<1>2. \A i \in 1..Len(Tail(s)) : i + 1 \in 1..Len(s) /\ i + 1 # 1
  BY <1>1
<1>3. 1 \in 1..Len(s)
  BY <1>1
<1>4. ASSUME NoReply(s) PROVE NoReply(Tail(s)) /\ Head(s) \notin Reply
  BY <1>1, <1>2, <1>3, <1>4 DEF NoReply
<1>5. ASSUME OneReply(s) PROVE OneReply(Tail(s))
  <2> SUFFICES ASSUME NEW i \in 1..Len(Tail(s)), NEW j \in 1..Len(Tail(s)),
                      Tail(s)[i] \in Reply, Tail(s)[j] \in Reply
               PROVE  i = j
    BY DEF OneReply
  <2>1. i + 1 = j + 1
    BY <1>1, <1>2, <1>5 DEF OneReply
  <2> QED BY <1>1, <2>1
<1>6. ASSUME OneReply(s), Head(s) \in Reply PROVE NoReply(Tail(s))
  BY <1>1, <1>2, <1>3, <1>6 DEF OneReply, NoReply
<1> QED BY <1>1, <1>4, <1>5, <1>6

-----------------------------------------------------------------------------
(* Types, replies, and what a window at rest has saved: they are kept      *)
(* together, because a reply is taken for the save that is in flight.      *)

BaseInv == TypeInv /\ RepliesInv /\ SettledInv

\* What an edit or an effect does to the queue of its window.
LEMMA QueueIfChangedOK ==
  ASSUME TypeInv, NEW w \in Window, NEW d \in Document
  PROVE  LET q == QueueIfChanged(w, d)
         IN  /\ QueueOK(q) /\ q \in QueueRecord
             /\ q.run = "saving" <=> queue[w].run = "saving"
             /\ q.inFlight = queue[w].inFlight
             /\ \/ q = queue[w] /\ (~hydrated[w] \/ (d = persisted[w] /\ ~HasWork(q)))
                \/ /\ hydrated[w] /\ q.latest = d /\ q.outcome \in {"pending", "in-flight"}
                   /\ q.pending \in {d, None}
<1>1. QueueOK(queue[w]) /\ queue[w] \in QueueRecord
  BY DEF TypeInv
<1>2. CASE ~hydrated[w] \/ (d = persisted[w] /\ ~HasWork(queue[w]))
  BY <1>1, <1>2 DEF QueueIfChanged
<1>3. CASE ~(~hydrated[w] \/ (d = persisted[w] /\ ~HasWork(queue[w])))
  <2>1. QueueIfChanged(w, d) = Enqueue(queue[w], d) /\ hydrated[w]
    BY <1>3 DEF QueueIfChanged
  <2> QED BY <1>1, <2>1, EnqueueOK
<1> QED BY <1>2, <1>3

\* A queue without work has nothing to wait for.
LEMMA IdleQueue ==
  ASSUME NEW q, QueueOK(q), ~HasWork(q)
  PROVE  q.outcome \notin {"pending", "in-flight"} /\ q.run = "none"
BY DEF QueueOK, HasWork

LEMMA BaseInit == VaultInit => BaseInv
<1> SUFFICES ASSUME VaultInit PROVE BaseInv
  OBVIOUS
<1>1. vault \in SUBSET Item /\ {} \in SUBSET Item
  BY DEF VaultInit, Item
<1>2. FirstRead \in Request
  BY DEF FirstRead, Request
<1>3. requests \in [Window -> SUBSET Request]
  BY <1>2 DEF VaultInit
<1>4. inbox \in [Window -> Seq(Message)] /\ \A w \in Window : inbox[w] = <<>>
  BY DEF VaultInit
<1>5. /\ queue \in [Window -> QueueRecord] /\ \A w \in Window : QueueOK(queue[w])
      /\ \A w \in Window : queue[w].outcome = "none" /\ queue[w].run = "none"
  BY EmptyQueueOK DEF VaultInit, EmptyQueue
<1>6. /\ doc \in [Window -> SUBSET Item] /\ persisted \in [Window -> (SUBSET Item) \cup {None}]
      /\ \A w \in Window : hydrated[w] => persisted[w] = doc[w]
  BY <1>1 DEF VaultInit
<1>7. VaultTypeOK
  BY <1>1, <1>3, <1>4, <1>6 DEF VaultInit, VaultTypeOK
<1>8. RepliesInv
  BY <1>4 DEF RepliesInv, OneReply, NoReply
<1>9. SettledInv
  BY <1>5, <1>6 DEF SettledInv
<1> QED BY <1>3, <1>4, <1>5, <1>7, <1>8, <1>9 DEF BaseInv, TypeInv

LEMMA BaseEdit ==
  ASSUME BaseInv, NEW w \in Window, NEW e \in Edit, CommitEdit(w, e)
  PROVE  BaseInv'
<1> USE DEF BaseInv, TypeInv, VaultTypeOK, Document
<1> DEFINE q == QueueIfChanged(w, doc[w] \cup {e})
<1>1. /\ doc' = [doc EXCEPT ![w] = @ \cup {e}] /\ edited' = edited \cup {e}
      /\ requests' = [requests EXCEPT ![w] = {[r EXCEPT !.fresh = FALSE] : r \in @}]
      /\ queue' = [queue EXCEPT ![w] = q]
      /\ rendered' = [rendered EXCEPT ![w] = FALSE]
      /\ UNCHANGED <<vault, persisted, hydrated, sent, inbox, load>>
  BY DEF CommitEdit
<1>2. doc[w] \cup {e} \in Document
  BY DEF Item
<1>3. QueueOK(q) /\ q \in QueueRecord /\ (q.run = "saving" <=> queue[w].run = "saving")
  BY <1>2, QueueIfChangedOK
<1> HIDE DEF q
<1>4. \A r \in requests[w] : [r EXCEPT !.fresh = FALSE] \in Request
  <2> SUFFICES ASSUME NEW r \in requests[w] PROVE [r EXCEPT !.fresh = FALSE] \in Request
    OBVIOUS
  <2>1. r \in Request
    OBVIOUS
  <2> QED BY ONLY <2>1 DEF Request
<1>5. requests' \in [Window -> SUBSET Request]
  BY <1>1, <1>4
<1>6. VaultTypeOK'
  BY <1>1, <1>2, <1>3, <1>5
<1>7. queue' \in [Window -> QueueRecord] /\ \A x \in Window : QueueOK(queue'[x])
  BY <1>1, <1>3
<1>8. RepliesInv'
  BY <1>1, <1>3 DEF RepliesInv
<1>9. SettledInv'
  BY <1>1 DEF SettledInv
<1> QED BY <1>1, <1>5, <1>6, <1>7, <1>8, <1>9

LEMMA BaseEffect ==
  ASSUME BaseInv, NEW w \in Window, RunEffect(w)
  PROVE  BaseInv'
<1> USE DEF BaseInv, TypeInv, VaultTypeOK, Document
<1> DEFINE q == QueueIfChanged(w, doc[w])
<1>1. /\ queue' = [queue EXCEPT ![w] = q]
      /\ rendered' = [rendered EXCEPT ![w] = TRUE]
      /\ UNCHANGED <<vault, doc, persisted, hydrated, sent, requests, inbox, load, edited>>
  BY DEF RunEffect
<1>2. /\ QueueOK(q) /\ q \in QueueRecord /\ (q.run = "saving" <=> queue[w].run = "saving")
      /\ \/ ~hydrated[w] \/ (doc[w] = persisted[w] /\ ~HasWork(q))
         \/ q.latest = doc[w] /\ q.outcome \in {"pending", "in-flight"}
  BY QueueIfChangedOK
<1> HIDE DEF q
<1>3. VaultTypeOK'
  BY <1>1, <1>2
<1>4. queue' \in [Window -> QueueRecord] /\ \A x \in Window : QueueOK(queue'[x])
  BY <1>1, <1>2
<1>5. RepliesInv'
  BY <1>1, <1>2 DEF RepliesInv
<1>6. SettledInv'
  <2>1. ASSUME hydrated[w]
        PROVE  \/ q.outcome = "failed"
               \/ q.outcome \in {"pending", "in-flight"} /\ q.latest = doc[w]
               \/ q.outcome \in {"none", "succeeded"} /\ persisted[w] = doc[w]
    BY <1>2, <2>1, IdleQueue DEF QueueRecord
  <2>2. \A x \in Window \ {w} : queue'[x] = queue[x] /\ rendered'[x] = rendered[x]
    BY <1>1
  <2> QED BY <1>1, <2>1, <2>2 DEF SettledInv
<1> QED BY <1>1, <1>3, <1>4, <1>5, <1>6

LEMMA BaseStart ==
  ASSUME BaseInv, NEW w \in Window, StartSaving(w)
  PROVE  BaseInv'
<1> USE DEF BaseInv, TypeInv, VaultTypeOK, Document
<1> DEFINE q == TakePending(queue[w])
<1>1. /\ queue[w].run = "scheduled"
      /\ queue' = [queue EXCEPT ![w] = q]
      /\ sent' = [sent EXCEPT ![w] = queue'[w].run = "saving"]
      /\ UNCHANGED <<vault, doc, persisted, hydrated, rendered, requests, inbox, load, edited>>
  BY DEF StartSaving, docVars
<1>2. /\ queue[w] \in QueueRecord /\ queue[w].inFlight = None
      /\ queue[w].pending # None <=> queue[w].outcome = "pending"
      /\ queue[w].pending # None => queue[w].pending = queue[w].latest
      /\ queue[w].outcome # "in-flight"
  BY <1>1 DEF QueueOK
<1>3. /\ QueueOK(q) /\ q \in QueueRecord /\ q.latest = queue[w].latest
      /\ q.outcome = IF queue[w].outcome = "pending" THEN "in-flight" ELSE queue[w].outcome
  BY <1>2, TakePendingOK
<1> HIDE DEF q
<1>4. queue' \in [Window -> QueueRecord] /\ \A x \in Window : QueueOK(queue'[x])
  BY <1>1, <1>3
<1>5. VaultTypeOK'
  BY <1>1, <1>3
<1>6. RepliesInv'
  BY <1>1 DEF RepliesInv
<1>7. SettledInv'
  BY <1>1, <1>3 DEF SettledInv
<1> QED BY <1>1, <1>4, <1>5, <1>6, <1>7

LEMMA BaseEnd ==
  ASSUME BaseInv, NEW w \in Window, EndSaving(w)
  PROVE  BaseInv'
<1> USE DEF BaseInv, TypeInv, VaultTypeOK, Document
<1> DEFINE q == EndRun(queue[w])
<1>1. /\ queue[w].run = "ended"
      /\ queue' = [queue EXCEPT ![w] = q]
      /\ UNCHANGED <<vault, doc, persisted, hydrated, rendered, sent, requests, inbox, load, edited>>
  BY DEF EndSaving, docVars
<1>2. /\ QueueOK(q) /\ q \in QueueRecord /\ q.latest = queue[w].latest /\ q.run # "saving"
      /\ q.outcome = queue[w].outcome
  BY <1>1, EndRunOK
<1> HIDE DEF q
<1>3. queue' \in [Window -> QueueRecord] /\ \A x \in Window : QueueOK(queue'[x])
  BY <1>1, <1>2
<1>4. VaultTypeOK'
  BY <1>1, <1>2
<1>5. RepliesInv'
  BY <1>1, <1>2 DEF RepliesInv
<1>6. SettledInv'
  BY <1>1, <1>2 DEF SettledInv
<1> QED BY <1>1, <1>3, <1>4, <1>5, <1>6

LEMMA BaseSaved ==
  ASSUME BaseInv, NEW w \in Window, HandleSaved(w)
  PROVE  BaseInv'
<1> USE DEF BaseInv, TypeInv, VaultTypeOK, Document
<1> DEFINE saved == Head(inbox[w]) = "saved"
           result == IF saved THEN "succeeded" ELSE "failed"
           q == Finish(queue[w], result)
<1>1. /\ inbox[w] # <<>> /\ Head(inbox[w]) \in Reply
      /\ inbox' = [inbox EXCEPT ![w] = Tail(@)]
      /\ persisted' = [persisted EXCEPT ![w] = IF saved THEN queue[w].inFlight ELSE @]
      /\ queue' = [queue EXCEPT ![w] = q]
      /\ sent' = [sent EXCEPT ![w] = queue'[w].run = "saving"]
      /\ UNCHANGED <<vault, doc, hydrated, rendered, requests, load, edited>>
  BY DEF HandleSaved, Reply
<1>2. inbox[w] \in Seq(Message)
  OBVIOUS
<1>3. queue[w].run = "saving" /\ ~sent[w] /\ NoReply(Tail(inbox[w])) /\ Tail(inbox[w]) \in Seq(Message)
  BY <1>1, <1>2, TailMessages DEF RepliesInv
<1>4. /\ QueueOK(q) /\ q \in QueueRecord /\ q.latest = queue[w].latest
      /\ q.outcome = IF queue[w].outcome = "pending" THEN "in-flight" ELSE result
  BY <1>3, FinishOK
<1>5. queue[w].inFlight \in Document \cup {None}
  BY DEF QueueRecord
<1>6. queue[w].outcome \in {"pending", "in-flight"}
      /\ (queue[w].outcome = "in-flight" => queue[w].inFlight = queue[w].latest)
  BY <1>3 DEF QueueOK
<1> HIDE DEF q
<1>7. queue' \in [Window -> QueueRecord] /\ \A x \in Window : QueueOK(queue'[x])
  BY <1>1, <1>4
<1>8. inbox' \in [Window -> Seq(Message)]
  BY <1>1, <1>3
<1>9. persisted' \in [Window -> (SUBSET Item) \cup {None}]
  BY <1>1, <1>5
<1>10. VaultTypeOK'
  BY <1>1, <1>8, <1>9
<1>11. RepliesInv'
  <2>1. \A x \in Window \ {w} : queue'[x] = queue[x] /\ sent'[x] = sent[x] /\ inbox'[x] = inbox[x]
    BY <1>1
  <2>2. inbox'[w] = Tail(inbox[w])
    BY <1>1
  <2>3. OneReply(inbox'[w]) /\ NoReply(inbox'[w])
    BY <1>3, <2>2 DEF OneReply, NoReply
  <2> QED BY <2>1, <2>3 DEF RepliesInv
<1>12. SettledInv'
  <2>1. \A x \in Window \ {w} : queue'[x] = queue[x] /\ persisted'[x] = persisted[x]
    BY <1>1
  <2>2. queue'[w] = q /\ persisted'[w] = IF saved THEN queue[w].inFlight ELSE persisted[w]
    BY <1>1
  <2>3. ASSUME hydrated[w], rendered[w]
        PROVE  \/ q.outcome = "failed"
               \/ q.outcome \in {"pending", "in-flight"} /\ q.latest = doc[w]
               \/ q.outcome \in {"none", "succeeded"} /\ persisted'[w] = doc[w]
    <3>1. queue[w].latest = doc[w]
      BY <1>6, <2>3 DEF SettledInv
    <3> QED BY <1>4, <1>6, <2>2, <3>1
  <2> QED BY <1>1, <2>1, <2>2, <2>3 DEF SettledInv
<1> QED BY <1>1, <1>7, <1>8, <1>10, <1>11, <1>12

\* A new request and what becomes of the older ones.
LEMMA BeginOK ==
  ASSUME TypeInv, NEW w \in Window, NEW kind \in {"public", "full", "vault", "sync", "trust"}
  PROVE  Begin(w, kind) \subseteq Request
<1>1. requests[w] \subseteq Request
  BY DEF TypeInv
<1>2. ASSUME NEW r \in Request PROVE [r EXCEPT !.latest = FALSE] \in Request
  BY <1>2 DEF Request
<1>3. [kind |-> kind, latest |-> TRUE, fresh |-> TRUE, snap |-> None] \in Request
  BY DEF Request
<1> QED BY <1>1, <1>2, <1>3 DEF Begin

\* What a window applies has its type, and has to be rendered.
LEMMA ApplyOK ==
  ASSUME BaseInv, NEW w \in Window, NEW d \in Document, NEW full \in BOOLEAN, Apply(w, d, full)
  PROVE  /\ doc' \in [Window -> SUBSET Item] /\ persisted' \in [Window -> (SUBSET Item) \cup {None}]
         /\ hydrated' \in [Window -> BOOLEAN] /\ rendered' \in [Window -> BOOLEAN]
         /\ ~rendered'[w]
         /\ \A x \in Window \ {w} : /\ doc'[x] = doc[x] /\ persisted'[x] = persisted[x]
                                    /\ hydrated'[x] = hydrated[x] /\ rendered'[x] = rendered[x]
<1> USE DEF BaseInv, TypeInv, VaultTypeOK, Document, Apply
<1>1. doc' \in [Window -> SUBSET Item] /\ rendered' \in [Window -> BOOLEAN] /\ ~rendered'[w]
  OBVIOUS
<1>2. persisted' \in [Window -> (SUBSET Item) \cup {None}]
  OBVIOUS
<1>3. hydrated' = [hydrated EXCEPT ![w] = hydrated[w] \/ full] /\ (hydrated[w] \/ full) \in BOOLEAN
  OBVIOUS
<1>4. hydrated' \in [Window -> BOOLEAN]
  BY <1>3
<1> QED BY <1>1, <1>2, <1>4

\* A step that changes at most what one window shows, and leaves it to be rendered.
LEMMA SettledShown ==
  ASSUME BaseInv, NEW w \in Window, \A x \in Window : queue'[x] = queue[x] \/ x = w, ~rendered'[w],
         \A x \in Window \ {w} : /\ doc'[x] = doc[x] /\ persisted'[x] = persisted[x]
                                 /\ hydrated'[x] = hydrated[x] /\ rendered'[x] = rendered[x]
  PROVE  SettledInv'
BY DEF BaseInv, SettledInv

LEMMA BaseChanged ==
  ASSUME BaseInv, NEW w \in Window, HandleChanged(w)
  PROVE  BaseInv'
<1> USE DEF BaseInv, TypeInv, VaultTypeOK
<1>1. /\ inbox[w] # <<>> /\ Head(inbox[w]) \in {"vault", "sync", "trust"}
      /\ inbox' = [inbox EXCEPT ![w] = Tail(@)]
      /\ UNCHANGED <<vault, doc, persisted, hydrated, rendered, queue, sent, load, edited>>
  BY DEF HandleChanged, docVars
<1>2. requests' \in [Window -> SUBSET Request]
  <2>1. Begin(w, Head(inbox[w])) \subseteq Request
    BY <1>1, BeginOK
  <2> QED BY <2>1 DEF HandleChanged
<1>3. inbox[w] \in Seq(Message)
  OBVIOUS
<1>4. /\ Tail(inbox[w]) \in Seq(Message)
      /\ NoReply(inbox[w]) => NoReply(Tail(inbox[w]))
      /\ OneReply(inbox[w]) => OneReply(Tail(inbox[w]))
  BY <1>1, <1>3, TailMessages
<1>5. inbox' \in [Window -> Seq(Message)]
  BY <1>1, <1>4
<1>6. VaultTypeOK'
  BY <1>1, <1>2, <1>5
<1>7. RepliesInv'
  <2>1. \A x \in Window \ {w} : inbox'[x] = inbox[x]
    BY <1>1
  <2>2. inbox'[w] = Tail(inbox[w])
    BY <1>1
  <2> QED BY <1>1, <1>4, <2>1, <2>2 DEF RepliesInv
<1>8. SettledInv'
  BY <1>1 DEF SettledInv
<1> QED BY <1>1, <1>2, <1>5, <1>6, <1>7, <1>8

LEMMA BaseSnapshot ==
  ASSUME BaseInv, NEW w \in Window, HandleSnapshot(w)
  PROVE  BaseInv'
<1> USE DEF BaseInv, TypeInv, VaultTypeOK, Document
<1>1. PICK r \in requests[w] :
        /\ r.snap # None
        /\ requests' = [requests EXCEPT ![w] = @ \ {r}]
        /\ Apply(w, r.snap, TRUE) \/ UNCHANGED docVars
        /\ UNCHANGED <<vault, queue, sent, inbox, load, edited>>
  BY DEF HandleSnapshot
<1>2. r.snap \in Document
  <2>1. r \in Request
    OBVIOUS
  <2> QED BY <1>1, <2>1 DEF Request
<1>3. requests' \in [Window -> SUBSET Request]
  BY <1>1
<1>4. CASE Apply(w, r.snap, TRUE)
  <2>1. VaultTypeOK'
    BY <1>1, <1>2, <1>3, <1>4, ApplyOK
  <2>2. SettledInv'
    BY <1>1, <1>2, <1>4, ApplyOK, SettledShown
  <2>3. RepliesInv'
    BY <1>1 DEF RepliesInv
  <2> QED BY <1>1, <1>3, <2>1, <2>2, <2>3
<1>5. CASE UNCHANGED docVars
  <2>1. UNCHANGED <<doc, persisted, hydrated, rendered>>
    BY <1>5 DEF docVars
  <2> QED BY <1>1, <1>3, <2>1 DEF RepliesInv, SettledInv
<1> QED BY <1>1, <1>4, <1>5

LEMMA BaseLoadPublic ==
  ASSUME BaseInv, NEW w \in Window, LoadPublic(w)
  PROVE  BaseInv'
<1> USE DEF BaseInv, TypeInv, VaultTypeOK
<1>1. /\ load' = [load EXCEPT ![w] = "public"]
      /\ requests' = [requests EXCEPT ![w] = {[r EXCEPT !.latest = r.kind = "public"] : r \in @}]
      /\ UNCHANGED <<vault, doc, persisted, hydrated, rendered, queue, sent, inbox, edited>>
  BY DEF LoadPublic, docVars
<1>2. ASSUME NEW r \in Request PROVE [r EXCEPT !.latest = r.kind = "public"] \in Request
  <2>1. (r.kind = "public") \in BOOLEAN
    OBVIOUS
  <2> QED BY ONLY <1>2, <2>1 DEF Request
<1>3. requests' \in [Window -> SUBSET Request]
  BY <1>1, <1>2
<1>4. VaultTypeOK'
  BY <1>1, <1>3
<1> QED BY <1>1, <1>3, <1>4 DEF RepliesInv, SettledInv

LEMMA BaseLoadFull ==
  ASSUME BaseInv, NEW w \in Window, LoadFull(w)
  PROVE  BaseInv'
<1> USE DEF BaseInv, TypeInv, VaultTypeOK, Document
<1>1. PICK r \in requests[w] :
        /\ r.snap # None
        /\ load' = [load EXCEPT ![w] = "full"]
        /\ requests' = [requests EXCEPT ![w] =
             {[s EXCEPT !.latest = FALSE] : s \in @ \ {r}}
               \cup {[kind |-> "full", latest |-> TRUE, fresh |-> r.fresh, snap |-> None]}]
        /\ Apply(w, r.snap, FALSE) \/ UNCHANGED docVars
        /\ UNCHANGED <<vault, queue, sent, inbox, edited>>
  BY DEF LoadFull
<1>2. r \in Request
  OBVIOUS
<1>3. r.snap \in Document
  BY <1>1, <1>2 DEF Request
<1>4. [kind |-> "full", latest |-> TRUE, fresh |-> r.fresh, snap |-> None] \in Request
  BY <1>2 DEF Request
<1>5. ASSUME NEW s \in Request PROVE [s EXCEPT !.latest = FALSE] \in Request
  BY <1>5 DEF Request
<1>6. requests' \in [Window -> SUBSET Request]
  BY ZenonT(40), <1>1, <1>4, <1>5
<1>7. load' \in [Window -> {"start", "public", "full", "done"}]
  BY <1>1
<1>8. RepliesInv'
  BY <1>1 DEF RepliesInv
<1>9. CASE Apply(w, r.snap, FALSE)
  <2>1. VaultTypeOK'
    BY <1>1, <1>3, <1>6, <1>7, <1>9, ApplyOK
  <2>2. SettledInv'
    BY <1>1, <1>3, <1>9, ApplyOK, SettledShown
  <2> QED BY <1>1, <1>6, <1>8, <2>1, <2>2
<1>10. CASE UNCHANGED docVars
  <2>1. UNCHANGED <<doc, persisted, hydrated, rendered>>
    BY <1>10 DEF docVars
  <2> QED BY <1>1, <1>6, <1>7, <1>8, <2>1 DEF SettledInv
<1> QED BY <1>1, <1>9, <1>10

LEMMA BaseLoadDone ==
  ASSUME BaseInv, NEW w \in Window, LoadDone(w)
  PROVE  BaseInv'
<1> USE DEF BaseInv, TypeInv, VaultTypeOK, Document
<1>1. PICK r \in requests[w] :
        /\ r.snap # None
        /\ load' = [load EXCEPT ![w] = "done"]
        /\ requests' = [requests EXCEPT ![w] = @ \ {r}]
        /\ \/ Apply(w, r.snap, TRUE) /\ UNCHANGED queue
           \/ /\ hydrated' = [hydrated EXCEPT ![w] = TRUE]
              /\ rendered' = [rendered EXCEPT ![w] = FALSE]
              /\ queue' = [queue EXCEPT ![w] = Enqueue(@, doc[w])]
              /\ UNCHANGED <<doc, persisted>>
           \/ UNCHANGED <<docVars, queue>>
        /\ UNCHANGED <<vault, sent, inbox, edited>>
  BY DEF LoadDone
<1>2. r.snap \in Document
  <2>1. r \in Request
    OBVIOUS
  <2> QED BY <1>1, <2>1 DEF Request
<1>3. requests' \in [Window -> SUBSET Request]
  BY <1>1
<1>4. load' \in [Window -> {"start", "public", "full", "done"}]
  BY <1>1
<1>5. CASE Apply(w, r.snap, TRUE) /\ UNCHANGED queue
  <2>1. VaultTypeOK'
    BY <1>1, <1>2, <1>3, <1>4, <1>5, ApplyOK
  <2>2. SettledInv'
    BY <1>1, <1>2, <1>5, ApplyOK, SettledShown
  <2>3. RepliesInv'
    BY <1>1, <1>5 DEF RepliesInv
  <2> QED BY <1>1, <1>3, <1>5, <2>1, <2>2, <2>3
<1>6. CASE /\ hydrated' = [hydrated EXCEPT ![w] = TRUE]
           /\ rendered' = [rendered EXCEPT ![w] = FALSE]
           /\ queue' = [queue EXCEPT ![w] = Enqueue(@, doc[w])]
           /\ UNCHANGED <<doc, persisted>>
  <2> DEFINE q == Enqueue(queue[w], doc[w])
  <2>1. QueueOK(q) /\ q \in QueueRecord /\ (q.run = "saving" <=> queue[w].run = "saving")
    BY EnqueueOK
  <2>2. queue' = [queue EXCEPT ![w] = q]
    BY <1>6
  <2> HIDE DEF q
  <2>3. queue' \in [Window -> QueueRecord] /\ \A x \in Window : QueueOK(queue'[x])
    BY <2>1, <2>2
  <2>4. VaultTypeOK'
    BY <1>1, <1>3, <1>4, <1>6, <2>1, <2>2
  <2>5. RepliesInv'
    BY <1>1, <2>1, <2>2 DEF RepliesInv
  <2>6. SettledInv'
    BY <1>6, <2>2 DEF SettledInv
  <2> QED BY <1>1, <1>3, <2>3, <2>4, <2>5, <2>6
<1>7. CASE UNCHANGED <<docVars, queue>>
  <2>1. UNCHANGED <<doc, persisted, hydrated, rendered, queue>>
    BY <1>7 DEF docVars
  <2> QED BY <1>1, <1>3, <1>4, <2>1 DEF RepliesInv, SettledInv
<1> QED BY <1>1, <1>5, <1>6, <1>7

\* Telling every window of a change takes no place of a reply.
LEMMA BroadcastOK ==
  ASSUME BaseInv, NEW kind \in {"vault", "sync", "trust"}
  PROVE  /\ Broadcast(kind) \in [Window -> Seq(Message)]
         /\ \A w \in Window : /\ NoReply(inbox[w]) => NoReply(Broadcast(kind)[w])
                              /\ OneReply(inbox[w]) => OneReply(Broadcast(kind)[w])
<1>1. kind \in Message /\ kind \notin Reply
  BY DEF Message, Reply
<1>2. \A w \in Window : inbox[w] \in Seq(Message)
  BY DEF BaseInv, TypeInv
<1>3. \A w \in Window : /\ Append(inbox[w], kind) \in Seq(Message)
                        /\ NoReply(inbox[w]) => NoReply(Append(inbox[w], kind))
                        /\ OneReply(inbox[w]) => OneReply(Append(inbox[w], kind))
  BY <1>1, <1>2, AppendMessage
<1> QED BY <1>3 DEF Broadcast

LEMMA BaseBackend ==
  ASSUME BaseInv, NEW w \in Window, BackendStep(w)
  PROVE  BaseInv'
<1> USE DEF BaseInv, TypeInv, VaultTypeOK, Document
<1>1. CASE ServeSave(w)
  <2> DEFINE told == Broadcast("vault")
  <2>1. /\ sent[w] /\ sent' = [sent EXCEPT ![w] = FALSE] /\ vault' = queue[w].inFlight
        /\ inbox' = [told EXCEPT ![w] = Append(@, "saved")]
        /\ UNCHANGED <<doc, persisted, hydrated, rendered, queue, requests, load, edited>>
    BY <1>1 DEF ServeSave, docVars
  <2>2. /\ told \in [Window -> Seq(Message)]
        /\ \A x \in Window : /\ NoReply(inbox[x]) => NoReply(told[x])
                             /\ OneReply(inbox[x]) => OneReply(told[x])
    BY BroadcastOK
  <2> HIDE DEF told
  <2>3. queue[w].run = "saving" /\ NoReply(told[w])
    BY <2>1, <2>2 DEF RepliesInv
  <2>4. Append(told[w], "saved") \in Seq(Message) /\ OneReply(Append(told[w], "saved"))
    BY <2>2, <2>3, AppendMessage, "saved" \in Message DEF Message
  <2>5. vault' \in SUBSET Item
    BY <2>1, <2>3 DEF QueueOK, QueueRecord
  <2>6. inbox' \in [Window -> Seq(Message)]
    BY <2>1, <2>2, <2>4
  <2>7. VaultTypeOK'
    BY <2>1, <2>5, <2>6
  <2>8. RepliesInv'
    <3>1. inbox'[w] = Append(told[w], "saved") /\ ~sent'[w]
      BY <2>1, <2>2
    <3>2. \A x \in Window \ {w} : inbox'[x] = told[x] /\ sent'[x] = sent[x]
      BY <2>1, <2>2
    <3> QED BY <2>1, <2>2, <2>3, <2>4, <3>1, <3>2 DEF RepliesInv
  <2> QED BY <2>1, <2>6, <2>7, <2>8 DEF SettledInv
<1>2. CASE FailSave(w)
  <2>1. /\ sent[w] /\ sent' = [sent EXCEPT ![w] = FALSE]
        /\ inbox' = [inbox EXCEPT ![w] = Append(@, "failed")]
        /\ UNCHANGED <<vault, doc, persisted, hydrated, rendered, queue, requests, load, edited>>
    BY <1>2 DEF FailSave, docVars
  <2>2. queue[w].run = "saving" /\ NoReply(inbox[w]) /\ inbox[w] \in Seq(Message)
    BY <2>1 DEF RepliesInv
  <2>3. Append(inbox[w], "failed") \in Seq(Message) /\ OneReply(Append(inbox[w], "failed"))
    BY <2>2, AppendMessage, "failed" \in Message DEF Message
  <2>4. inbox' \in [Window -> Seq(Message)]
    BY <2>1, <2>3
  <2>5. VaultTypeOK'
    BY <2>1, <2>4
  <2>6. RepliesInv'
    <3>1. inbox'[w] = Append(inbox[w], "failed") /\ ~sent'[w]
      BY <2>1
    <3>2. \A x \in Window \ {w} : inbox'[x] = inbox[x] /\ sent'[x] = sent[x]
      BY <2>1
    <3> QED BY <2>1, <2>2, <2>3, <3>1, <3>2 DEF RepliesInv
  <2> QED BY <2>1, <2>4, <2>5, <2>6 DEF SettledInv
<1>3. CASE ServeSnapshot(w)
  <2>1. PICK r \in requests[w] :
          /\ requests' = [requests EXCEPT ![w] = (@ \ {r}) \cup
               {[r EXCEPT !.snap = IF r.kind = "public" THEN Public(vault) ELSE vault]}]
          /\ UNCHANGED <<vault, doc, persisted, hydrated, rendered, queue, sent, inbox, load, edited>>
    BY <1>3 DEF ServeSnapshot, docVars
  <2>2. r \in Request
    OBVIOUS
  <2>3. Public(vault) \in Document /\ vault \in Document
    BY DEF Public
  <2>4. ASSUME NEW d \in Document PROVE [r EXCEPT !.snap = d] \in Request
    BY <2>2, <2>4 DEF Request
  <2>5. [r EXCEPT !.snap = IF r.kind = "public" THEN Public(vault) ELSE vault] \in Request
    BY <2>3, <2>4
  <2>6. requests' \in [Window -> SUBSET Request]
    BY <2>1, <2>5
  <2> QED BY <2>1, <2>6 DEF RepliesInv, SettledInv
<1> QED BY <1>1, <1>2, <1>3 DEF BackendStep

LEMMA BaseTold ==
  ASSUME BaseInv, TrustHostKey \/ \E s \in Sync : SyncVault(s)
  PROVE  BaseInv'
<1> USE DEF BaseInv, TypeInv, VaultTypeOK, Document
<1>1. PICK kind \in {"sync", "trust"} : inbox' = Broadcast(kind)
  BY DEF TrustHostKey, SyncVault
<1>2. /\ vault' \in SUBSET Item /\ edited' \subseteq Edit \cup Sync
      /\ UNCHANGED <<doc, persisted, hydrated, rendered, queue, sent, requests, load>>
  BY DEF TrustHostKey, SyncVault, docVars, Item
<1>3. /\ inbox' \in [Window -> Seq(Message)]
      /\ \A w \in Window : /\ NoReply(inbox[w]) => NoReply(inbox'[w])
                           /\ OneReply(inbox[w]) => OneReply(inbox'[w])
  BY <1>1, BroadcastOK
<1>4. VaultTypeOK'
  BY <1>2, <1>3
<1> QED BY <1>2, <1>3, <1>4 DEF RepliesInv, SettledInv

LEMMA BaseNext == BaseInv /\ [VaultNext]_vaultVars => BaseInv'
<1> SUFFICES ASSUME BaseInv, [VaultNext]_vaultVars PROVE BaseInv'
  OBVIOUS
<1>1. CASE \E w \in Window : WindowStep(w)
  BY <1>1, BaseEffect, BaseStart, BaseEnd, BaseSaved, BaseChanged, BaseSnapshot,
     BaseLoadPublic, BaseLoadFull, BaseLoadDone DEF WindowStep
<1>2. CASE UNCHANGED vaultVars
  BY <1>2 DEF vaultVars, BaseInv, TypeInv, VaultTypeOK, RepliesInv, SettledInv
<1> QED BY <1>1, <1>2, BaseEdit, BaseBackend, BaseTold DEF VaultNext

LEMMA BaseAlways == VaultSpec => []BaseInv
BY BaseInit, BaseNext, PTL DEF VaultSpec

\* The state of the windows, their queues and the messages keeps its types; a call to
\* save is waiting only while its queue saves.
THEOREM VaultTypeCorrect == VaultSpec => []VaultTypeOK
<1>1. BaseInv => VaultTypeOK
  BY DEF BaseInv, TypeInv
<1> QED BY <1>1, BaseAlways, PTL

\* A window at rest has saved what it shows, whatever overlaps: no edit is forgotten
\* between the window's state, its effects, its queue and the replies to its saves.
THEOREM RestingWindowsHaveSaved == VaultSpec => []SettledIsPersisted
<1>1. BaseInv => SettledIsPersisted
  BY IdleQueue DEF BaseInv, TypeInv, SettledInv, SettledIsPersisted
<1> QED BY <1>1, BaseAlways, PTL

-----------------------------------------------------------------------------
(* The secrets.  Until a window is hydrated it queues nothing; it becomes  *)
(* so by a full snapshot, or with one at hand that an edit has overtaken.  *)
(* That edit, and an event that overtakes the public snapshot, are what    *)
(* the two kinds of Overlap stand for.                                     *)

LoadsUndisturbed == Overlap \cap {"edit while loading", "event while loading"} = {}

SecretsInv == CopiesAreFull /\ LoadingInv

LEMMA SecretsInit == VaultInit => SecretsInv
<1> SUFFICES ASSUME VaultInit PROVE SecretsInv
  OBVIOUS
<1>1. \A w \in Window : queue[w] = EmptyQueue
  BY DEF VaultInit
<1>2. \A w \in Window : requests[w] \in {{}, {FirstRead}} /\ (load[w] = "start" <=> ~hydrated[w])
                        /\ (hydrated[w] => requests[w] = {})
  BY DEF VaultInit
<1>3. CopiesAreFull
  BY <1>1, <1>2 DEF VaultInit, CopiesAreFull, IsFull, EmptyQueue, FirstRead
<1>4. LoadingInv
  <2> SUFFICES ASSUME NEW w \in Window
               PROVE  /\ ~HasWork(queue[w])
                      /\ \A r, s \in requests[w] : r = s
                      /\ \A r \in requests[w] : r.kind = "public" /\ r.fresh /\ ~r.latest
                      /\ load[w] = "start" => ~hydrated[w]
    BY <1>2 DEF LoadingInv
  <2>1. ~HasWork(queue[w])
    BY <1>1 DEF HasWork, EmptyQueue
  <2>2. FirstRead.kind = "public" /\ FirstRead.fresh = TRUE /\ FirstRead.latest = FALSE
    BY DEF FirstRead
  <2>3. \A r \in requests[w] : r = FirstRead
    BY <1>2
  <2> HIDE DEF FirstRead
  <2> QED BY <1>2, <2>1, <2>2, <2>3
<1> QED BY <1>3, <1>4 DEF SecretsInv

\* A step of one window keeps the invariant if it keeps that window's part of it.
LEMMA SecretsOfOne ==
  ASSUME SecretsInv, NEW w \in Window, IsFull(vault'),
         \A x \in Window \ {w} : /\ doc'[x] = doc[x] /\ hydrated'[x] = hydrated[x]
                                 /\ queue'[x] = queue[x] /\ requests'[x] = requests[x]
                                 /\ load'[x] = load[x],
         hydrated'[w] => IsFull(doc'[w]),
         queue'[w].pending # None => IsFull(queue'[w].pending),
         queue'[w].inFlight # None => IsFull(queue'[w].inFlight),
         \A r \in requests'[w] : r.snap # None /\ r.kind # "public" => IsFull(r.snap),
         ~hydrated'[w] => ~HasWork(queue'[w]) /\ \A r \in requests'[w] : r.fresh,
         hydrated'[w] => \A r \in requests'[w] : r.kind = "public" => ~r.latest,
         \A r, s \in requests'[w] : r.latest /\ s.latest => r = s,
         load'[w] = "start" =>
           /\ ~hydrated'[w]
           /\ \A r \in requests'[w] : r.kind = "public"
           /\ \A r, s \in requests'[w] : r = s
  PROVE  SecretsInv'
<1>1. CopiesAreFull'
  BY DEF SecretsInv, CopiesAreFull
<1>2. LoadingInv'
  BY DEF SecretsInv, LoadingInv
<1> QED BY <1>1, <1>2 DEF SecretsInv

LEMMA SecretsEdit ==
  ASSUME LoadsUndisturbed, BaseInv, SecretsInv, NEW w \in Window, NEW e \in Edit, CommitEdit(w, e)
  PROVE  SecretsInv'
<1> DEFINE q == QueueIfChanged(w, doc[w] \cup {e})
<1>1. /\ hydrated[w] /\ doc' = [doc EXCEPT ![w] = @ \cup {e}]
      /\ requests' = [requests EXCEPT ![w] = {[r EXCEPT !.fresh = FALSE] : r \in @}]
      /\ queue' = [queue EXCEPT ![w] = q]
      /\ UNCHANGED <<vault, hydrated, load>>
  BY DEF CommitEdit, LoadsUndisturbed, BaseInv, TypeInv, VaultTypeOK
<1>2. /\ doc \in [Window -> SUBSET Item] /\ queue \in [Window -> QueueRecord]
      /\ requests \in [Window -> SUBSET Request]
  BY DEF BaseInv, TypeInv, VaultTypeOK
<1>3. IsFull(doc[w]) /\ IsFull(doc[w] \cup {e}) /\ doc[w] \cup {e} \in Document
  BY <1>1, <1>2 DEF SecretsInv, CopiesAreFull, IsFull, Document, Item
<1>4. /\ q.pending # None => IsFull(q.pending)
      /\ q.inFlight # None => IsFull(q.inFlight)
  BY <1>3, QueueIfChangedOK DEF BaseInv, SecretsInv, CopiesAreFull
<1> HIDE DEF q
<1>5. \A r \in requests[w] : /\ [r EXCEPT !.fresh = FALSE].kind = r.kind
                             /\ [r EXCEPT !.fresh = FALSE].latest = r.latest
                             /\ [r EXCEPT !.fresh = FALSE].snap = r.snap
  <2> SUFFICES ASSUME NEW r \in Request
               PROVE  /\ [r EXCEPT !.fresh = FALSE].kind = r.kind
                      /\ [r EXCEPT !.fresh = FALSE].latest = r.latest
                      /\ [r EXCEPT !.fresh = FALSE].snap = r.snap
    BY <1>2
  <2> QED BY DEF Request
<1>6. requests'[w] = {[r EXCEPT !.fresh = FALSE] : r \in requests[w]}
  BY <1>1, <1>2
<1>7. /\ \A r \in requests'[w] : r.snap # None /\ r.kind # "public" => IsFull(r.snap)
      /\ \A r \in requests'[w] : r.kind = "public" => ~r.latest
      /\ \A r, s \in requests'[w] : r.latest /\ s.latest => r = s
  <2>1. \A r \in requests[w] : r.snap # None /\ r.kind # "public" => IsFull(r.snap)
    BY DEF SecretsInv, CopiesAreFull
  <2>2. /\ \A r \in requests[w] : r.kind = "public" => ~r.latest
        /\ \A r, s \in requests[w] : r.latest /\ s.latest => r = s
    BY <1>1 DEF SecretsInv, LoadingInv
  <2>3. \A r \in requests'[w] : r.snap # None /\ r.kind # "public" => IsFull(r.snap)
    BY <1>5, <1>6, <2>1
  <2>4. \A r \in requests'[w] : r.kind = "public" => ~r.latest
    BY ZenonT(40), <1>5, <1>6, <2>2
  <2>5. ASSUME NEW r \in requests'[w], NEW s \in requests'[w], r.latest, s.latest
        PROVE  r = s
    <3>1. PICK a \in requests[w] : r = [a EXCEPT !.fresh = FALSE]
      BY <1>6
    <3>2. PICK b \in requests[w] : s = [b EXCEPT !.fresh = FALSE]
      BY <1>6
    <3>3. a = b
      BY <1>5, <2>2, <2>5, <3>1, <3>2
    <3> QED BY <3>1, <3>2, <3>3
  <2> QED BY <2>3, <2>4, <2>5
<1>8. load[w] # "start"
  BY <1>1 DEF SecretsInv, LoadingInv
<1>9. /\ IsFull(vault') /\ hydrated'[w] /\ IsFull(doc'[w]) /\ queue'[w] = q
      /\ load'[w] # "start"
      /\ \A x \in Window \ {w} : /\ doc'[x] = doc[x] /\ hydrated'[x] = hydrated[x]
                                 /\ queue'[x] = queue[x] /\ requests'[x] = requests[x]
                                 /\ load'[x] = load[x]
  BY <1>1, <1>2, <1>3, <1>8 DEF SecretsInv, CopiesAreFull
<1> QED BY <1>4, <1>7, <1>9, SecretsOfOne

\* A step that changes a queue to one without other values, and nothing else here.
LEMMA SecretsQueued ==
  ASSUME BaseInv, SecretsInv, NEW w \in Window, NEW q,
         queue' = [queue EXCEPT ![w] = q],
         UNCHANGED <<vault, doc, hydrated, requests, load>>,
         q.pending # None => IsFull(q.pending),
         q.inFlight # None => IsFull(q.inFlight),
         ~hydrated[w] => ~HasWork(q)
  PROVE  SecretsInv'
<1>1. queue'[w] = q /\ \A x \in Window \ {w} : queue'[x] = queue[x]
  BY DEF BaseInv, TypeInv
<1>2. CopiesAreFull'
  BY <1>1 DEF SecretsInv, CopiesAreFull
<1>3. LoadingInv'
  BY <1>1 DEF SecretsInv, LoadingInv
<1> QED BY <1>2, <1>3 DEF SecretsInv

LEMMA SecretsQueue ==
  ASSUME BaseInv, SecretsInv, NEW w \in Window,
         RunEffect(w) \/ StartSaving(w) \/ EndSaving(w) \/ HandleSaved(w)
  PROVE  SecretsInv'
<1>0. /\ QueueOK(queue[w]) /\ queue[w] \in QueueRecord /\ doc[w] \in Document
      /\ queue[w].pending # None => IsFull(queue[w].pending)
      /\ queue[w].inFlight # None => IsFull(queue[w].inFlight)
      /\ ~hydrated[w] => ~HasWork(queue[w])
      /\ hydrated[w] => IsFull(doc[w])
  BY DEF BaseInv, TypeInv, VaultTypeOK, Document, SecretsInv, CopiesAreFull, LoadingInv
<1>1. CASE RunEffect(w)
  <2> DEFINE q == QueueIfChanged(w, doc[w])
  <2>1. queue' = [queue EXCEPT ![w] = q] /\ UNCHANGED <<vault, doc, hydrated, requests, load>>
    BY <1>1 DEF RunEffect
  <2>2. /\ q.inFlight = queue[w].inFlight
        /\ \/ q = queue[w]
           \/ hydrated[w] /\ q.pending \in {doc[w], None}
    BY <1>0, QueueIfChangedOK DEF BaseInv
  <2> HIDE DEF q
  <2> QED BY <1>0, <2>1, <2>2, SecretsQueued
<1>2. CASE StartSaving(w)
  <2> DEFINE q == TakePending(queue[w])
  <2>1. queue' = [queue EXCEPT ![w] = q] /\ UNCHANGED <<vault, doc, hydrated, requests, load>>
        /\ queue[w].run = "scheduled"
    BY <1>2 DEF StartSaving, docVars
  <2>2. q.pending = None /\ q.inFlight = queue[w].pending
    BY <1>0, <2>1, TakePendingOK DEF QueueOK
  <2>3. HasWork(queue[w])
    BY <2>1 DEF HasWork
  <2> HIDE DEF q
  <2> QED BY <1>0, <2>1, <2>2, <2>3, SecretsQueued
<1>3. CASE EndSaving(w)
  <2> DEFINE q == EndRun(queue[w])
  <2>1. queue' = [queue EXCEPT ![w] = q] /\ UNCHANGED <<vault, doc, hydrated, requests, load>>
        /\ queue[w].run = "ended"
    BY <1>3 DEF EndSaving, docVars
  <2>2. q.pending = queue[w].pending /\ q.inFlight = queue[w].inFlight
    BY <1>0, <2>1, EndRunOK
  <2>3. HasWork(queue[w])
    BY <2>1 DEF HasWork
  <2> HIDE DEF q
  <2> QED BY <1>0, <2>1, <2>2, <2>3, SecretsQueued
<1>4. CASE HandleSaved(w)
  <2> DEFINE result == IF Head(inbox[w]) = "saved" THEN "succeeded" ELSE "failed"
             q == Finish(queue[w], result)
  <2>1. queue' = [queue EXCEPT ![w] = q] /\ UNCHANGED <<vault, doc, hydrated, requests, load>>
        /\ inbox[w] # <<>> /\ Head(inbox[w]) \in Reply
    BY <1>4 DEF HandleSaved, Reply
  <2>2. inbox[w] \in Seq(Message)
    BY DEF BaseInv, TypeInv
  <2>3. queue[w].run = "saving"
    BY <2>1, <2>2, TailMessages DEF BaseInv, RepliesInv
  <2>4. q.pending = None /\ q.inFlight = queue[w].pending
    BY <1>0, <2>3, FinishOK
  <2>5. HasWork(queue[w])
    BY <2>3 DEF HasWork
  <2> HIDE DEF q
  <2> QED BY <1>0, <2>1, <2>4, <2>5, SecretsQueued
<1> QED BY <1>1, <1>2, <1>3, <1>4

\* A step that changes what one window has asked for, and whether it has begun to load.
LEMMA SecretsRequests ==
  ASSUME SecretsInv, NEW w \in Window,
         UNCHANGED <<vault, doc, hydrated, queue>>,
         \A x \in Window \ {w} : requests'[x] = requests[x] /\ load'[x] = load[x],
         load'[w] # "start",
         \A r \in requests'[w] : r.snap # None /\ r.kind # "public" => IsFull(r.snap),
         ~hydrated[w] => \A r \in requests'[w] : r.fresh,
         hydrated[w] => \A r \in requests'[w] : r.kind = "public" => ~r.latest,
         \A r, s \in requests'[w] : r.latest /\ s.latest => r = s
  PROVE  SecretsInv'
<1>1. CopiesAreFull'
  BY DEF SecretsInv, CopiesAreFull
<1>2. LoadingInv'
  BY DEF SecretsInv, LoadingInv
<1> QED BY <1>1, <1>2 DEF SecretsInv

LEMMA SecretsChanged ==
  ASSUME LoadsUndisturbed, BaseInv, SecretsInv, NEW w \in Window, HandleChanged(w)
  PROVE  SecretsInv'
<1>1. /\ load[w] # "start" /\ UNCHANGED <<vault, doc, hydrated, queue, load>>
      /\ Head(inbox[w]) \in {"vault", "sync", "trust"}
      /\ \/ requests' = requests
         \/ requests' = [requests EXCEPT ![w] = Begin(w, Head(inbox[w]))]
  BY DEF HandleChanged, LoadsUndisturbed, docVars, BaseInv, TypeInv
<1>2. CASE requests' = requests
  BY <1>1, <1>2, SecretsRequests DEF SecretsInv, CopiesAreFull, LoadingInv
<1>3. CASE requests' = [requests EXCEPT ![w] = Begin(w, Head(inbox[w]))]
  <2> DEFINE new == [kind |-> Head(inbox[w]), latest |-> TRUE, fresh |-> TRUE, snap |-> None]
  <2>1. requests \in [Window -> SUBSET Request]
    BY DEF BaseInv, TypeInv
  <2>2. requests'[w] = {[r EXCEPT !.latest = FALSE] : r \in requests[w]} \cup {new}
    BY <1>3, <2>1 DEF Begin
  <2>3. new.kind # "public" /\ new.fresh /\ new.snap = None
    BY <1>1
  <2> HIDE DEF new
  <2>4. ASSUME NEW r \in requests[w]
        PROVE  /\ ~[r EXCEPT !.latest = FALSE].latest
               /\ [r EXCEPT !.latest = FALSE].kind = r.kind
               /\ [r EXCEPT !.latest = FALSE].fresh = r.fresh
               /\ [r EXCEPT !.latest = FALSE].snap = r.snap
    <3>1. r \in Request
      BY <2>1, <2>4
    <3> QED BY <3>1 DEF Request
  <2>5. \A r \in requests'[w] : r.latest => r = new
    BY <2>2, <2>4
  <2>6. \A r \in requests'[w] : r.snap # None /\ r.kind # "public" => IsFull(r.snap)
    <3>1. \A r \in requests[w] : r.snap # None /\ r.kind # "public" => IsFull(r.snap)
      BY DEF SecretsInv, CopiesAreFull
    <3> QED BY ZenonT(40), <2>2, <2>3, <2>4, <3>1
  <2>7. ~hydrated[w] => \A r \in requests'[w] : r.fresh
    <3>1. ~hydrated[w] => \A r \in requests[w] : r.fresh
      BY DEF SecretsInv, LoadingInv
    <3> QED BY <2>2, <2>3, <2>4, <3>1
  <2>8. /\ \A x \in Window \ {w} : requests'[x] = requests[x] /\ load'[x] = load[x]
        /\ load'[w] # "start"
    BY <1>1, <1>3
  <2>9. /\ \A r \in requests'[w] : r.kind = "public" => ~r.latest
        /\ \A r, s \in requests'[w] : r.latest /\ s.latest => r = s
    BY <2>3, <2>5
  <2> QED BY <1>1, <2>6, <2>7, <2>8, <2>9, SecretsRequests
<1> QED BY <1>1, <1>2, <1>3

LEMMA SecretsSnapshot ==
  ASSUME BaseInv, SecretsInv, NEW w \in Window, HandleSnapshot(w)
  PROVE  SecretsInv'
<1>1. PICK r \in requests[w] :
        /\ r.snap # None /\ r.kind \in {"vault", "sync", "trust"}
        /\ requests' = [requests EXCEPT ![w] = @ \ {r}]
        /\ \/ r.latest /\ Apply(w, r.snap, TRUE)
           \/ UNCHANGED docVars
        /\ UNCHANGED <<vault, queue, load>>
  BY DEF HandleSnapshot, IsCurrent
<1>2. /\ requests'[w] = requests[w] \ {r}
      /\ \A x \in Window \ {w} : requests'[x] = requests[x]
  BY <1>1 DEF BaseInv, TypeInv
<1>3. /\ \A s \in requests[w] : s.snap # None /\ s.kind # "public" => IsFull(s.snap)
      /\ queue[w].pending # None => IsFull(queue[w].pending)
      /\ queue[w].inFlight # None => IsFull(queue[w].inFlight)
      /\ IsFull(vault)
  BY DEF SecretsInv, CopiesAreFull
<1>4. /\ \A s, t \in requests[w] : s.latest /\ t.latest => s = t
      /\ load[w] # "start"
      /\ ~hydrated[w] => \A s \in requests[w] : s.fresh
      /\ hydrated[w] => \A s \in requests[w] : s.kind = "public" => ~s.latest
  BY <1>1 DEF SecretsInv, LoadingInv
<1>5. CASE r.latest /\ Apply(w, r.snap, TRUE)
  <2>1. /\ doc'[w] = r.snap /\ hydrated'[w]
        /\ \A x \in Window \ {w} : doc'[x] = doc[x] /\ hydrated'[x] = hydrated[x]
    BY <1>5 DEF Apply, BaseInv, TypeInv, VaultTypeOK
  <2>2. IsFull(doc'[w])
    BY <1>1, <1>3, <2>1
  <2>3. \A s \in requests'[w] : ~s.latest
    BY <1>2, <1>4, <1>5
  <2>4. \A s \in requests'[w] : s.snap # None /\ s.kind # "public" => IsFull(s.snap)
    BY <1>2, <1>3
  <2> QED BY <1>1, <1>2, <1>3, <1>4, <2>1, <2>2, <2>3, <2>4, SecretsOfOne
<1>6. CASE UNCHANGED docVars
  <2>1. UNCHANGED <<vault, doc, hydrated, queue, load>>
    BY <1>1, <1>6 DEF docVars
  <2>2. /\ \A s \in requests'[w] : s.snap # None /\ s.kind # "public" => IsFull(s.snap)
        /\ ~hydrated[w] => \A s \in requests'[w] : s.fresh
        /\ hydrated[w] => \A s \in requests'[w] : s.kind = "public" => ~s.latest
        /\ \A s, t \in requests'[w] : s.latest /\ t.latest => s = t
    BY <1>2, <1>3, <1>4
  <2> QED BY <1>2, <1>4, <2>1, <2>2, SecretsRequests
<1> QED BY <1>1, <1>5, <1>6

LEMMA SecretsLoadPublic ==
  ASSUME BaseInv, SecretsInv, NEW w \in Window, LoadPublic(w)
  PROVE  SecretsInv'
<1>1. /\ load[w] = "start" /\ load' = [load EXCEPT ![w] = "public"]
      /\ requests' = [requests EXCEPT ![w] = {[r EXCEPT !.latest = r.kind = "public"] : r \in @}]
      /\ UNCHANGED <<vault, doc, hydrated, queue>>
  BY DEF LoadPublic, docVars
<1>2. /\ ~hydrated[w] /\ \A r, s \in requests[w] : r = s
      /\ \A r \in requests[w] : r.kind = "public" /\ r.fresh
  BY <1>1 DEF SecretsInv, LoadingInv
<1>3. /\ requests'[w] = {[r EXCEPT !.latest = r.kind = "public"] : r \in requests[w]}
      /\ requests[w] \subseteq Request
      /\ load'[w] # "start"
      /\ \A x \in Window \ {w} : requests'[x] = requests[x] /\ load'[x] = load[x]
  BY <1>1 DEF BaseInv, TypeInv, VaultTypeOK
<1>4. ASSUME NEW r \in Request
      PROVE  /\ [r EXCEPT !.latest = r.kind = "public"].kind = r.kind
             /\ [r EXCEPT !.latest = r.kind = "public"].fresh = r.fresh
  BY <1>4 DEF Request
<1>5. \A r \in requests'[w] : r.kind = "public" /\ r.fresh
  BY ZenonT(40), <1>2, <1>3, <1>4
<1>6. \A r, s \in requests'[w] : r = s
  BY <1>2, <1>3
<1> QED BY <1>1, <1>2, <1>3, <1>5, <1>6, SecretsRequests

\* The public snapshot is applied only while its request is the latest, and then the
\* window is not hydrated: the secrets are not taken from a window that has them.
LEMMA SecretsLoadFull ==
  ASSUME BaseInv, SecretsInv, NEW w \in Window, LoadFull(w)
  PROVE  SecretsInv'
<1>1. PICK r \in requests[w] :
        /\ r.kind = "public" /\ r.snap # None
        /\ load' = [load EXCEPT ![w] = "full"]
        /\ requests' = [requests EXCEPT ![w] =
             {[s EXCEPT !.latest = FALSE] : s \in @ \ {r}}
               \cup {[kind |-> "full", latest |-> TRUE, fresh |-> r.fresh, snap |-> None]}]
        /\ \/ r.latest /\ Apply(w, r.snap, FALSE)
           \/ UNCHANGED docVars
        /\ UNCHANGED <<vault, queue>>
  BY DEF LoadFull, IsCurrent
<1> DEFINE new == [kind |-> "full", latest |-> TRUE, fresh |-> r.fresh, snap |-> None]
<1>2. /\ requests'[w] = {[s EXCEPT !.latest = FALSE] : s \in requests[w] \ {r}} \cup {new}
      /\ requests[w] \subseteq Request
      /\ load'[w] # "start"
      /\ \A x \in Window \ {w} : requests'[x] = requests[x] /\ load'[x] = load[x]
  BY <1>1 DEF BaseInv, TypeInv, VaultTypeOK
<1>3. new.kind # "public" /\ new.fresh = r.fresh /\ new.snap = None
  OBVIOUS
<1> HIDE DEF new
<1>4. ASSUME NEW s \in requests[w]
      PROVE  /\ ~[s EXCEPT !.latest = FALSE].latest
             /\ [s EXCEPT !.latest = FALSE].kind = s.kind
             /\ [s EXCEPT !.latest = FALSE].fresh = s.fresh
             /\ [s EXCEPT !.latest = FALSE].snap = s.snap
  <2>1. s \in Request
    BY <1>2, <1>4
  <2> QED BY <2>1 DEF Request
<1>5. \A s \in requests'[w] :
        \/ s = new
        \/ /\ ~s.latest
           /\ \E t \in requests[w] : s.kind = t.kind /\ s.fresh = t.fresh /\ s.snap = t.snap
  BY ZenonT(40), <1>2, <1>4
<1>6. \A s \in requests'[w] : s.snap # None /\ s.kind # "public" => IsFull(s.snap)
  <2>1. \A s \in requests[w] : s.snap # None /\ s.kind # "public" => IsFull(s.snap)
    BY DEF SecretsInv, CopiesAreFull
  <2> QED BY <1>3, <1>5, <2>1
<1>7. ~hydrated[w] => \A s \in requests'[w] : s.fresh
  <2>1. ~hydrated[w] => \A s \in requests[w] : s.fresh
    BY DEF SecretsInv, LoadingInv
  <2> QED BY <1>3, <1>5, <2>1
<1>8. /\ \A s \in requests'[w] : s.kind = "public" => ~s.latest
      /\ \A s, t \in requests'[w] : s.latest /\ t.latest => s = t
  BY <1>3, <1>5
<1>9. CASE r.latest /\ Apply(w, r.snap, FALSE)
  <2>1. ~hydrated[w] /\ ~HasWork(queue[w])
    BY <1>1, <1>9 DEF SecretsInv, LoadingInv
  <2>2. hydrated' = [hydrated EXCEPT ![w] = @ \/ FALSE] /\ doc' = [doc EXCEPT ![w] = r.snap]
    BY <1>9 DEF Apply
  <2>3. hydrated \in [Window -> BOOLEAN] /\ doc \in [Window -> SUBSET Item]
    BY DEF BaseInv, TypeInv, VaultTypeOK
  <2>4. /\ ~hydrated'[w]
        /\ \A x \in Window \ {w} : doc'[x] = doc[x] /\ hydrated'[x] = hydrated[x]
    BY <2>1, <2>2, <2>3
  <2>5. /\ queue[w].pending # None => IsFull(queue[w].pending)
        /\ queue[w].inFlight # None => IsFull(queue[w].inFlight)
        /\ IsFull(vault)
    BY DEF SecretsInv, CopiesAreFull
  <2> QED BY ZenonT(40), <1>1, <1>2, <1>6, <1>7, <1>8, <2>1, <2>4, <2>5, SecretsOfOne
<1>10. CASE UNCHANGED docVars
  <2>1. UNCHANGED <<vault, doc, hydrated, queue>>
    BY <1>1, <1>10 DEF docVars
  <2> QED BY <1>2, <1>6, <1>7, <1>8, <2>1, SecretsRequests
<1> QED BY <1>1, <1>9, <1>10

\* Only a hydrated window is edited or has work, so a full snapshot that is not current
\* though it is the latest finds the window with a full copy.
LEMMA SecretsLoadDone ==
  ASSUME BaseInv, SecretsInv, NEW w \in Window, LoadDone(w)
  PROVE  SecretsInv'
<1>1. PICK r \in requests[w] :
        /\ r.kind = "full" /\ r.snap # None
        /\ load' = [load EXCEPT ![w] = "done"]
        /\ requests' = [requests EXCEPT ![w] = @ \ {r}]
        /\ \/ r.latest /\ Apply(w, r.snap, TRUE) /\ UNCHANGED queue
           \/ /\ r.latest /\ ~IsCurrent(w, r)
              /\ hydrated' = [hydrated EXCEPT ![w] = TRUE]
              /\ queue' = [queue EXCEPT ![w] = Enqueue(@, doc[w])]
              /\ UNCHANGED doc
           \/ UNCHANGED <<docVars, queue>>
        /\ UNCHANGED vault
  BY DEF LoadDone, IsCurrent
<1>2. /\ requests'[w] = requests[w] \ {r} /\ load'[w] # "start"
      /\ \A x \in Window \ {w} : requests'[x] = requests[x] /\ load'[x] = load[x]
  BY <1>1 DEF BaseInv, TypeInv, VaultTypeOK
<1>3. /\ \A s \in requests[w] : s.snap # None /\ s.kind # "public" => IsFull(s.snap)
      /\ queue[w].pending # None => IsFull(queue[w].pending)
      /\ queue[w].inFlight # None => IsFull(queue[w].inFlight)
      /\ hydrated[w] => IsFull(doc[w])
      /\ IsFull(vault)
  BY DEF SecretsInv, CopiesAreFull
<1>4. /\ \A s, t \in requests[w] : s.latest /\ t.latest => s = t
      /\ ~hydrated[w] => ~HasWork(queue[w]) /\ \A s \in requests[w] : s.fresh
      /\ hydrated[w] => \A s \in requests[w] : s.kind = "public" => ~s.latest
  BY DEF SecretsInv, LoadingInv
<1>5. /\ \A s \in requests'[w] : s.snap # None /\ s.kind # "public" => IsFull(s.snap)
      /\ \A s, t \in requests'[w] : s.latest /\ t.latest => s = t
      /\ ~hydrated[w] => \A s \in requests'[w] : s.fresh
      /\ r.latest => \A s \in requests'[w] : ~s.latest
  BY <1>2, <1>3, <1>4
<1>6. CASE r.latest /\ Apply(w, r.snap, TRUE) /\ UNCHANGED queue
  <2>1. /\ doc'[w] = r.snap /\ hydrated'[w]
        /\ \A x \in Window \ {w} : doc'[x] = doc[x] /\ hydrated'[x] = hydrated[x]
    BY <1>6 DEF Apply, BaseInv, TypeInv, VaultTypeOK
  <2>2. IsFull(doc'[w])
    BY <1>1, <1>3, <2>1
  <2> QED BY <1>1, <1>2, <1>3, <1>5, <1>6, <2>1, <2>2, SecretsOfOne
<1>7. CASE /\ r.latest /\ ~IsCurrent(w, r)
           /\ hydrated' = [hydrated EXCEPT ![w] = TRUE]
           /\ queue' = [queue EXCEPT ![w] = Enqueue(@, doc[w])]
           /\ UNCHANGED doc
  <2>1. hydrated[w] /\ IsFull(doc[w])
    BY <1>3, <1>4, <1>7 DEF IsCurrent
  <2> DEFINE q == Enqueue(queue[w], doc[w])
  <2>2. q.pending \in {doc[w], None} /\ q.inFlight = queue[w].inFlight
    <3>1. QueueOK(queue[w]) /\ doc[w] \in Document
      BY DEF BaseInv, TypeInv, VaultTypeOK, Document
    <3> QED BY <3>1, EnqueueOK
  <2>3. /\ queue'[w] = q /\ hydrated'[w] /\ doc'[w] = doc[w]
        /\ \A x \in Window \ {w} : /\ doc'[x] = doc[x] /\ hydrated'[x] = hydrated[x]
                                   /\ queue'[x] = queue[x]
    BY <1>7 DEF BaseInv, TypeInv, VaultTypeOK
  <2> HIDE DEF q
  <2>4. /\ queue'[w].pending # None => IsFull(queue'[w].pending)
        /\ queue'[w].inFlight # None => IsFull(queue'[w].inFlight)
    BY <1>3, <2>1, <2>2, <2>3
  <2>5. IsFull(vault') /\ IsFull(doc'[w])
    BY <1>1, <1>3, <2>1, <2>3
  <2>6. \A s \in requests'[w] : ~s.latest
    BY <1>5, <1>7
  <2> QED BY <1>2, <1>5, <2>3, <2>4, <2>5, <2>6, SecretsOfOne
<1>8. CASE UNCHANGED <<docVars, queue>>
  <2>1. UNCHANGED <<vault, doc, hydrated, queue>>
    BY <1>1, <1>8 DEF docVars
  <2>2. hydrated[w] => \A s \in requests'[w] : s.kind = "public" => ~s.latest
    BY <1>2, <1>4
  <2> QED BY <1>2, <1>5, <2>1, <2>2, SecretsRequests
<1> QED BY <1>1, <1>6, <1>7, <1>8

\* The store takes what a queue has in flight, and is read as it is.
LEMMA SecretsBackend ==
  ASSUME BaseInv, SecretsInv, NEW w \in Window, BackendStep(w)
  PROVE  SecretsInv'
<1>1. CASE ServeSave(w)
  <2>1. /\ sent[w] /\ vault' = queue[w].inFlight
        /\ UNCHANGED <<doc, hydrated, queue, requests, load>>
    BY <1>1 DEF ServeSave, docVars
  <2>2. queue[w].inFlight # None
    BY <2>1 DEF BaseInv, TypeInv, VaultTypeOK, QueueOK
  <2>3. IsFull(vault')
    BY <2>1, <2>2 DEF SecretsInv, CopiesAreFull
  <2> QED BY <2>1, <2>3 DEF SecretsInv, CopiesAreFull, LoadingInv
<1>2. CASE FailSave(w)
  <2>1. UNCHANGED <<vault, doc, hydrated, queue, requests, load>>
    BY <1>2 DEF FailSave, docVars
  <2> QED BY <2>1 DEF SecretsInv, CopiesAreFull, LoadingInv
<1>3. CASE ServeSnapshot(w)
  <2>1. PICK r \in requests[w] :
          /\ requests' = [requests EXCEPT ![w] = (@ \ {r}) \cup
               {[r EXCEPT !.snap = IF r.kind = "public" THEN Public(vault) ELSE vault]}]
          /\ UNCHANGED <<vault, doc, hydrated, queue, load>>
    BY <1>3 DEF ServeSnapshot, docVars
  <2> DEFINE snap == IF r.kind = "public" THEN Public(vault) ELSE vault
             new == [r EXCEPT !.snap = snap]
  <2>2. r.kind # "public" => snap = vault
    OBVIOUS
  <2>3. /\ new.kind = r.kind /\ new.latest = r.latest /\ new.fresh = r.fresh /\ new.snap = snap
    <3> HIDE DEF snap
    <3>1. r \in Request
      BY DEF BaseInv, TypeInv
    <3> QED BY <3>1 DEF Request
  <2>4. /\ requests'[w] = (requests[w] \ {r}) \cup {new}
        /\ \A x \in Window \ {w} : requests'[x] = requests[x]
    BY <2>1 DEF BaseInv, TypeInv
  <2> HIDE DEF new, snap
  <2>5. /\ \A s \in requests[w] : s.snap # None /\ s.kind # "public" => IsFull(s.snap)
        /\ queue[w].pending # None => IsFull(queue[w].pending)
        /\ queue[w].inFlight # None => IsFull(queue[w].inFlight)
        /\ hydrated[w] => IsFull(doc[w])
        /\ IsFull(vault)
    BY DEF SecretsInv, CopiesAreFull
  <2>6. /\ \A s, t \in requests[w] : s.latest /\ t.latest => s = t
        /\ ~hydrated[w] => ~HasWork(queue[w]) /\ \A s \in requests[w] : s.fresh
        /\ hydrated[w] => \A s \in requests[w] : s.kind = "public" => ~s.latest
        /\ load[w] = "start" => /\ ~hydrated[w]
                                /\ \A s \in requests[w] : s.kind = "public"
                                /\ \A s, t \in requests[w] : s = t
    BY DEF SecretsInv, LoadingInv
  <2>7. \A s \in requests'[w] : s.snap # None /\ s.kind # "public" => IsFull(s.snap)
    BY <2>2, <2>3, <2>4, <2>5
  <2>8. /\ \A s, t \in requests'[w] : s.latest /\ t.latest => s = t
        /\ ~hydrated[w] => \A s \in requests'[w] : s.fresh
        /\ hydrated[w] => \A s \in requests'[w] : s.kind = "public" => ~s.latest
    BY <2>3, <2>4, <2>6
  <2>9. load[w] = "start" => /\ ~hydrated[w]
                             /\ \A s \in requests'[w] : s.kind = "public"
                             /\ \A s, t \in requests'[w] : s = t
    BY <2>3, <2>4, <2>6
  <2> QED BY <2>1, <2>4, <2>5, <2>6, <2>7, <2>8, <2>9, SecretsOfOne
<1> QED BY <1>1, <1>2, <1>3 DEF BackendStep

LEMMA SecretsNext ==
  LoadsUndisturbed /\ BaseInv /\ SecretsInv /\ [VaultNext]_vaultVars => SecretsInv'
<1> SUFFICES ASSUME LoadsUndisturbed, BaseInv, SecretsInv, [VaultNext]_vaultVars
             PROVE  SecretsInv'
  OBVIOUS
<1>1. CASE \E w \in Window : WindowStep(w)
  BY <1>1, SecretsQueue, SecretsChanged, SecretsSnapshot, SecretsLoadPublic, SecretsLoadFull,
     SecretsLoadDone DEF WindowStep
<1>2. CASE TrustHostKey \/ \E s \in Sync : SyncVault(s)
  <2>1. /\ vault \subseteq vault'
        /\ UNCHANGED <<doc, hydrated, queue, requests, load>>
    BY <1>2 DEF TrustHostKey, SyncVault, docVars
  <2> QED BY <2>1 DEF SecretsInv, CopiesAreFull, LoadingInv, IsFull
<1>3. CASE UNCHANGED vaultVars
  BY <1>3 DEF vaultVars, SecretsInv, CopiesAreFull, LoadingInv
<1> QED BY <1>1, <1>2, <1>3, SecretsEdit, SecretsBackend DEF VaultNext

\* While no window is edited before it is loaded, and none is told of a change before it
\* asks for its first snapshot, no save takes the saved passwords and keys from the store,
\* whichever windows, edits, syncs, trusted keys and failures there are.
THEOREM SecretsAreKept == LoadsUndisturbed => (VaultSpec => []VaultKeepsSecrets)
<1> SUFFICES ASSUME LoadsUndisturbed PROVE VaultSpec => []VaultKeepsSecrets
  OBVIOUS
<1>1. BaseInv /\ SecretsInv /\ [VaultNext]_vaultVars => (BaseInv /\ SecretsInv)'
  BY BaseNext, SecretsNext
<1>2. VaultInit => BaseInv /\ SecretsInv
  BY BaseInit, SecretsInit
<1>3. SecretsInv => VaultKeepsSecrets
  BY DEF SecretsInv, CopiesAreFull, IsFull, VaultKeepsSecrets
<1> QED BY <1>1, <1>2, <1>3, PTL DEF VaultSpec

=============================================================================
