---------------------------- MODULE OutboxProofs ----------------------------
(***************************************************************************)
(* The outbox loses nothing and duplicates only on faults, for any number  *)
(* of events and dispatchers, any batch size and any number of attempts.   *)
(* The argument: a row is in one batch at most (BatchesOK), so the copies  *)
(* that no fault accounts for are the one the row or the batch records     *)
(* (CopiesOK).                                                             *)
(***************************************************************************)
EXTENDS Outbox, TLAPS

\* Initially no batch holds a row and the topic is empty.
LEMMA InitOutbox == Init => OutboxInv
<1> SUFFICES ASSUME Init PROVE OutboxInv
  OBVIOUS
<1>1. TypeOK
  BY OutboxConstants DEF Init, TypeOK, RowState
<1>2. BatchesOK
  BY DEF Init, BatchesOK, Held
<1>3. CopiesOK
  BY DEF Init, CopiesOK, Accounted
<1> QED BY <1>1, <1>2, <1>3 DEF OutboxInv

\* A step that only moves a row that no transaction holds between "NONE" or
\* "WAITING" and "DUE" preserves the invariant: InsertDomainEvent, RetryDue.
LEMMA RowBecomesDue ==
  ASSUME OutboxInv, NEW e \in Event, row[e] \in {"NONE", "WAITING"},
         row' = [row EXCEPT ![e] = "DUE"], UNCHANGED <<sent, pc, batches, try, faults>>
  PROVE  OutboxInv'
<1> USE DEF OutboxInv
<1>1. TypeOK'
  BY DEF TypeOK, RowState, batches
<1>2. BatchesOK'
  BY DEF TypeOK, BatchesOK, Held, batches
<1>3. CopiesOK'
  BY DEF TypeOK, CopiesOK, Accounted, batches
<1> QED BY <1>1, <1>2, <1>3

\* LockPendingOutboxEvents takes rows no other dispatcher holds.
LEMMA LockStep ==
  ASSUME OutboxInv, NEW d \in Dispatcher, LockPendingOutboxEvents(d)
  PROVE  OutboxInv'
<1> USE DEF OutboxInv
<1>1. PICK B \in SUBSET Pending : todo' = [todo EXCEPT ![d] = B]
  BY DEF LockPendingOutboxEvents
<1>2. /\ UNCHANGED <<row, sent, published, retried, try, faults>>
      /\ pc' = [pc EXCEPT ![d] = "loop"] /\ pc[d] = "idle"
  BY DEF LockPendingOutboxEvents
<1>3. B \subseteq Event /\ Held(d) = {}
  BY <1>2 DEF Pending, BatchesOK
<1>4. TypeOK'
  BY <1>1, <1>2, <1>3 DEF TypeOK
<1>5. Held(d)' = B /\ \A c \in Dispatcher \ {d} : Held(c)' = Held(c)
  BY <1>1, <1>2, <1>3 DEF TypeOK, Held
<1>6. \A e \in B : row[e] = "DUE" /\ \A c \in Dispatcher : e \notin Held(c)
  BY DEF Pending
<1>7. BatchesOK'
  <2>1. ASSUME NEW c \in Dispatcher
        PROVE  /\ \A e \in Held(c)' : row'[e] = "DUE"
               /\ todo'[c] \cap published'[c] = {} /\ retried'[c] \cap published'[c] = {}
               /\ todo'[c] \cap retried'[c] = {}
               /\ pc'[c] = "idle" => Held(c)' = {}
    <3>1. CASE c = d
      BY <1>1, <1>2, <1>3, <1>5, <1>6, <3>1 DEF TypeOK, Held
    <3>2. CASE c # d
      BY <1>1, <1>2, <1>5, <3>2 DEF TypeOK, BatchesOK
    <3> QED BY <3>1, <3>2
  <2>2. ASSUME NEW b \in Dispatcher, NEW c \in Dispatcher, b # c
        PROVE  Held(b)' \cap Held(c)' = {}
    BY <1>5, <1>6, <2>2 DEF BatchesOK
  <2> QED BY <2>1, <2>2 DEF BatchesOK
<1>8. CopiesOK'
  BY <1>2 DEF CopiesOK, Accounted
<1> QED BY <1>4, <1>7, <1>8

\* Moving a row from the front of the batch to one of the two marks keeps
\* the batches disjoint.
LEMMA AdvanceBatches ==
  ASSUME OutboxInv, NEW d \in Dispatcher, NEW e \in todo[d], UNCHANGED row,
         pc[d] = "loop", UNCHANGED pc, Advance(d, e),
         \/ published' = [published EXCEPT ![d] = @ \cup {e}] /\ UNCHANGED retried
         \/ retried' = [retried EXCEPT ![d] = @ \cup {e}] /\ UNCHANGED published
  PROVE  /\ BatchesOK' /\ try' \in [Dispatcher -> 1..MaxTries]
         /\ todo' \in [Dispatcher -> SUBSET Event]
         /\ published' \in [Dispatcher -> SUBSET Event]
         /\ retried' \in [Dispatcher -> SUBSET Event]
<1> USE DEF OutboxInv
<1>1. /\ todo' = [todo EXCEPT ![d] = @ \ {e}]
      /\ try' = [try EXCEPT ![d] = 1]
  BY DEF Advance
<1>2. /\ try' \in [Dispatcher -> 1..MaxTries]
      /\ todo' \in [Dispatcher -> SUBSET Event]
      /\ published' \in [Dispatcher -> SUBSET Event]
      /\ retried' \in [Dispatcher -> SUBSET Event]
  BY <1>1, OutboxConstants DEF TypeOK
<1>3. \A c \in Dispatcher : Held(c)' = Held(c)
  BY <1>1 DEF TypeOK, Held
<1>4. ASSUME NEW c \in Dispatcher
      PROVE  /\ todo'[c] \cap published'[c] = {} /\ retried'[c] \cap published'[c] = {}
             /\ todo'[c] \cap retried'[c] = {}
  BY <1>1 DEF TypeOK, BatchesOK
<1>5. BatchesOK'
  BY <1>3, <1>4 DEF BatchesOK
<1> QED BY <1>2, <1>5

\* PublishAcked adds the one copy the batch then records.
LEMMA AckedStep ==
  ASSUME OutboxInv, NEW d \in Dispatcher, NEW e \in Event, PublishAcked(d, e)
  PROVE  OutboxInv'
<1> USE DEF OutboxInv
<1>1. /\ e \in todo[d] /\ pc[d] = "loop" /\ UNCHANGED <<row, pc, retried, faults>>
      /\ sent' = [sent EXCEPT ![e] = @ + 1]
      /\ published' = [published EXCEPT ![d] = @ \cup {e}] /\ Advance(d, e)
  BY DEF PublishAcked, IsNext
<1>2. BatchesOK' /\ TypeOK'
  <2>1. BatchesOK' /\ try' \in [Dispatcher -> 1..MaxTries]
        /\ todo' \in [Dispatcher -> SUBSET Event] /\ published' \in [Dispatcher -> SUBSET Event]
    BY <1>1, AdvanceBatches
  <2>2. sent' \in [Event -> Nat]
    BY <1>1 DEF TypeOK
  <2> QED BY <1>1, <2>1, <2>2 DEF TypeOK
<1>3. ~ Accounted(e)
  BY <1>1 DEF BatchesOK, Held, Accounted
<1>4. Accounted(e)' /\ \A f \in Event \ {e} : Accounted(f)' <=> Accounted(f)
  BY <1>1 DEF Accounted, TypeOK
<1>5. /\ sent'[e] = sent[e] + 1 /\ \A f \in Event \ {e} : sent'[f] = sent[f]
      /\ sent \in [Event -> Nat] /\ faults \in Nat /\ faults' = faults
  BY <1>1, OutboxConstants DEF TypeOK
<1>6. CopiesOK'
  <2>1. sent'[e] \in 1..(faults' + 1)
    BY <1>3, <1>5 DEF CopiesOK
  <2> QED BY <1>4, <1>5, <2>1 DEF CopiesOK
<1> QED BY <1>2, <1>6

\* PublishFails may add a copy, and a fault that accounts for it.
LEMMA FailsStep ==
  ASSUME OutboxInv, NEW d \in Dispatcher, NEW e \in Event, PublishFails(d, e)
  PROVE  OutboxInv'
<1> USE DEF OutboxInv
<1>1. /\ e \in todo[d] /\ pc[d] = "loop" /\ UNCHANGED <<row, pc>>
      /\ sent' \in {sent, [sent EXCEPT ![e] = @ + 1]}
      /\ faults < MaxFaults /\ faults' = faults + 1
  BY DEF PublishFails, IsNext
<1>2. sent' \in [Event -> Nat] /\ faults' \in 0..MaxFaults /\ faults \in Nat
  BY <1>1, OutboxConstants DEF TypeOK
<1>3. BatchesOK' /\ TypeOK' /\ UNCHANGED published
  <2>1. CASE Exhausted(d)
    <3>1. /\ retried' = [retried EXCEPT ![d] = @ \cup {e}] /\ UNCHANGED published
          /\ Advance(d, e)
      BY <2>1 DEF PublishFails, PublishGivesUp
    <3> QED BY <1>1, <1>2, <3>1, AdvanceBatches DEF TypeOK
  <2>2. CASE ~ Exhausted(d)
    <3>1. UNCHANGED batches /\ try' = [try EXCEPT ![d] = @ + 1]
      BY <2>2 DEF PublishFails
    <3>2. BatchesOK'
      BY <1>1, <3>1 DEF BatchesOK, Held, batches
    <3>3. try' \in [Dispatcher -> 1..MaxTries]
      BY <2>2, <3>1, OutboxConstants DEF TypeOK, Exhausted
    <3> QED BY <1>1, <1>2, <3>1, <3>2, <3>3 DEF TypeOK, batches
  <2> QED BY <2>1, <2>2
<1>4. \A f \in Event : Accounted(f)' <=> Accounted(f)
  BY <1>1, <1>3 DEF Accounted
<1>5. \A f \in Event : sent'[f] \in {sent[f], sent[f] + 1}
  BY <1>1 DEF TypeOK
<1>6. CopiesOK'
  <2>1. ~ Accounted(e)
    BY <1>1 DEF BatchesOK, Held, Accounted
  <2> QED BY <1>1, <1>2, <1>4, <1>5, <2>1 DEF CopiesOK, TypeOK
<1> QED BY <1>3, <1>6

\* When a transaction ends its batch is empty and the others are as before.
LEMMA FinishBatches ==
  ASSUME OutboxInv, NEW d \in Dispatcher, Finish(d),
         \A e \in Event : e \notin Held(d) => row'[e] = row[e]
  PROVE  /\ BatchesOK'
         /\ pc' \in [Dispatcher -> {"idle", "loop"}]
         /\ try' \in [Dispatcher -> 1..MaxTries]
         /\ todo' \in [Dispatcher -> SUBSET Event]
         /\ published' \in [Dispatcher -> SUBSET Event]
         /\ retried' \in [Dispatcher -> SUBSET Event]
         /\ published'[d] = {} /\ \A c \in Dispatcher \ {d} : published'[c] = published[c]
<1> USE DEF OutboxInv
<1>1. /\ pc' = [pc EXCEPT ![d] = "idle"] /\ todo' = [todo EXCEPT ![d] = {}]
      /\ published' = [published EXCEPT ![d] = {}] /\ retried' = [retried EXCEPT ![d] = {}]
      /\ try' = [try EXCEPT ![d] = 1]
  BY DEF Finish
<1>2. Held(d)' = {} /\ \A c \in Dispatcher \ {d} : Held(c)' = Held(c) /\ Held(c) \subseteq Event
  BY <1>1 DEF Held, TypeOK
<1>3. ASSUME NEW c \in Dispatcher
      PROVE  /\ \A e \in Held(c)' : row'[e] = "DUE"
             /\ todo'[c] \cap published'[c] = {} /\ retried'[c] \cap published'[c] = {}
             /\ todo'[c] \cap retried'[c] = {}
             /\ pc'[c] = "idle" => Held(c)' = {}
  <2>1. CASE c = d
    BY <1>1, <1>2, <2>1 DEF TypeOK
  <2>2. CASE c # d
    <3>1. \A e \in Held(c) : row'[e] = row[e]
      BY <1>2, <2>2 DEF BatchesOK
    <3> QED BY <1>1, <1>2, <2>2, <3>1 DEF TypeOK, BatchesOK
  <2> QED BY <2>1, <2>2
<1>4. \A b, c \in Dispatcher : b # c => Held(b)' \cap Held(c)' = {}
  BY <1>2 DEF BatchesOK
<1> QED BY <1>1, <1>3, <1>4, OutboxConstants DEF TypeOK, BatchesOK

\* The commit moves the record of the copy from the batch to the row.
LEMMA CommitStep ==
  ASSUME OutboxInv, NEW d \in Dispatcher, Commit(d)
  PROVE  OutboxInv'
<1> USE DEF OutboxInv
<1>1. /\ row' = RowsAfter(d) /\ Finish(d) /\ UNCHANGED <<sent, faults>>
  BY DEF Commit
<1>2. row' \in [Event -> RowState] /\ \A e \in Event : e \notin Held(d) => row'[e] = row[e]
  BY <1>1 DEF RowsAfter, RowState, Held, TypeOK
<1>3. BatchesOK' /\ TypeOK'
  BY <1>1, <1>2, FinishBatches DEF TypeOK
<1>4. ASSUME NEW e \in Event PROVE Accounted(e)' <=> Accounted(e)
  <2>1. CASE e \in published[d]
    BY <1>1, <2>1 DEF Accounted, RowsAfter
  <2>2. CASE e \notin published[d]
    <3>1. row'[e] = "PUBLISHED" <=> row[e] = "PUBLISHED"
      BY <1>1, <2>2 DEF RowsAfter, BatchesOK, Held
    <3> QED BY <1>1, <1>2, <2>2, <3>1, FinishBatches DEF Accounted
  <2> QED BY <2>1, <2>2
<1>5. CopiesOK'
  BY <1>1, <1>4 DEF CopiesOK
<1> QED BY <1>3, <1>5

\* The rollback forgets copies that were made; the fault accounts for them.
LEMMA RollbackStep ==
  ASSUME OutboxInv, NEW d \in Dispatcher, Rollback(d)
  PROVE  OutboxInv'
<1> USE DEF OutboxInv
<1>1. /\ Finish(d) /\ UNCHANGED <<row, sent>> /\ faults < MaxFaults /\ faults' = faults + 1
  BY DEF Rollback
<1>2. BatchesOK' /\ TypeOK'
  BY <1>1, FinishBatches, OutboxConstants DEF TypeOK
<1>3. \A e \in Event : Accounted(e)' => Accounted(e)
  BY <1>1, FinishBatches DEF Accounted
<1>4. CopiesOK'
  BY <1>1, <1>2, <1>3 DEF CopiesOK, TypeOK
<1> QED BY <1>2, <1>4

\* OutboxInv is inductive.
LEMMA NextOutbox == OutboxInv /\ [Next]_vars => OutboxInv'
<1> SUFFICES ASSUME OutboxInv, [Next]_vars PROVE OutboxInv'
  OBVIOUS
<1>1. ASSUME NEW e \in Event, InsertDomainEvent(e) \/ RetryDue(e) PROVE OutboxInv'
  BY <1>1, RowBecomesDue DEF InsertDomainEvent, RetryDue
<1>2. ASSUME NEW d \in Dispatcher, Dispatch(d) PROVE OutboxInv'
  BY <1>2, LockStep, AckedStep, CommitStep DEF Dispatch
<1>3. ASSUME NEW d \in Dispatcher, Rollback(d) PROVE OutboxInv'
  BY <1>3, RollbackStep
<1>4. ASSUME NEW d \in Dispatcher, NEW e \in Event, PublishFails(d, e) PROVE OutboxInv'
  BY <1>4, FailsStep
<1>5. CASE UNCHANGED vars
  BY <1>5 DEF vars, batches, OutboxInv, TypeOK, BatchesOK, Held, CopiesOK, Accounted
<1> QED BY <1>1, <1>2, <1>3, <1>4, <1>5 DEF Next

\* The inductive invariant holds in every state of the outbox.
THEOREM OutboxInvariance == Spec => []OutboxInv
BY InitOutbox, NextOutbox, PTL DEF Spec

\* Nothing is lost: a row marked published has reached the topic.
THEOREM NothingLost == Spec => []PublishedWasSent
<1>1. OutboxInv => PublishedWasSent
  BY DEF OutboxInv, TypeOK, CopiesOK, Accounted, PublishedWasSent
<1> QED BY <1>1, OutboxInvariance, PTL

\* An event has at most one copy more in the topic than there were faults.
THEOREM DuplicatesBounded == Spec => []DuplicatesNeedFaults
<1>1. OutboxInv => DuplicatesNeedFaults
  BY DEF OutboxInv, TypeOK, CopiesOK, DuplicatesNeedFaults
<1> QED BY <1>1, OutboxInvariance, PTL

\* No dispatcher takes back the published mark of another.
THEOREM PublishedStays == Spec => PublishedIsFinal
<1>1. OutboxInv /\ [Next]_vars
         => [\A e \in Event : row[e] = "PUBLISHED" => row'[e] = "PUBLISHED"]_vars
  <2> SUFFICES ASSUME OutboxInv, Next, NEW e \in Event, row[e] = "PUBLISHED"
               PROVE  row'[e] = "PUBLISHED"
    OBVIOUS
  <2>1. ASSUME NEW f \in Event, InsertDomainEvent(f) \/ RetryDue(f)
        PROVE  row'[e] = "PUBLISHED"
    BY <2>1 DEF InsertDomainEvent, RetryDue, OutboxInv, TypeOK
  <2>2. ASSUME NEW d \in Dispatcher, Commit(d) PROVE row'[e] = "PUBLISHED"
    BY <2>2 DEF Commit, RowsAfter, OutboxInv, BatchesOK, Held
  <2> QED
    BY <2>1, <2>2 DEF Next, Dispatch, LockPendingOutboxEvents, PublishAcked, PublishFails,
       Rollback
<1> QED BY <1>1, OutboxInvariance, PTL DEF Spec, PublishedIsFinal
\* TypeOK for any number of events and dispatchers: the attempts of Publish
\* stay within the maximum, and marks are made for rows of the table only.
THEOREM OutboxTypeCorrect == Spec => []TypeOK
<1>1. OutboxInv => TypeOK
  BY DEF OutboxInv
<1> QED BY <1>1, OutboxInvariance, PTL

-----------------------------------------------------------------------------
\* A step of the outbox accepts one event, delivers one event that has been
\* accepted, or is invisible to the channel.
LEMMA ChannelSteps ==
  ASSUME OutboxInv, [Next]_vars
  PROVE  [Leg!Next]_Leg!vars
<1> DEFINE In == {e \in Event : row[e] # "NONE"}
           Out == {e \in Event : sent[e] > 0}
<1> USE DEF OutboxInv
<1>1. SUFFICES \/ In' = In /\ Out' = Out
               \/ \E e \in Event \ In : In' = In \cup {e} /\ Out' = Out
               \/ \E e \in In \ Out : Out' = Out \cup {e} /\ In' = In
  BY DEF Leg!Next, Leg!vars, Leg!Accept, Leg!Deliver
<1>2. ASSUME NEW e \in Event, InsertDomainEvent(e)
      PROVE  e \notin In /\ In' = In \cup {e} /\ Out' = Out
  BY <1>2 DEF InsertDomainEvent, TypeOK
<1>3. ASSUME NEW e \in Event, RetryDue(e) PROVE In' = In /\ Out' = Out
  BY <1>3 DEF RetryDue, TypeOK
<1>4. ASSUME NEW d \in Dispatcher, LockPendingOutboxEvents(d) \/ Rollback(d)
      PROVE  In' = In /\ Out' = Out
  BY <1>4 DEF LockPendingOutboxEvents, Rollback
<1>5. ASSUME NEW d \in Dispatcher, NEW e \in todo[d], e \in Event, UNCHANGED row,
             sent' \in {sent, [sent EXCEPT ![e] = @ + 1]}
      PROVE  \/ In' = In /\ Out' = Out
             \/ e \in In \ Out /\ Out' = Out \cup {e} /\ In' = In
  <2>1. e \in In
    BY <1>5 DEF BatchesOK, Held
  <2>2. \A f \in Event : sent[f] \in Nat
    BY DEF TypeOK
  <2>3. CASE sent' = sent
    BY <1>5, <2>3
  <2>4. CASE sent' = [sent EXCEPT ![e] = @ + 1]
    <3>1. sent'[e] = sent[e] + 1 /\ \A f \in Event \ {e} : sent'[f] = sent[f]
      BY <1>5, <2>4 DEF TypeOK
    <3>2. Out' = Out \cup {e}
      BY <1>5, <2>2, <3>1
    <3>3. e \in Out => Out' = Out
      BY <3>2
    <3> QED BY <1>5, <2>1, <3>2, <3>3
  <2> QED BY <1>5, <2>3, <2>4
<1>6. ASSUME NEW d \in Dispatcher, NEW e \in Event, PublishAcked(d, e) \/ PublishFails(d, e)
      PROVE  \/ In' = In /\ Out' = Out
             \/ e \in In \ Out /\ Out' = Out \cup {e} /\ In' = In
  <2>1. e \in todo[d] /\ UNCHANGED row /\ sent' \in {sent, [sent EXCEPT ![e] = @ + 1]}
    BY <1>6 DEF PublishAcked, PublishFails, IsNext
  <2> QED BY <1>5, <2>1
<1>7. ASSUME NEW d \in Dispatcher, Commit(d) PROVE In' = In /\ Out' = Out
  <2>1. ASSUME NEW e \in Event PROVE row'[e] = "NONE" <=> row[e] = "NONE"
    BY <1>7 DEF Commit, RowsAfter, BatchesOK, Held
  <2> QED BY <1>7, <2>1 DEF Commit
<1>8. CASE UNCHANGED vars
  BY <1>8 DEF vars
<1> HIDE DEF In, Out
<1>9. ASSUME NEW d \in Dispatcher, Dispatch(d)
      PROVE  \/ In' = In /\ Out' = Out
             \/ \E e \in In \ Out : Out' = Out \cup {e} /\ In' = In
  BY <1>4, <1>6, <1>7, <1>9 DEF Dispatch
<1> QED BY <1>2, <1>3, <1>4, <1>6, <1>8, <1>9 DEF Next

\* The dispatchers are a channel from domain_events to the topic: what they
\* publish was committed, row by row, and nothing published is taken back,
\* however many run and whatever is rolled back.  (That a committed row is
\* eventually published is checked by TLC as ImplementsChannel.)
THEOREM OutboxIsChannel == Spec => Leg!Spec
<1>1. Init => Leg!Init
  BY DEF Init, Leg!Init
<1>2. OutboxInv /\ [Next]_vars => [Leg!Next]_Leg!vars
  BY ChannelSteps
<1> QED BY <1>1, <1>2, OutboxInvariance, PTL DEF Spec, Leg!Spec

=============================================================================
