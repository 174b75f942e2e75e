-------------------------------- MODULE Outbox --------------------------------
(***************************************************************************)
(* The outbox dispatcher: internal/outbox, the statements of event_repo.go *)
(* on domain_events, and KafkaTopic.Publish.  Every API server runs one    *)
(* dispatcher on the same table.                                           *)
(*                                                                         *)
(* DispatchOnce is one transaction: it locks a batch of due rows, writes   *)
(* them to Kafka one by one, and marks each row published or to be tried   *)
(* again; the marks become visible with the commit, the messages at once.  *)
(***************************************************************************)
EXTENDS Integers, FiniteSets

CONSTANTS
    Event,          \* domain_events.id
    Dispatcher,
    BatchSize,      \* 100 in the code
    MaxTries,       \* 3 in the code
    MaxFaults       \* bound of the model: failed writes and transactions

ASSUME OutboxConstants ==
    /\ Event \subseteq Nat
    /\ BatchSize \in Nat \ {0} /\ MaxTries \in Nat \ {0} /\ MaxFaults \in Nat

VARIABLES
    row,            \* the committed row: published_at and next_retry_at
    sent,           \* copies of the event in the topic
    pc,             \* where the DispatchOnce of each dispatcher is
    todo,           \* locked rows its loop has not reached
    published,      \* rows its transaction has marked published
    retried,        \* rows its transaction has marked for another try
    try,            \* the attempt of Publish that comes next
    faults

batches == <<todo, published, retried>>
vars == <<row, sent, pc, batches, try, faults>>

\* "NONE": not inserted; "DUE": unpublished, no retry time ahead; "WAITING":
\* unpublished with next_retry_at ahead.
RowState == {"NONE", "DUE", "WAITING", "PUBLISHED"}

TypeOK ==
    /\ row \in [Event -> RowState]
    /\ sent \in [Event -> Nat]
    /\ pc \in [Dispatcher -> {"idle", "loop"}]
    /\ todo \in [Dispatcher -> SUBSET Event]
    /\ published \in [Dispatcher -> SUBSET Event]
    /\ retried \in [Dispatcher -> SUBSET Event]
    /\ try \in [Dispatcher -> 1..MaxTries]
    /\ faults \in 0..MaxFaults

Init ==
    /\ row = [e \in Event |-> "NONE"]
    /\ sent = [e \in Event |-> 0]
    /\ pc = [d \in Dispatcher |-> "idle"]
    /\ todo = [d \in Dispatcher |-> {}]
    /\ published = [d \in Dispatcher |-> {}]
    /\ retried = [d \in Dispatcher |-> {}]
    /\ try = [d \in Dispatcher |-> 1]
    /\ faults = 0

-----------------------------------------------------------------------------
\* A handler commits its row.  Ids are drawn before the commit, so rows may
\* become visible out of order.
InsertDomainEvent(e) ==
    /\ row[e] = "NONE"
    /\ row' = [row EXCEPT ![e] = "DUE"]
    /\ UNCHANGED <<sent, pc, batches, try, faults>>

\* Mutant of RetryDue: the SELECT takes only rows without next_retry_at.
RetryNeverDue(e) ==
    /\ row[e] = "WAITING"
    /\ UNCHANGED vars

\* next_retry_at has passed; backoff is five minutes at most.
RetryDue(e) ==
    /\ row[e] = "WAITING"
    /\ row' = [row EXCEPT ![e] = "DUE"]
    /\ UNCHANGED <<sent, pc, batches, try, faults>>

\* Rows a dispatcher's transaction has locked.
Held(d) == todo[d] \cup published[d] \cup retried[d]

\* Mutant of Pending: the SELECT has no SKIP LOCKED and no FOR UPDATE.
PendingUnlocked == {e \in Event : row[e] = "DUE"}

\* FOR UPDATE SKIP LOCKED
Pending == {e \in Event : row[e] = "DUE" /\ \A d \in Dispatcher : e \notin Held(d)}

\* The BatchSize rows of S with the lowest ids.
IsFirst(B, S) ==
    /\ B \subseteq S
    /\ \A b \in B, e \in S \ B : b < e
    /\ Cardinality(B) <= BatchSize
    /\ B = S \/ Cardinality(B) = BatchSize

LockPendingOutboxEvents(d) ==
    /\ pc[d] = "idle"
    /\ \E B \in SUBSET Pending : IsFirst(B, Pending) /\ todo' = [todo EXCEPT ![d] = B]
    /\ pc' = [pc EXCEPT ![d] = "loop"]
    /\ UNCHANGED <<row, sent, published, retried, try, faults>>

\* The loop takes the rows in the order of their ids.
IsNext(d, e) == pc[d] = "loop" /\ e \in todo[d] /\ \A f \in todo[d] : e <= f

\* The loop is done with e.
Advance(d, e) ==
    /\ todo' = [todo EXCEPT ![d] = @ \ {e}]
    /\ try' = [try EXCEPT ![d] = 1]

\* Publish succeeds and MarkOutboxPublished follows.
PublishAcked(d, e) ==
    /\ IsNext(d, e)
    /\ sent' = [sent EXCEPT ![e] = @ + 1]
    /\ published' = [published EXCEPT ![d] = @ \cup {e}]
    /\ Advance(d, e)
    /\ UNCHANGED <<row, pc, retried, faults>>

\* Mutant of PublishGivesUp: the error of Publish is ignored, and the row
\* marked published.
GivesUpSilently(d, e) ==
    /\ published' = [published EXCEPT ![d] = @ \cup {e}]
    /\ Advance(d, e)
    /\ UNCHANGED retried

\* The last attempt has failed: MarkOutboxRetry.
PublishGivesUp(d, e) ==
    /\ retried' = [retried EXCEPT ![d] = @ \cup {e}]
    /\ Advance(d, e)
    /\ UNCHANGED published

\* Mutant of Exhausted: one attempt too many.
ExhaustedLate(d) == try[d] > MaxTries

Exhausted(d) == try[d] >= MaxTries

\* WriteMessages returns an error: the message is not in the topic, or it is
\* and only the acknowledgement is lost.
PublishFails(d, e) ==
    /\ IsNext(d, e) /\ faults < MaxFaults
    /\ sent' \in {sent, [sent EXCEPT ![e] = @ + 1]}
    /\ IF Exhausted(d)
       THEN PublishGivesUp(d, e)
       ELSE try' = [try EXCEPT ![d] = @ + 1] /\ UNCHANGED batches
    /\ faults' = faults + 1
    /\ UNCHANGED <<row, pc>>

\* The transaction is over, its locks are gone.
Finish(d) ==
    /\ pc' = [pc EXCEPT ![d] = "idle"]
    /\ todo' = [todo EXCEPT ![d] = {}]
    /\ published' = [published EXCEPT ![d] = {}]
    /\ retried' = [retried EXCEPT ![d] = {}]
    /\ try' = [try EXCEPT ![d] = 1]

\* Mutant of RowsAfter: MarkOutboxPublished does not set published_at.
RowsAfterUnmarked(d) ==
    [e \in Event |-> IF e \in retried[d] THEN "WAITING" ELSE row[e]]

\* What the commit of d's transaction makes of the rows.
RowsAfter(d) ==
    [e \in Event |-> IF e \in published[d] THEN "PUBLISHED"
                     ELSE IF e \in retried[d] THEN "WAITING" ELSE row[e]]

Commit(d) ==
    /\ pc[d] = "loop" /\ todo[d] = {}
    /\ row' = RowsAfter(d)
    /\ Finish(d)
    /\ UNCHANGED <<sent, faults>>

\* A statement or the commit fails, or the API server dies and is restarted:
\* the marks are undone, what was written to Kafka stays there.
Rollback(d) ==
    /\ pc[d] = "loop" /\ faults < MaxFaults
    /\ Finish(d)
    /\ faults' = faults + 1
    /\ UNCHANGED <<row, sent>>

-----------------------------------------------------------------------------
\* One pass of DispatchOnce, as far as nothing fails.
Dispatch(d) ==
    \/ LockPendingOutboxEvents(d)
    \/ \E e \in Event : PublishAcked(d, e)
    \/ Commit(d)

Next ==
    \/ \E e \in Event : InsertDomainEvent(e) \/ RetryDue(e)
    \/ \E d \in Dispatcher : Dispatch(d) \/ Rollback(d)
    \/ \E d \in Dispatcher, e \in Event : PublishFails(d, e)

Spec == Init /\ [][Next]_vars

\* The ticker of Run calls DispatchOnce every 300 ms and time passes.
Fairness ==
    /\ \A d \in Dispatcher : WF_vars(Dispatch(d))
    /\ \A e \in Event : WF_vars(RetryDue(e))

FairSpec == Spec /\ Fairness

-----------------------------------------------------------------------------
(* Properties                                                               *)

\* Nothing is lost: a row whose published_at is set has reached the topic,
\* whatever failed and was rolled back on the way.
PublishedWasSent == \A e \in Event : row[e] = "PUBLISHED" => sent[e] > 0

\* Delivery is at least once, and duplicates have a cause: however many
\* dispatchers run, an event has at most one copy more in the topic than
\* there were failed writes and transactions.
DuplicatesNeedFaults == \A e \in Event : sent[e] <= faults + 1

\* A row that is published stays so: no late MarkOutboxRetry of another
\* dispatcher puts it back.
PublishedIsFinal ==
    [][\A e \in Event : row[e] = "PUBLISHED" => row'[e] = "PUBLISHED"]_vars

\* Every committed event is eventually published, once failures stop: rows
\* of a rolled back batch and rows waiting for their retry are picked up
\* again by some dispatcher.
EventuallyPublished == \A e \in Event : row[e] = "DUE" ~> row[e] = "PUBLISHED"

Leg == INSTANCE Channel WITH
           Message <- Event,
           accepted <- {e \in Event : row[e] # "NONE"},
           delivered <- {e \in Event : sent[e] > 0}

\* The dispatchers are a reliable channel from domain_events to the topic: a
\* row that was committed reaches Kafka, none that was not does.
ImplementsChannel == Leg!FairSpec

-----------------------------------------------------------------------------
(* The inductive invariant                                                  *)

\* An event is in at most one place of at most one batch, and only as long
\* as its committed row is due.
BatchesOK ==
    /\ \A d \in Dispatcher :
          /\ \A e \in Held(d) : row[e] = "DUE"
          /\ todo[d] \cap published[d] = {} /\ retried[d] \cap published[d] = {}
          /\ todo[d] \cap retried[d] = {}
          /\ pc[d] = "idle" => Held(d) = {}
    /\ \A c, d \in Dispatcher : c # d => Held(c) \cap Held(d) = {}

\* The copy of e that no fault accounts for has been made.
Accounted(e) == row[e] = "PUBLISHED" \/ \E d \in Dispatcher : e \in published[d]

CopiesOK ==
    \A e \in Event : /\ Accounted(e) => sent[e] \in 1..(faults + 1)
                     /\ ~ Accounted(e) => sent[e] <= faults

OutboxInv == TypeOK /\ BatchesOK /\ CopiesOK
=============================================================================
