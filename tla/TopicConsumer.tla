---------------------------- MODULE TopicConsumer ----------------------------
(***************************************************************************)
(* The topic consumer: KafkaTopic.Consume, the reader NewKafkaTopic makes, *)
(* and the handler TopicToTemporalBridge.HandleEvent, which starts one     *)
(* Temporal workflow for an event.                                         *)
(*                                                                         *)
(* One process is the only member of its consumer group.  ReadMessage      *)
(* fetches a message and commits its offset before it returns, so the      *)
(* offset is committed before the message is handled.                      *)
(***************************************************************************)
EXTENDS Integers, Sequences, FiniteSets

CONSTANTS
    Message,        \* messages of the topic, each with its own offset
    Malformed,      \* those json.Unmarshal refuses
    Partition,
    FromBeginning,  \* KAFKA_FROM_BEGINNING
    MaxAttempts,    \* 3 in the code
    MaxFailures, MaxExits   \* bounds of the model

ASSUME ConsumerConstants ==
    /\ Malformed \subseteq Message
    /\ FromBeginning \in BOOLEAN
    /\ MaxAttempts \in Nat \ {0} /\ MaxFailures \in Nat /\ MaxExits \in Nat

VARIABLES
    log,            \* the partitions of the topic
    committed,      \* the group's offset per partition; NoOffset before the first commit
    position,       \* the reader's next offset per partition
    pc,             \* the process: "down", or where its Consume is
    part,           \* the partition of the message in hand
    attempt,        \* the attempt of the handler that comes next
    started,        \* workflows started per message
    failures,       \* failed calls of the handler so far
    exits           \* ends of the process so far

reader == <<committed, position>>
vars == <<log, reader, pc, part, attempt, started, failures, exits>>

NoOffset == -1

InLog(p) == {log[p][i] : i \in 1..Len(log[p])}
Published == UNION {InLog(p) : p \in Partition}

TypeOK ==
    /\ log \in [Partition -> Seq(Message)]
    /\ committed \in [Partition -> Nat \cup {NoOffset}]
    /\ position \in [Partition -> Nat]
    /\ pc \in {"down", "reading", "committing", "handling"}
    /\ part \in Partition
    /\ attempt \in 1..MaxAttempts
    /\ started \in [Message -> Nat]
    /\ failures \in 0..MaxFailures
    /\ exits \in 0..MaxExits
    /\ \A p \in Partition : committed[p] <= Len(log[p]) /\ position[p] <= Len(log[p])

Init ==
    /\ log = [p \in Partition |-> <<>>]
    /\ committed = [p \in Partition |-> NoOffset]
    /\ position = [p \in Partition |-> 0]
    /\ pc = "down"
    /\ part \in Partition
    /\ attempt = 1
    /\ started = [m \in Message |-> 0]
    /\ failures = 0
    /\ exits = 0

-----------------------------------------------------------------------------
\* The outbox writes a message.  The balancer LeastBytes looks at sizes and
\* not at keys: any partition may be the one.
Publish(m, p) ==
    /\ m \notin Published
    /\ log' = [log EXCEPT ![p] = Append(@, m)]
    /\ UNCHANGED <<reader, pc, part, attempt, started, failures, exits>>

\* StartOffset counts only where the group has no committed offset.
StartOffset(p) ==
    IF committed[p] # NoOffset THEN committed[p]
    ELSE IF FromBeginning THEN 0 ELSE Len(log[p])

Start ==
    /\ pc = "down"
    /\ position' = [p \in Partition |-> StartOffset(p)]
    /\ pc' = "reading"
    /\ UNCHANGED <<log, committed, part, attempt, started, failures, exits>>

\* ReadMessage, first half.
FetchMessage(p) ==
    /\ pc = "reading" /\ position[p] < Len(log[p])
    /\ position' = [position EXCEPT ![p] = @ + 1]
    /\ part' = p
    /\ pc' = "committing"
    /\ UNCHANGED <<log, committed, attempt, started, failures, exits>>

\* The message in hand.
Current == log[part][position[part]]

\* Mutants of CommitMessages: the offset is left for a later commit; a
\* message that cannot be read is fetched again.
CommitLater ==
    /\ pc' = IF Current \in Malformed THEN "reading" ELSE "handling"
    /\ UNCHANGED reader
CommitUnlessMalformed ==
    IF Current \in Malformed
    THEN /\ position' = [position EXCEPT ![part] = @ - 1]
         /\ pc' = "reading"
         /\ UNCHANGED committed
    ELSE /\ committed' = [committed EXCEPT ![part] = position[part]]
         /\ pc' = "handling"
         /\ UNCHANGED position

\* ReadMessage, second half, and json.Unmarshal: a message that cannot be
\* read is skipped.
CommitMessages ==
    /\ committed' = [committed EXCEPT ![part] = position[part]]
    /\ pc' = IF Current \in Malformed THEN "reading" ELSE "handling"
    /\ UNCHANGED position

ReadMessage ==
    /\ pc = "committing"
    /\ CommitMessages
    /\ attempt' = 1
    /\ UNCHANGED <<log, part, started, failures, exits>>

\* ReadMessage returns an error: Consume returns it and main exits.  Only
\* the answer to the commit may be missing.
ReadFails ==
    /\ pc = "committing" /\ exits < MaxExits
    /\ committed' \in {committed, [committed EXCEPT ![part] = position[part]]}
    /\ pc' = "down"
    /\ exits' = exits + 1
    /\ UNCHANGED <<log, position, part, attempt, started, failures>>

\* The workflow id holds the time of the call: each one starts a new workflow.
OneMore == [started EXCEPT ![Current] = @ + 1]

Handled ==
    /\ pc = "handling"
    /\ started' = OneMore
    /\ pc' = "reading"
    /\ UNCHANGED <<log, reader, part, attempt, failures, exits>>

\* Mutants of LastAttempt: off by one, either way.
LastAttemptEarly == attempt >= MaxAttempts - 1
LastAttemptLate == attempt > MaxAttempts

LastAttempt == attempt = MaxAttempts

\* ExecuteWorkflow returns an error; the workflow may have been started all
\* the same.  After the last attempt the event is dropped.
HandlerFails ==
    /\ pc = "handling" /\ failures < MaxFailures
    /\ started' \in {started, OneMore}
    /\ IF LastAttempt THEN pc' = "reading" /\ UNCHANGED attempt
       ELSE attempt' = attempt + 1 /\ UNCHANGED pc
    /\ failures' = failures + 1
    /\ UNCHANGED <<log, reader, part, exits>>

\* The process is killed; a workflow it was starting may have been started.
Crash ==
    /\ pc # "down" /\ exits < MaxExits
    /\ started' \in {started} \cup (IF pc = "handling" THEN {OneMore} ELSE {})
    /\ pc' = "down"
    /\ exits' = exits + 1
    /\ UNCHANGED <<log, reader, part, attempt, failures>>

-----------------------------------------------------------------------------
\* The process at work, as far as nothing fails.
Consume == (\E p \in Partition : FetchMessage(p)) \/ ReadMessage \/ Handled

Next ==
    \/ \E m \in Message, p \in Partition : Publish(m, p)
    \/ Start \/ Consume
    \/ ReadFails \/ HandlerFails \/ Crash

Spec == Init /\ [][Next]_vars

\* A process that has ended is started again, Consume is a loop that ends only
\* with the process, and the reader, with one goroutine per partition that
\* feeds it, passes none of them over for ever.
Fairness ==
    /\ WF_vars(Start)
    /\ WF_vars(Consume)
    /\ \A p \in Partition : SF_vars(FetchMessage(p))

FairSpec == Spec /\ Fairness

-----------------------------------------------------------------------------
(* Properties                                                               *)

Readable == Message \ Malformed
InHand(m) == pc = "handling" /\ m = Current

\* Below the committed offset: no one will read it again.
Passed(m) == \E p \in Partition : \E i \in 1..committed[p] : log[p][i] = m

\* And yet without a workflow.
Lost == {m \in Readable : started[m] = 0 /\ ~ InHand(m) /\ Passed(m)}

\* With KAFKA_FROM_BEGINNING, Consume loses an event only by a fault, and one
\* per fault: an exit of the process loses at most the message in hand, and
\* three failed calls of HandleEvent at most one.
LossNeedsFault ==
    FromBeginning => Cardinality(Lost) <= exits + failures \div MaxAttempts

\* Neither a restart nor a commit without an answer makes Consume handle a
\* message twice: a second workflow for it needs a failed call of HandleEvent,
\* and there are never more than three.
RepeatsNeedFailure ==
    \A m \in Message : started[m] <= MaxAttempts /\ started[m] <= failures + 1

Leg == INSTANCE Channel WITH
           Message <- Readable,
           accepted <- Published \cap Readable,
           delivered <- {m \in Readable : started[m] > 0} \cup Lost

\* With KAFKA_FROM_BEGINNING, the consumer is a channel from the topic to
\* Temporal that settles every message, once and for good, through failures,
\* restarts and messages it cannot read: a workflow is started for it, or it
\* is dropped as LossNeedsFault allows.
ImplementsChannel == Leg!FairSpec

-----------------------------------------------------------------------------
(* The inductive invariant behind LossNeedsFault and RepeatsNeedFailure     *)

\* Messages of partition p the group has passed.
Offset(p) == IF committed[p] = NoOffset THEN 0 ELSE committed[p]

\* A message is in one place of the log.
OnePlace ==
    \A p, q \in Partition : \A i \in 1..Len(log[p]), j \in 1..Len(log[q]) :
        log[p][i] = log[q][j] => p = q /\ i = j

\* The reader is never behind the committed offset; it is ahead of it by the
\* message of a commit under way and, where it began at the end of the topic,
\* by what it skipped.
ReaderOK ==
    /\ pc # "down" => \A p \in Partition : Offset(p) <= position[p]
    /\ pc = "committing" => Offset(part) < position[part]
    /\ pc = "handling" => position[part] > 0 /\ committed[part] = position[part]
    /\ FromBeginning /\ pc # "down" =>
          \A p \in Partition :
             position[p] = Offset(p) \/ (pc = "committing" /\ p = part /\ position[p] = Offset(p) + 1)

\* Workflows are started for messages behind the offset only, and for the one
\* in hand at most as often as the handler has failed on it.
StartsOK ==
    \A m \in Message :
        /\ ~ Passed(m) => started[m] = 0
        /\ InHand(m) => started[m] < attempt /\ started[m] <= failures
        /\ started[m] <= MaxAttempts /\ started[m] <= failures + 1

\* Failures the message in hand has had.
Paid == IF pc = "handling" THEN attempt - 1 ELSE 0

\* Losses by an exit are paid for with exits, the others with MaxAttempts
\* failures each; those of the message in hand are not spent yet.
LossOK ==
    FromBeginning =>
        /\ IsFiniteSet(Lost)
        /\ MaxAttempts * (Cardinality(Lost) - exits) + Paid <= failures

ConsumerInv == TypeOK /\ OnePlace /\ ReaderOK /\ StartsOK /\ LossOK
=============================================================================
