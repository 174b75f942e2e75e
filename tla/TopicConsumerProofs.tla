------------------------- MODULE TopicConsumerProofs -------------------------
(***************************************************************************)
(* What the topic consumer loses and repeats, for any number of messages,  *)
(* partitions, restarts and failures: with KAFKA_FROM_BEGINNING an event   *)
(* is lost only by an exit of the process or by MaxAttempts failed calls   *)
(* of the handler, and no event is handled again after its turn.           *)
(*                                                                         *)
(* The argument: the reader is never behind the committed offset and at    *)
(* most one message ahead of it (ReaderOK), so a message that is fetched   *)
(* is new (FreshMessage) and each commit passes that message alone         *)
(* (CommitPasses); what it then lacks is paid for by the exit that drops   *)
(* it or by the failures of its attempts (LossOK).                         *)
(***************************************************************************)
EXTENDS TopicConsumer, FiniteSetTheorems, TLAPS

\* The message in hand is in the log, at an offset the group had not reached.
LEMMA CurrentOK ==
  ASSUME TypeOK, ReaderOK, pc \in {"committing", "handling"}
  PROVE  /\ position[part] \in 1..Len(log[part]) /\ Current \in Message
         /\ part \in Partition
<1>1. part \in Partition /\ log[part] \in Seq(Message) /\ position[part] \in Nat
      /\ position[part] <= Len(log[part]) /\ committed[part] \in Nat \cup {NoOffset}
  BY DEF TypeOK
<1>2. position[part] > 0
  BY <1>1 DEF ReaderOK, Offset, NoOffset
<1> QED BY <1>1, <1>2 DEF Current

\* A new message leaves what is in the log where it is.
LEMMA AppendKeeps ==
  ASSUME TypeOK, NEW m \in Message, NEW p \in Partition, Publish(m, p)
  PROVE  /\ log' \in [Partition -> Seq(Message)]
         /\ \A q \in Partition : Len(log'[q]) = IF q = p THEN Len(log[q]) + 1 ELSE Len(log[q])
         /\ \A q \in Partition : \A i \in 1..Len(log[q]) : log'[q][i] = log[q][i]
         /\ log'[p][Len(log[p]) + 1] = m
<1>1. log \in [Partition -> Seq(Message)] /\ log' = [log EXCEPT ![p] = Append(@, m)]
  BY DEF TypeOK, Publish
<1>2. log[p] \in Seq(Message) /\ log'[p] = Append(log[p], m)
      /\ \A q \in Partition \ {p} : log'[q] = log[q]
  BY <1>1
<1>3. /\ Append(log[p], m) \in Seq(Message)
      /\ Len(Append(log[p], m)) = Len(log[p]) + 1
      /\ \A i \in 1..Len(log[p]) : Append(log[p], m)[i] = log[p][i]
      /\ Append(log[p], m)[Len(log[p]) + 1] = m
  BY <1>2
<1>4. \A q \in Partition : log[q] \in Seq(Message) /\ Len(log[q]) \in Nat
  BY <1>1
<1> QED BY <1>1, <1>2, <1>3, <1>4

\* Each step keeps the types.
LEMMA TypeStep ==
  ASSUME TypeOK, ReaderOK, [Next]_vars
  PROVE  TypeOK'
<1> USE ConsumerConstants DEF TypeOK, reader, NoOffset
<1>1. ASSUME NEW m \in Message, NEW p \in Partition, Publish(m, p) PROVE TypeOK'
  <2>1. UNCHANGED <<committed, position, pc, part, attempt, started, failures, exits>>
    BY <1>1 DEF Publish
  <2>2. /\ log' \in [Partition -> Seq(Message)]
        /\ \A q \in Partition : Len(log'[q]) = IF q = p THEN Len(log[q]) + 1 ELSE Len(log[q])
    BY <1>1, AppendKeeps
  <2>3. ASSUME NEW q \in Partition PROVE committed[q] <= Len(log'[q]) /\ position[q] <= Len(log'[q])
    <3>1. /\ committed[q] \in Int /\ position[q] \in Int /\ Len(log[q]) \in Nat
          /\ committed[q] <= Len(log[q]) /\ position[q] <= Len(log[q])
      OBVIOUS
    <3> HIDE DEF TypeOK
    <3>2. Len(log'[q]) = Len(log[q]) \/ Len(log'[q]) = Len(log[q]) + 1
      BY <2>2, <3>1
    <3> QED BY <3>1, <3>2
  <2> QED BY <2>1, <2>2, <2>3
<1>2. CASE Start
  BY <1>2 DEF Start, StartOffset
<1>3. ASSUME NEW p \in Partition, FetchMessage(p) PROVE TypeOK'
  BY <1>3 DEF FetchMessage
<1>4. CASE ReadMessage
  BY <1>4 DEF ReadMessage, CommitMessages
<1>5. CASE ReadFails
  <2>1. /\ committed' \in [Partition -> Nat \cup {NoOffset}]
        /\ \A p \in Partition : committed'[p] <= Len(log[p])
    BY <1>5 DEF ReadFails
  <2> QED BY <1>5, <2>1 DEF ReadFails
<1>6. ASSUME pc = "handling" PROVE OneMore \in [Message -> Nat]
  BY <1>6, CurrentOK DEF OneMore
<1>7. CASE Handled
  BY <1>6, <1>7 DEF Handled
<1>8. CASE HandlerFails
  BY <1>6, <1>8 DEF HandlerFails, LastAttempt
<1>9. CASE Crash
  BY <1>6, <1>9 DEF Crash
<1>10. CASE UNCHANGED vars
  BY <1>10 DEF vars
<1> QED BY <1>1, <1>2, <1>3, <1>4, <1>5, <1>7, <1>8, <1>9, <1>10 DEF Next, Consume

\* Where the offset of a partition is.
LEMMA OffsetOK ==
  ASSUME TypeOK, NEW p \in Partition
  PROVE  /\ Offset(p) \in Nat /\ position[p] \in Nat /\ Len(log[p]) \in Nat
         /\ Offset(p) <= Len(log[p]) /\ position[p] <= Len(log[p])
         /\ committed[p] = NoOffset \/ committed[p] = Offset(p)
BY DEF TypeOK, Offset, NoOffset

\* Publish writes a message that is not in the log.
LEMMA PlaceStep ==
  ASSUME TypeOK, OnePlace, [Next]_vars
  PROVE  OnePlace'
<1>1. ASSUME NEW m \in Message, NEW p \in Partition, Publish(m, p) PROVE OnePlace'
  <2>1. \A q \in Partition : \A i \in 1..Len(log[q]) : log[q][i] # m
    BY <1>1 DEF Publish, Published, InLog
  <2>2. ASSUME NEW q \in Partition, NEW i \in 1..Len(log'[q])
        PROVE  \/ i \in 1..Len(log[q]) /\ log'[q][i] = log[q][i]
               \/ q = p /\ i = Len(log[p]) + 1 /\ log'[q][i] = m
    <3>1. Len(log[q]) \in Nat /\ Len(log[p]) \in Nat
      BY DEF TypeOK
    <3> QED BY <1>1, <3>1, AppendKeeps
  <2>3. ASSUME NEW q \in Partition, NEW r \in Partition,
               NEW i \in 1..Len(log'[q]), NEW j \in 1..Len(log'[r]), log'[q][i] = log'[r][j]
        PROVE  q = r /\ i = j
    <3>1. CASE i \in 1..Len(log[q]) /\ log'[q][i] = log[q][i]
      <4>1. log'[r][j] # m
        BY <2>1, <2>3, <3>1
      <4>2. j \in 1..Len(log[r]) /\ log'[r][j] = log[r][j]
        BY <2>2, <4>1
      <4>3. log[q][i] = log[r][j]
        BY <2>3, <3>1, <4>2
      <4> QED BY <3>1, <4>2, <4>3 DEF OnePlace
    <3>2. CASE q = p /\ i = Len(log[p]) + 1 /\ log'[q][i] = m
      <4>1. ~ (j \in 1..Len(log[r]) /\ log'[r][j] = log[r][j])
        BY <2>1, <2>3, <3>2
      <4>2. r = p /\ j = Len(log[p]) + 1
        BY <2>2, <4>1
      <4> QED BY <3>2, <4>2
    <3> QED BY <2>2, <3>1, <3>2
  <2> QED BY <2>3 DEF OnePlace
<1>2. CASE UNCHANGED log
  BY <1>2 DEF OnePlace
<1> QED
  BY <1>1, <1>2 DEF Next, Consume, Start, FetchMessage, ReadMessage, ReadFails, Handled, HandlerFails,
     Crash, vars

\* Each step keeps the reader in step with the committed offsets.
LEMMA ReaderStep ==
  ASSUME TypeOK, ReaderOK, [Next]_vars
  PROVE  ReaderOK'
<1> USE DEF reader
<1>1. CASE /\ UNCHANGED <<committed, position, part>>
           /\ pc' = pc \/ (pc = "handling" /\ pc' = "reading") \/ pc' = "down"
  <2>1. \A p \in Partition : Offset(p)' = Offset(p)
    BY <1>1 DEF Offset
  <2>2. pc # "down" => part \in Partition
    BY DEF TypeOK
  <2> QED BY <1>1, <2>1, <2>2 DEF ReaderOK, Offset
<1>2. CASE Start
  <2>1. /\ \A p \in Partition : position'[p] = StartOffset(p)
        /\ UNCHANGED <<committed, log>> /\ pc' = "reading"
    BY <1>2 DEF Start
  <2>2. ASSUME NEW p \in Partition
        PROVE  Offset(p)' <= position'[p] /\ (FromBeginning => position'[p] = Offset(p)')
    BY <2>1, OffsetOK DEF StartOffset, Offset
  <2> QED BY <2>1, <2>2 DEF ReaderOK
<1>3. ASSUME NEW p \in Partition, FetchMessage(p) PROVE ReaderOK'
  <2>1. /\ pc = "reading" /\ pc' = "committing" /\ part' = p /\ UNCHANGED committed
        /\ position'[p] = position[p] + 1
        /\ \A q \in Partition \ {p} : position'[q] = position[q]
    BY <1>3 DEF FetchMessage, TypeOK
  <2>2. \A q \in Partition : Offset(q)' = Offset(q)
    BY <2>1 DEF Offset
  <2>3. ASSUME NEW q \in Partition
        PROVE  /\ Offset(q)' <= position'[q] /\ (q = p => Offset(q)' < position'[q])
               /\ FromBeginning => \/ position'[q] = Offset(q)'
                                   \/ q = p /\ position'[q] = Offset(q)' + 1
    <3>1. Offset(q) \in Nat /\ position[q] \in Nat /\ Offset(q) <= position[q]
          /\ (FromBeginning => position[q] = Offset(q))
      BY <2>1, OffsetOK DEF ReaderOK
    <3> QED BY <2>1, <2>2, <3>1
  <2> QED BY <2>1, <2>2, <2>3 DEF ReaderOK, Offset
<1>4. ASSUME pc = "committing", committed' = [committed EXCEPT ![part] = position[part]],
             UNCHANGED <<position, part>>, pc' \in {"reading", "handling", "down"}
      PROVE  ReaderOK'
  <2>1. /\ part \in Partition /\ committed'[part] = position[part] /\ position[part] \in Nat
        /\ \A q \in Partition \ {part} : committed'[q] = committed[q]
    BY <1>4 DEF TypeOK
  <2>2. /\ Offset(part)' = position[part] /\ position[part] > 0
        /\ \A q \in Partition \ {part} : Offset(q)' = Offset(q)
    BY <1>4, <2>1, OffsetOK DEF Offset, NoOffset, ReaderOK
  <2>3. ASSUME NEW q \in Partition
        PROVE  Offset(q)' <= position'[q] /\ (FromBeginning => position'[q] = Offset(q)')
    BY <1>4, <2>1, <2>2 DEF ReaderOK
  <2> QED BY <1>4, <2>1, <2>2, <2>3 DEF ReaderOK
<1>5. CASE ReadMessage
  BY <1>4, <1>5 DEF ReadMessage, CommitMessages
<1>6. CASE ReadFails
  BY <1>1, <1>4, <1>6 DEF ReadFails
<1>7. CASE Handled \/ HandlerFails \/ Crash
  BY <1>1, <1>7 DEF Handled, HandlerFails, Crash
<1>8. CASE (\E m \in Message, p \in Partition : Publish(m, p)) \/ UNCHANGED vars
  BY <1>1, <1>8 DEF Publish, vars
<1> QED BY <1>2, <1>3, <1>5, <1>6, <1>7, <1>8 DEF Next, Consume


\* The message of a commit under way is one the group has not passed; the
\* message the handler works on has been.
LEMMA FreshMessage ==
  ASSUME TypeOK, OnePlace, ReaderOK
  PROVE  /\ pc = "committing" => ~ Passed(Current)
         /\ pc = "handling" => Passed(Current)
<1>1. ASSUME pc = "committing", NEW q \in Partition, NEW i \in 1..committed[q],
             log[q][i] = Current
      PROVE  FALSE
  <2>1. part \in Partition /\ position[part] \in 1..Len(log[part])
    BY <1>1, CurrentOK
  <2>2. committed[q] \in Int /\ committed[q] <= Len(log[q]) /\ Len(log[q]) \in Nat
    BY DEF TypeOK, NoOffset
  <2>3. i \in 1..Len(log[q])
    BY <2>2
  <2>4. q = part /\ i = position[part]
    BY <1>1, <2>1, <2>3 DEF OnePlace, Current
  <2>5. Offset(part) < position[part] /\ committed[part] <= Offset(part) /\ Offset(part) \in Nat
    BY <1>1, <2>1, <2>2, OffsetOK DEF ReaderOK, NoOffset
  <2> QED BY <2>1, <2>2, <2>4, <2>5
<1>2. pc = "handling" => Passed(Current)
  <2> SUFFICES ASSUME pc = "handling" PROVE Passed(Current)
    OBVIOUS
  <2>1. part \in Partition /\ position[part] \in 1..Len(log[part]) /\ committed[part] = position[part]
    BY CurrentOK DEF ReaderOK
  <2>2. position[part] \in 1..committed[part]
    BY <2>1
  <2> QED BY <2>1, <2>2 DEF Passed, Current
<1> QED BY <1>1, <1>2 DEF Passed

\* Only a commit passes messages.
LEMMA PassedSame ==
  ASSUME TypeOK, UNCHANGED committed,
         UNCHANGED log \/ \E m \in Message, p \in Partition : Publish(m, p)
  PROVE  \A m \in Message : Passed(m)' <=> Passed(m)
<1>1. CASE UNCHANGED log
  BY <1>1 DEF Passed
<1>2. ASSUME NEW n \in Message, NEW p \in Partition, Publish(n, p)
      PROVE  \A m \in Message : Passed(m)' <=> Passed(m)
  <2>1. ASSUME NEW q \in Partition, NEW i \in 1..committed[q] PROVE log'[q][i] = log[q][i]
    <3>1. committed[q] \in Int /\ committed[q] <= Len(log[q]) /\ Len(log[q]) \in Nat
      BY DEF TypeOK, NoOffset
    <3>2. i \in 1..Len(log[q])
      BY <3>1
    <3> QED BY <1>2, <3>2, AppendKeeps
  <2> QED BY <2>1 DEF Passed
<1> QED BY <1>1, <1>2

\* A commit passes the message in hand and, where the reader began at the
\* beginning of the topic, no other.
LEMMA CommitPasses ==
  ASSUME TypeOK, ReaderOK, pc = "committing", UNCHANGED log,
         committed' = [committed EXCEPT ![part] = position[part]]
  PROVE  /\ \A m \in Message : Passed(m) => Passed(m)'
         /\ FromBeginning => \A m \in Message : Passed(m)' => Passed(m) \/ m = Current
<1>1. /\ part \in Partition /\ committed'[part] = position[part]
      /\ \A q \in Partition \ {part} : committed'[q] = committed[q]
      /\ \A q \in Partition : log'[q] = log[q]
      /\ committed[part] = NoOffset \/ committed[part] = Offset(part)
      /\ Offset(part) \in Nat /\ position[part] \in Nat /\ Offset(part) < position[part]
  BY OffsetOK DEF TypeOK, ReaderOK
<1>2. ASSUME NEW q \in Partition, NEW i \in 1..committed[q] PROVE i \in 1..committed'[q]
  BY <1>1 DEF NoOffset
<1>3. ASSUME FromBeginning, NEW q \in Partition, NEW i \in 1..committed'[q]
      PROVE  i \in 1..committed[q] \/ (q = part /\ i = position[part])
  <2>1. CASE q # part
    BY <1>1, <2>1
  <2>2. CASE q = part
    <3>1. position[part] = Offset(part) + 1
      BY <1>1, <1>3 DEF ReaderOK
    <3>2. committed[part] = NoOffset => Offset(part) = 0
      BY DEF Offset
    <3> QED BY <1>1, <2>2, <3>1, <3>2
  <2> QED BY <2>1, <2>2
<1> QED BY <1>1, <1>2, <1>3 DEF Passed, Current

\* One more workflow for the message in hand.
LEMMA OneMoreOK ==
  ASSUME TypeOK, OnePlace, ReaderOK, pc = "handling", started' \in {started, OneMore}
  PROVE  \A m \in Message :
            /\ started[m] \in Nat /\ started'[m] \in Nat
            /\ m # Current => started'[m] = started[m]
            /\ m = Current => InHand(m) /\ Passed(m)
            /\ m = Current => started'[m] = started[m]
                              \/ (started' = OneMore /\ started'[m] = started[m] + 1)
BY CurrentOK, FreshMessage DEF TypeOK, OneMore, InHand

\* The steps of the reader start no workflow.
LEMMA ReaderStarts ==
  ASSUME TypeOK, OnePlace, ReaderOK, StartsOK,
         \/ \E m \in Message, p \in Partition : Publish(m, p)
         \/ \E p \in Partition : FetchMessage(p)
         \/ Start \/ ReadMessage \/ ReadFails \/ UNCHANGED vars
  PROVE  StartsOK'
<1> USE DEF reader
<1>1. UNCHANGED <<started, failures>>
  BY DEF Publish, FetchMessage, Start, ReadMessage, ReadFails, vars
<1>2. ASSUME NEW m \in Message PROVE Passed(m) => Passed(m)'
  <2>1. CASE UNCHANGED committed
    <3>1. UNCHANGED log \/ \E n \in Message, p \in Partition : Publish(n, p)
      BY DEF FetchMessage, Start, ReadMessage, ReadFails, vars
    <3> QED BY <2>1, <3>1, PassedSame
  <2>2. CASE /\ pc = "committing" /\ UNCHANGED log
             /\ committed' = [committed EXCEPT ![part] = position[part]]
    BY <2>2, CommitPasses
  <2> QED BY <2>1, <2>2 DEF Publish, FetchMessage, Start, ReadMessage, CommitMessages, ReadFails, vars
<1>3. ASSUME NEW m \in Message, InHand(m)'
      PROVE  (InHand(m) /\ attempt' = attempt) \/ (attempt' = 1 /\ started[m] = 0)
  <2>1. CASE ReadMessage
    <3>1. pc = "committing" /\ attempt' = 1 /\ Current' = Current
      BY <2>1 DEF ReadMessage, CommitMessages, Current
    <3>2. m = Current
      BY <1>3, <3>1 DEF InHand
    <3> QED BY <3>1, <3>2, FreshMessage DEF StartsOK
  <2>2. ASSUME NEW n \in Message, NEW p \in Partition, Publish(n, p)
        PROVE  InHand(m) /\ attempt' = attempt
    <3>1. pc = "handling" /\ UNCHANGED <<part, position, attempt>>
      BY <1>3, <2>2 DEF InHand, Publish
    <3>2. Current' = Current
      BY <2>2, <3>1, AppendKeeps, CurrentOK DEF Current
    <3> QED BY <1>3, <3>1, <3>2 DEF InHand
  <2>3. CASE UNCHANGED vars
    BY <1>3, <2>3 DEF vars, InHand, Current
  <2> QED BY <1>3, <2>1, <2>2, <2>3 DEF InHand, FetchMessage, Start, ReadFails
<1>4. \A m \in Message : started[m] \in Nat /\ failures \in Nat
  BY DEF TypeOK
<1> QED BY <1>1, <1>2, <1>3, <1>4 DEF StartsOK

\* The calls of the handler, and the exit of the process.
LEMMA HandlerStarts ==
  ASSUME TypeOK, OnePlace, ReaderOK, StartsOK, Handled \/ HandlerFails \/ Crash
  PROVE  StartsOK'
<1> USE DEF reader
<1>1. /\ UNCHANGED <<log, committed, position, part>> /\ failures' \in {failures, failures + 1}
      /\ failures \in Nat /\ attempt \in Nat /\ attempt <= MaxAttempts
      /\ pc = "handling" => started' \in {started, OneMore}
      /\ pc # "handling" => UNCHANGED started /\ pc' = "down"
      /\ pc' = "handling" => pc = "handling" /\ attempt' = attempt + 1 /\ failures' = failures + 1
  BY ConsumerConstants DEF Handled, HandlerFails, Crash, TypeOK
<1>2. \A m \in Message : Passed(m)' <=> Passed(m)
  BY <1>1, PassedSame
<1>3. Current' = Current
  BY <1>1 DEF Current
<1>4. CASE pc # "handling"
  <2>1. \A m \in Message : started[m] \in Nat
    BY DEF TypeOK
  <2> QED BY <1>1, <1>2, <1>4, <2>1 DEF StartsOK, InHand
<1>5. ASSUME pc = "handling", NEW m \in Message, m # Current
      PROVE  /\ ~ Passed(m)' => started'[m] = 0
             /\ ~ InHand(m)'
             /\ started'[m] <= MaxAttempts /\ started'[m] <= failures' + 1
  BY <1>1, <1>2, <1>3, <1>5, OneMoreOK DEF StartsOK, InHand
<1>6. ASSUME pc = "handling", NEW m \in Message, m = Current
      PROVE  /\ Passed(m)'
             /\ InHand(m)' => started'[m] < attempt' /\ started'[m] <= failures'
             /\ started'[m] <= MaxAttempts /\ started'[m] <= failures' + 1
  <2>1. /\ started[m] \in Nat /\ started'[m] \in Nat
        /\ started'[m] = started[m] \/ started'[m] = started[m] + 1
        /\ InHand(m) /\ Passed(m)
    BY <1>1, <1>6, OneMoreOK
  <2>2. started[m] < attempt /\ started[m] <= failures
    BY <2>1 DEF StartsOK
  <2>3. InHand(m)' => attempt' = attempt + 1 /\ failures' = failures + 1
    BY <1>1 DEF InHand
  <2> QED BY <1>1, <1>2, <2>1, <2>2, <2>3, ConsumerConstants
<1> QED BY <1>4, <1>5, <1>6 DEF StartsOK


\* Arithmetic of LossOK.
LEMMA TimesMonotone ==
  ASSUME NEW n \in Nat, NEW x \in Int, NEW y \in Int, y <= x
  PROVE  n * y <= n * x /\ n * y \in Int /\ n * x \in Int /\ n * (x + 1) = n * x + n
<1>1. PICK d \in Nat : x = y + d
  <2>1. x - y \in Nat /\ x = y + (x - y)
    OBVIOUS
  <2> QED BY <2>1
<1>2. n * x = n * y + n * d /\ n * d \in Nat /\ n * y \in Int
  BY <1>1
<1> QED BY <1>1, <1>2

LEMMA QuotientBound ==
  ASSUME NEW n \in Nat \ {0}, NEW f \in Nat, NEW x \in Int, n * x <= f
  PROVE  x <= f \div n
<1>1. f \div n \in Int /\ f < n * ((f \div n) + 1)
  OBVIOUS
<1>2. SUFFICES ASSUME x >= (f \div n) + 1 PROVE FALSE
  BY <1>1
<1>3. n * ((f \div n) + 1) <= n * x
  BY <1>1, <1>2, TimesMonotone
<1> QED BY <1>1, <1>3


\* At most one message more is lost.
LEMMA OneMoreLost ==
  ASSUME NEW A, IsFiniteSet(A), NEW c, NEW B \in SUBSET (A \cup {c})
  PROVE  /\ IsFiniteSet(B) /\ Cardinality(A) \in Nat /\ Cardinality(B) \in Nat
         /\ Cardinality(B) <= Cardinality(A) + 1
         /\ B \subseteq A => Cardinality(B) <= Cardinality(A)
<1>1. IsFiniteSet(A \cup {c}) /\ Cardinality(A \cup {c}) <= Cardinality(A) + 1
  <2>1. IsFiniteSet(A \cup {c})
        /\ Cardinality(A \cup {c}) = IF c \in A THEN Cardinality(A) ELSE Cardinality(A) + 1
    BY FS_AddElement
  <2>2. Cardinality(A) \in Nat
    BY FS_CardinalityType
  <2> QED BY <2>1, <2>2
<1>2. IsFiniteSet(B) /\ Cardinality(B) <= Cardinality(A \cup {c})
  BY <1>1, FS_Subset
<1>3. B \subseteq A => Cardinality(B) <= Cardinality(A)
  BY FS_Subset
<1>4. Cardinality(A) \in Nat /\ Cardinality(B) \in Nat /\ Cardinality(A \cup {c}) \in Nat
  BY <1>1, <1>2, FS_CardinalityType
<1> QED BY <1>1, <1>2, <1>3, <1>4

\* LossOK is kept by a step that loses nothing, by one that loses a message
\* and counts an exit, and by one that loses a message all of whose attempts
\* have failed.
LEMMA LossKept ==
  ASSUME TypeOK, TypeOK', LossOK, FromBeginning,
         NEW c, Lost' \subseteq Lost \cup {c},
         \/ /\ Lost' \subseteq Lost /\ exits' = exits
            /\ \/ failures' = failures /\ Paid' = 0
               \/ failures' = failures /\ Paid' = Paid
               \/ failures' = failures + 1 /\ Paid' = Paid + 1
         \/ exits' = exits + 1 /\ failures' = failures /\ Paid' = 0
         \/ /\ Paid = MaxAttempts - 1 /\ Paid' = 0
            /\ exits' = exits /\ failures' = failures + 1
  PROVE  LossOK'
<1> DEFINE lost == Cardinality(Lost)
           lostNext == Cardinality(Lost')
<1>1. /\ IsFiniteSet(Lost') /\ lost \in Nat /\ lostNext \in Nat /\ lostNext <= lost + 1
      /\ Lost' \subseteq Lost => lostNext <= lost
  <2>1. IsFiniteSet(Lost)
    BY DEF LossOK
  <2> QED BY <2>1, OneMoreLost
<1>2. MaxAttempts * (lost - exits) + Paid <= failures
  BY DEF LossOK, Paid
<1>3. /\ exits \in Nat /\ exits' \in Nat /\ failures \in Nat /\ failures' \in Nat
      /\ Paid \in Nat /\ MaxAttempts \in Nat \ {0} /\ lost - exits \in Int /\ lostNext - exits' \in Int
  BY <1>1, ConsumerConstants DEF TypeOK, Paid
<1> HIDE DEF lost, lostNext
<1>4. /\ MaxAttempts * (lost - exits) \in Int /\ MaxAttempts * (lostNext - exits') \in Int
      /\ lostNext - exits' <= lost - exits =>
            MaxAttempts * (lostNext - exits') <= MaxAttempts * (lost - exits)
      /\ lostNext - exits' <= (lost - exits) + 1 =>
            MaxAttempts * (lostNext - exits') <= MaxAttempts * (lost - exits) + MaxAttempts
  <2>1. /\ MaxAttempts * ((lost - exits) + 1) = MaxAttempts * (lost - exits) + MaxAttempts
        /\ MaxAttempts * (lost - exits) \in Int
    BY <1>3, TimesMonotone
  <2>2. MaxAttempts * (lostNext - exits') \in Int
    BY <1>3, TimesMonotone
  <2>3. lostNext - exits' <= (lost - exits) + 1 =>
            MaxAttempts * (lostNext - exits') <= MaxAttempts * ((lost - exits) + 1)
    BY <1>3, TimesMonotone
  <2>4. lostNext - exits' <= lost - exits =>
            MaxAttempts * (lostNext - exits') <= MaxAttempts * (lost - exits)
    BY <1>3, TimesMonotone
  <2> QED BY <2>1, <2>2, <2>3, <2>4
<1>5. MaxAttempts * (lostNext - exits') + Paid' <= failures'
  <2>1. CASE Lost' \subseteq Lost /\ exits' = exits
    <3>1. lostNext - exits' <= lost - exits
      BY <1>1, <1>3, <2>1
    <3>2. \/ failures' = failures /\ Paid' = 0
          \/ failures' = failures /\ Paid' = Paid
          \/ failures' = failures + 1 /\ Paid' = Paid + 1
          \/ Paid = MaxAttempts - 1 /\ Paid' = 0 /\ failures' = failures + 1
      BY <1>3, <2>1
    <3> QED BY <1>2, <1>3, <1>4, <3>1, <3>2
  <2>2. CASE exits' = exits + 1 /\ failures' = failures /\ Paid' = 0
    <3>1. lostNext - exits' <= lost - exits
      BY <1>1, <1>3, <2>2
    <3> QED BY <1>2, <1>3, <1>4, <2>2, <3>1
  <2>3. CASE /\ Paid = MaxAttempts - 1 /\ Paid' = 0
             /\ exits' = exits /\ failures' = failures + 1
    <3>1. lostNext - exits' <= (lost - exits) + 1
      BY <1>1, <1>3, <2>3
    <3> QED BY <1>2, <1>3, <1>4, <2>3, <3>1
  <2> QED BY <2>1, <2>2, <2>3
<1> QED BY <1>1, <1>5 DEF LossOK, Paid, lostNext


\* What a step does to a message: workflows are only added, and only for the
\* one in hand; where the reader began at the beginning of the topic, the
\* group passes only the message it has fetched, and none again.
LEMMA MessageMoves ==
  ASSUME TypeOK, OnePlace, ReaderOK, FromBeginning, [Next]_vars, NEW m \in Message
  PROVE  /\ started[m] \in Nat /\ started'[m] \in Nat /\ started[m] <= started'[m]
         /\ started'[m] # started[m] => InHand(m)
         /\ Passed(m) => Passed(m)'
         /\ Passed(m)' => Passed(m) \/ (pc = "committing" /\ m = Current)
         /\ InHand(m)' => InHand(m) \/ (pc = "committing" /\ m = Current)
<1> USE DEF reader
<1>1. started[m] \in Nat
  BY DEF TypeOK
<1>2. CASE Handled \/ HandlerFails \/ Crash
  <2>1. /\ UNCHANGED <<log, committed, position, part>>
        /\ pc = "handling" => started' \in {started, OneMore}
        /\ pc # "handling" => UNCHANGED started
        /\ pc' = "handling" => pc = "handling"
    BY <1>2 DEF Handled, HandlerFails, Crash
  <2>2. Passed(m)' <=> Passed(m)
    BY <2>1, PassedSame
  <2>3. Current' = Current
    BY <2>1 DEF Current
  <2>4. started'[m] \in Nat /\ started[m] <= started'[m] /\ (started'[m] # started[m] => InHand(m))
    BY <1>1, <2>1, OneMoreOK
  <2> QED BY <1>1, <2>1, <2>2, <2>3, <2>4 DEF InHand
<1>3. CASE /\ UNCHANGED <<started, committed>> /\ pc' # "handling"
           /\ UNCHANGED log
  <2>1. Passed(m)' <=> Passed(m)
    BY <1>3, PassedSame
  <2> QED BY <1>1, <1>3, <2>1 DEF InHand
<1>4. ASSUME pc = "committing", UNCHANGED <<log, position, part, started>>,
             committed' = [committed EXCEPT ![part] = position[part]]
      PROVE  /\ started[m] \in Nat /\ started'[m] \in Nat /\ started[m] <= started'[m]
             /\ started'[m] # started[m] => InHand(m)
             /\ Passed(m) => Passed(m)'
             /\ Passed(m)' => Passed(m) \/ (pc = "committing" /\ m = Current)
             /\ InHand(m)' => InHand(m) \/ (pc = "committing" /\ m = Current)
  <2>1. (Passed(m) => Passed(m)') /\ (Passed(m)' => Passed(m) \/ m = Current)
    BY <1>4, CommitPasses
  <2>2. Current' = Current
    BY <1>4 DEF Current
  <2> QED BY <1>1, <1>4, <2>1, <2>2 DEF InHand
<1>5. ASSUME NEW n \in Message, NEW p \in Partition, Publish(n, p)
      PROVE  /\ started' = started /\ (Passed(m)' <=> Passed(m)) /\ (InHand(m)' => InHand(m))
  <2>1. UNCHANGED <<started, committed, position, part, pc>>
    BY <1>5 DEF Publish
  <2>2. Passed(m)' <=> Passed(m)
    BY <1>5, <2>1, PassedSame
  <2>3. pc = "handling" => Current' = Current
    BY <1>5, <2>1, AppendKeeps, CurrentOK DEF Current
  <2> QED BY <2>1, <2>2, <2>3 DEF InHand
<1>6. CASE UNCHANGED vars
  BY <1>1, <1>6 DEF vars, InHand, Current, Passed
<1>7. CASE Start \/ \E p \in Partition : FetchMessage(p)
  BY <1>3, <1>7 DEF Start, FetchMessage
<1>8. CASE ReadMessage \/ ReadFails
  BY <1>3, <1>4, <1>8 DEF ReadMessage, CommitMessages, ReadFails
<1> QED BY <1>1, <1>2, <1>5, <1>6, <1>7, <1>8 DEF Next, Consume

\* LossOK is kept by every step.
LEMMA LossStep ==
  ASSUME TypeOK, TypeOK', OnePlace, ReaderOK, StartsOK, LossOK, [Next]_vars
  PROVE  LossOK'
<1> SUFFICES ASSUME FromBeginning PROVE LossOK'
  BY DEF LossOK
<1> USE DEF reader
<1>1. /\ Readable \subseteq Message /\ attempt \in Nat /\ failures \in Nat /\ exits \in Nat
      /\ MaxAttempts \in Nat
  BY ConsumerConstants DEF Readable, TypeOK
<1>2. ASSUME NEW m \in Lost', ~ (pc = "committing" /\ m = Current) PROVE Passed(m) /\ started[m] = 0
  <2>1. m \in Message /\ started'[m] = 0 /\ Passed(m)'
    BY <1>1, <1>2 DEF Lost
  <2> QED BY <1>2, <2>1, MessageMoves
<1>3. ASSUME NEW m \in Lost', ~ (pc \in {"committing", "handling"} /\ m = Current) PROVE m \in Lost
  <2>1. ~ InHand(m)
    BY <1>3 DEF InHand
  <2> QED BY <1>2, <1>3, <2>1 DEF Lost
<1>4. Lost' \subseteq Lost \cup {Current}
  BY <1>3
<1>5. ASSUME NEW p \in Partition, NEW n \in Message, Publish(n, p) PROVE LossOK'
  <2>1. UNCHANGED <<pc, part, position, attempt, exits, failures>>
    BY <1>5 DEF Publish
  <2>2. pc = "handling" => Current' = Current
    BY <1>5, <2>1, AppendKeeps, CurrentOK DEF Current
  <2>3. pc # "committing" => Lost' \subseteq Lost
    BY <1>2, <2>1, <2>2 DEF Lost, InHand
  <2>4. pc = "committing" => Lost' \subseteq Lost
    <3>1. ASSUME NEW m \in Lost' PROVE Passed(m)
      BY <1>1, <1>5, PassedSame DEF Lost, Publish
    <3>2. ASSUME NEW m \in Lost', pc = "committing" PROVE m \in Lost
      BY <1>1, <1>5, <3>1, <3>2 DEF Lost, InHand, Publish
    <3> QED BY <3>2
  <2>5. Paid' = Paid
    BY <2>1 DEF Paid
  <2> QED BY <1>4, <2>1, <2>3, <2>4, <2>5, LossKept
<1>6. CASE Start \/ \E p \in Partition : FetchMessage(p)
  <2>1. pc \in {"down", "reading"} /\ pc' # "handling" /\ UNCHANGED <<exits, failures>>
    BY <1>6 DEF Start, FetchMessage
  <2>2. Lost' \subseteq Lost /\ Paid' = 0
    BY <1>3, <2>1 DEF Paid
  <2> QED BY <1>4, <2>1, <2>2, LossKept
<1>7. CASE ReadMessage
  <2>1. /\ pc = "committing" /\ attempt' = 1 /\ UNCHANGED <<exits, failures>> /\ Current' = Current
        /\ Current \notin Malformed => pc' = "handling"
    BY <1>7 DEF ReadMessage, CommitMessages, Current
  <2>2. Current \in Readable => InHand(Current)'
    BY <2>1 DEF Readable, InHand
  <2>3. ASSUME NEW m \in Lost' PROVE m # Current
    BY <2>1 DEF Lost, Readable, InHand
  <2>4. Lost' \subseteq Lost /\ Paid' = 0
    BY <1>3, <2>1, <2>3 DEF Paid
  <2> QED BY <1>4, <2>1, <2>4, LossKept
<1>8. CASE ReadFails \/ Crash
  <2>1. exits' = exits + 1 /\ failures' = failures /\ pc' = "down"
    BY <1>8 DEF ReadFails, Crash
  <2> QED BY <1>4, <2>1, LossKept DEF Paid
<1>9. CASE Handled
  <2>1. pc = "handling" /\ pc' = "reading" /\ started' = OneMore /\ UNCHANGED <<exits, failures>>
    BY <1>9 DEF Handled
  <2>2. ASSUME NEW m \in Lost' PROVE m # Current
    <3>1. m \in Message /\ started'[m] = 0
      BY <1>1 DEF Lost
    <3>2. m = Current => started'[m] = started[m] + 1 /\ started[m] \in Nat
      BY <2>1, <3>1 DEF OneMore, TypeOK
    <3> QED BY <3>1, <3>2
  <2>3. Lost' \subseteq Lost /\ Paid' = 0
    BY <1>3, <2>1, <2>2 DEF Paid
  <2> QED BY <1>4, <2>1, <2>3, LossKept
<1>10. CASE HandlerFails
  <2>1. pc = "handling" /\ failures' = failures + 1 /\ exits' = exits /\ UNCHANGED <<log, position, part>>
    BY <1>10 DEF HandlerFails
  <2>2. CASE LastAttempt
    <3>1. pc' = "reading" /\ attempt = MaxAttempts
      BY <1>10, <2>2 DEF HandlerFails, LastAttempt
    <3> QED BY <1>1, <1>4, <2>1, <3>1, LossKept DEF Paid
  <2>3. CASE ~ LastAttempt
    <3>1. pc' = "handling" /\ attempt' = attempt + 1
      BY <1>10, <2>1, <2>3 DEF HandlerFails
    <3>2. Current' = Current
      BY <2>1 DEF Current
    <3>3. ASSUME NEW m \in Lost' PROVE m # Current
      BY <3>1, <3>2 DEF Lost, InHand
    <3>4. Lost' \subseteq Lost /\ Paid' = Paid + 1
      BY <1>1, <1>3, <2>1, <3>1, <3>3 DEF Paid
    <3> QED BY <1>4, <2>1, <3>4, LossKept
  <2> QED BY <2>2, <2>3
<1>11. CASE UNCHANGED vars
  BY <1>11 DEF vars, LossOK, Lost, InHand, Current, Passed, Paid
<1> QED BY <1>5, <1>6, <1>7, <1>8, <1>9, <1>10, <1>11 DEF Next, Consume


-----------------------------------------------------------------------------
\* ConsumerInv is inductive.
LEMMA InitConsumer == Init => ConsumerInv
<1> SUFFICES ASSUME Init PROVE ConsumerInv
  OBVIOUS
<1>1. \A p \in Partition : log[p] = <<>> /\ Len(log[p]) = 0 /\ committed[p] = NoOffset /\ position[p] = 0
  BY DEF Init
<1>2. TypeOK
  <2>1. log \in [Partition -> Seq(Message)]
    BY DEF Init
  <2>2. committed \in [Partition -> Nat \cup {NoOffset}] /\ position \in [Partition -> Nat]
    BY DEF Init
  <2>3. \A p \in Partition : committed[p] <= Len(log[p]) /\ position[p] <= Len(log[p])
    BY <1>1 DEF NoOffset
  <2> QED BY <2>1, <2>2, <2>3, ConsumerConstants DEF Init, TypeOK
<1>3. OnePlace /\ ReaderOK
  BY <1>1 DEF Init, OnePlace, ReaderOK
<1>4. \A m \in Message : ~ Passed(m)
  BY <1>1 DEF Passed, NoOffset
<1>5. StartsOK
  BY <1>4, ConsumerConstants DEF Init, StartsOK, InHand
<1>6. Lost = {} /\ Readable \subseteq Message
  BY <1>4 DEF Lost, Readable
<1>7. LossOK
  <2>1. IsFiniteSet(Lost) /\ Cardinality(Lost) = 0
    BY <1>6, FS_EmptySet
  <2> QED BY <2>1, ConsumerConstants DEF Init, LossOK, Paid
<1> QED BY <1>2, <1>3, <1>5, <1>7 DEF ConsumerInv

LEMMA NextConsumer == ConsumerInv /\ [Next]_vars => ConsumerInv'
<1> SUFFICES ASSUME ConsumerInv, [Next]_vars PROVE ConsumerInv'
  OBVIOUS
<1> USE DEF ConsumerInv
<1>1. TypeOK' /\ OnePlace' /\ ReaderOK'
  BY TypeStep, PlaceStep, ReaderStep
<1>2. StartsOK'
  <2>1. CASE Handled \/ HandlerFails \/ Crash
    BY <2>1, HandlerStarts
  <2>2. CASE \/ \E m \in Message, p \in Partition : Publish(m, p)
             \/ \E p \in Partition : FetchMessage(p)
             \/ Start \/ ReadMessage \/ ReadFails \/ UNCHANGED vars
    BY <2>2, ReaderStarts
  <2> QED BY <2>1, <2>2 DEF Next, Consume
<1>3. LossOK'
  BY <1>1, LossStep
<1> QED BY <1>1, <1>2, <1>3

\* The inductive invariant holds in every state of the consumer.
THEOREM ConsumerInvariance == Spec => []ConsumerInv
BY InitConsumer, NextConsumer, PTL DEF Spec

\* TypeOK for any number of messages and partitions: neither the reader nor
\* the committed offset runs past the end of a partition.
THEOREM ConsumerTypeCorrect == Spec => []TypeOK
<1>1. ConsumerInv => TypeOK
  BY DEF ConsumerInv
<1> QED BY <1>1, ConsumerInvariance, PTL

\* A second workflow for an event needs a failed call of HandleEvent, and
\* there are never more than MaxAttempts, through any restarts.
THEOREM RepeatsBounded == Spec => []RepeatsNeedFailure
<1>1. ConsumerInv => RepeatsNeedFailure
  BY DEF ConsumerInv, StartsOK, RepeatsNeedFailure
<1> QED BY <1>1, ConsumerInvariance, PTL

\* Where the group begins at the beginning of the topic, an exit loses at
\* most the message in hand, and other losses take MaxAttempts failures each.
THEOREM LossBounded == Spec => []LossNeedsFault
<1>1. ConsumerInv => LossNeedsFault
  <2> SUFFICES ASSUME ConsumerInv, FromBeginning
               PROVE  Cardinality(Lost) <= exits + failures \div MaxAttempts
    BY DEF LossNeedsFault
  <2>1. /\ exits \in Nat /\ failures \in Nat /\ MaxAttempts \in Nat \ {0} /\ Paid \in Nat
    BY ConsumerConstants DEF ConsumerInv, TypeOK, Paid
  <2>2. Cardinality(Lost) \in Nat
    BY FS_CardinalityType DEF ConsumerInv, LossOK
  <2>3. Cardinality(Lost) - exits \in Int /\ MaxAttempts * (Cardinality(Lost) - exits) \in Int
    BY <2>1, <2>2
  <2>4. MaxAttempts * (Cardinality(Lost) - exits) <= failures
    BY <2>1, <2>3 DEF ConsumerInv, LossOK
  <2>5. Cardinality(Lost) - exits <= failures \div MaxAttempts
    BY <2>1, <2>3, <2>4, QuotientBound
  <2> QED BY <2>1, <2>2, <2>5
<1> QED BY <1>1, ConsumerInvariance, PTL


-----------------------------------------------------------------------------
\* A step of the consumer puts one readable event into the topic, settles one
\* that is there (a workflow is started for it, or it is dropped), or is
\* invisible to the channel; what is settled stays so.
LEMMA ChannelSteps ==
  ASSUME ConsumerInv, FromBeginning, [Next]_vars
  PROVE  [Leg!Next]_Leg!vars
<1> DEFINE In == Published \cap Readable
           Out == {m \in Readable : started[m] > 0} \cup Lost
<1> USE DEF ConsumerInv
<1>1. SUFFICES \/ In' = In /\ Out' = Out
               \/ \E m \in Readable \ In : In' = In \cup {m} /\ Out' = Out
               \/ \E m \in In \ Out : Out' = Out \cup {m} /\ In' = In
  BY DEF Leg!Next, Leg!vars, Leg!Accept, Leg!Deliver
<1>2. Readable \subseteq Message
  BY DEF Readable
<1>3. ASSUME NEW m \in Readable PROVE m \in Out <=> Passed(m) /\ (started[m] > 0 \/ ~ InHand(m))
  <2>1. started[m] \in Nat /\ (started[m] > 0 => Passed(m))
    BY <1>2 DEF TypeOK, StartsOK
  <2> QED BY <2>1 DEF Lost
<1>4. ASSUME NEW m \in Readable PROVE m \in Out' <=> Passed(m)' /\ (started'[m] > 0 \/ ~ InHand(m)')
  <2>1. TypeOK' /\ StartsOK'
    BY NextConsumer
  <2>2. started'[m] \in Nat /\ (started'[m] > 0 => Passed(m)')
    BY <1>2, <2>1 DEF TypeOK, StartsOK
  <2> QED BY <2>2 DEF Lost, Readable
<1>5. ASSUME NEW m \in Readable, m \in Out PROVE m \in Out'
  <2>1. Passed(m) /\ Passed(m)' /\ started[m] <= started'[m] /\ started[m] \in Nat /\ started'[m] \in Nat
    BY <1>2, <1>3, <1>5, MessageMoves
  <2>2. pc = "committing" => m # Current
    BY <2>1, FreshMessage
  <2>3. InHand(m)' => InHand(m)
    BY <1>2, <2>2, MessageMoves
  <2> QED BY <1>3, <1>4, <1>5, <2>1, <2>3
<1>6. ASSUME NEW m \in Readable, m \in Out' \ Out PROVE m = Current /\ pc \in {"committing", "handling"}
  <2>1. Passed(m)' /\ (started'[m] > 0 \/ ~ InHand(m)')
    BY <1>4, <1>6
  <2>2. CASE ~ Passed(m)
    BY <1>2, <2>1, <2>2, MessageMoves
  <2>3. CASE Passed(m)
    <3>1. InHand(m)
      BY <1>3, <1>6, <2>3
    <3> QED BY <3>1 DEF InHand
  <2> QED BY <2>2, <2>3
<1>7. Out \subseteq Readable /\ Out' \subseteq Readable
  BY DEF Lost, Readable
<1>8. pc \in {"committing", "handling"} => Current \in Published
  BY CurrentOK DEF Published, InLog, Current
<1>9. CASE UNCHANGED log
  <2>1. In' = In
    BY <1>9 DEF Published, InLog, Readable
  <2>2. CASE Out' = Out
    BY <2>1, <2>2
  <2>3. CASE Out' # Out
    <3>1. PICK m \in Readable : m \in Out' \ Out
      BY <1>5, <1>7, <2>3
    <3>2. m \in In
      BY <1>6, <1>8, <3>1
    <3>3. Out' = Out \cup {m}
      BY <1>5, <1>6, <1>7, <3>1
    <3> QED BY <2>1, <3>1, <3>2, <3>3
  <2> QED BY <2>2, <2>3
<1>10. ASSUME NEW m \in Message, NEW p \in Partition, Publish(m, p)
       PROVE  \/ In' = In /\ Out' = Out
              \/ m \in Readable \ In /\ In' = In \cup {m} /\ Out' = Out
  <2>1. m \notin Published /\ Published' = Published \cup {m}
    <3>1. \A q \in Partition : Len(log[q]) \in Nat
      BY DEF TypeOK
    <3>2. InLog(p)' = InLog(p) \cup {m} /\ \A q \in Partition \ {p} : InLog(q)' = InLog(q)
      BY <1>10, <3>1, AppendKeeps DEF InLog
    <3> QED BY <1>10, <3>2 DEF Published, Publish
  <2>2. UNCHANGED <<committed, position, part, pc, started>>
    BY <1>10 DEF Publish, reader
  <2>3. ASSUME NEW n \in Readable PROVE n \in Out' <=> n \in Out
    <3>1. Passed(n)' <=> Passed(n)
      BY <1>2, <1>10, <2>2, PassedSame
    <3>2. pc = "handling" => Current' = Current
      BY <1>10, <2>2, AppendKeeps, CurrentOK DEF Current
    <3> QED BY <1>3, <1>4, <2>2, <3>1, <3>2 DEF InHand
  <2>4. Out' = Out
    BY <1>7, <2>3
  <2>5. Readable' = Readable
    BY DEF Readable
  <2> QED BY <2>1, <2>4, <2>5
<1> HIDE DEF In, Out
<1> QED
  BY <1>9, <1>10 DEF Next, Consume, Start, FetchMessage, ReadMessage, ReadFails, Handled, HandlerFails,
     Crash, vars

\* Where the group begins at the beginning of the topic, the consumer is a
\* channel from the topic to Temporal: it settles only what is in the topic,
\* each event once and for good, through any exits and failures.  (That every
\* event is settled is checked by TLC as ImplementsChannel.)
THEOREM ConsumerIsChannel ==
  ASSUME FromBeginning
  PROVE  Spec => Leg!Spec
<1>1. Init => Leg!Init
  <2> SUFFICES ASSUME Init PROVE Leg!Init
    OBVIOUS
  <2>1. \A p \in Partition : log[p] = <<>> /\ committed[p] = NoOffset
    BY DEF Init
  <2>2. Published = {} /\ \A m \in Message : ~ Passed(m)
    BY <2>1 DEF Published, InLog, Passed, NoOffset
  <2>3. \A m \in Readable : m \in Message /\ started[m] = 0
    BY DEF Init, Readable
  <2> QED BY <2>2, <2>3 DEF Leg!Init, Lost
<1>2. ConsumerInv /\ [Next]_vars => [Leg!Next]_Leg!vars
  BY ChannelSteps
<1> QED BY <1>1, <1>2, ConsumerInvariance, PTL DEF Spec, Leg!Spec

=============================================================================
