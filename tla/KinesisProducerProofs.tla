----------------------- MODULE KinesisProducerProofs -----------------------
(***************************************************************************)
(* Theorems about KinesisProducer, for every list of events, chunk size    *)
(* and number of retries, and every way Kinesis may answer.                *)
(***************************************************************************)
EXTENDS KinesisProducer, FiniteSetTheorems, WellFoundedInduction, TLAPS

Sendable(n) == (1 .. n) \ Oversized

(* Every event cut into a chunk so far is acknowledged, refused or in the  *)
(* current call, and what is not acknowledged was not delivered, but for   *)
(* deliveries whose reply was lost.                                        *)
ProducerInv ==
  /\ TypeOK
  /\ sent = Cardinality(acked)
  /\ failed = Cardinality(refused)
  /\ acked \cup refused \cup records = Sendable(next)
  /\ acked \cap refused = {}
  /\ acked \cap records = {}
  /\ refused \cap records = {}
  /\ pc \in {"chunk", "returned"} => records = {}
  /\ pc = "returned" => next = NumEvents
  /\ \A i \in acked : InStream(i)
  /\ lost = 0 => \A k \in DOMAIN stream : stream[k] \subseteq acked
  /\ ResentOnlyIfReplyLost

(* Counting a set of events added to another.                              *)
LEMMA CountAdded ==
  ASSUME NEW A \in SUBSET (1 .. NumEvents), NEW B \in SUBSET (1 .. NumEvents),
         A \cap B = {}
  PROVE  /\ Cardinality(A) \in Nat
         /\ Cardinality(B) \in Nat
         /\ Cardinality(A \cup B) = Cardinality(A) + Cardinality(B)
<1>1. IsFiniteSet(1 .. NumEvents)
  BY FS_Interval, ProducerAssumption
<1>2. IsFiniteSet(A) /\ IsFiniteSet(B)
  BY <1>1, FS_Subset
<1>3. /\ Cardinality(A \cup B)
           = Cardinality(A) + Cardinality(B) - Cardinality(A \cap B)
      /\ Cardinality(A \cap B) = 0
  BY <1>2, FS_Union, FS_EmptySet
<1>4. Cardinality(A) \in Nat /\ Cardinality(B) \in Nat
  BY <1>2, FS_CardinalityType
<1> QED
  BY <1>3, <1>4

(* A delivery of fresh events: the stream keeps what it had, the events    *)
(* are in it and nothing else is.                                          *)
LEMMA Delivery ==
  ASSUME TypeOK, NEW events \in SUBSET (1 .. NumEvents), Delivered(events)
  PROVE  /\ stream' \in Seq(SUBSET (1 .. NumEvents))
         /\ \A i : InStream(i)' <=> InStream(i) \/ i \in events
<1>1. CASE events = {}
  BY <1>1 DEF Delivered, TypeOK, InStream
<1>2. CASE events # {}
  <2>1. /\ stream' = Append(stream, events)
        /\ stream \in Seq(SUBSET (1 .. NumEvents))
    BY <1>2 DEF Delivered, TypeOK
  <2>2. /\ DOMAIN stream = 1 .. Len(stream) /\ Len(stream) \in Nat
        /\ DOMAIN stream' = 1 .. (Len(stream) + 1)
        /\ \A k \in 1 .. Len(stream) : stream'[k] = stream[k]
        /\ stream'[Len(stream) + 1] = events
    BY <2>1
  <2>3. stream' \in Seq(SUBSET (1 .. NumEvents))
    BY <2>1
  <2> QED
    BY <2>2, <2>3 DEF InStream
<1> QED
  BY <1>1, <1>2

(* As long as no reply was lost, what is delivered was not there before.   *)
LEMMA FreshDelivery ==
  ASSUME ProducerInv, NEW events \in SUBSET records, Delivered(events),
         acked' = acked \cup events, lost' = lost
  PROVE  /\ lost' = 0 => \A k \in DOMAIN stream' : stream'[k] \subseteq acked'
         /\ ResentOnlyIfReplyLost'
<1> SUFFICES ASSUME lost = 0
             PROVE  /\ \A k \in DOMAIN stream' : stream'[k] \subseteq acked'
                    /\ \A k, m \in DOMAIN stream' :
                         k # m => stream'[k] \cap stream'[m] = {}
  BY DEF ResentOnlyIfReplyLost
<1>1. CASE events = {}
  BY <1>1 DEF Delivered, ProducerInv, ResentOnlyIfReplyLost
<1>2. CASE events # {}
  <2>1. stream' = Append(stream, events) /\ stream \in Seq(SUBSET (1 .. NumEvents))
    BY <1>2 DEF Delivered, ProducerInv, TypeOK
  <2>2. /\ DOMAIN stream = 1 .. Len(stream) /\ Len(stream) \in Nat
        /\ DOMAIN stream' = 1 .. (Len(stream) + 1)
        /\ \A k \in 1 .. Len(stream) : stream'[k] = stream[k]
        /\ stream'[Len(stream) + 1] = events
    BY <2>1
  <2>3. \A k \in DOMAIN stream : stream[k] \subseteq acked /\ stream[k] \cap events = {}
    BY DEF ProducerInv
  <2>4. \A k, m \in DOMAIN stream : k # m => stream[k] \cap stream[m] = {}
    BY DEF ProducerInv, ResentOnlyIfReplyLost
  <2>5. \A k \in DOMAIN stream' : stream'[k] \subseteq acked'
    BY <2>2, <2>3
  <2>6. ASSUME NEW k \in DOMAIN stream', NEW m \in DOMAIN stream', k # m
        PROVE  stream'[k] \cap stream'[m] = {}
    <3>1. CASE k \in DOMAIN stream /\ m \in DOMAIN stream
      BY <2>2, <2>4, <2>6, <3>1
    <3>2. CASE k = Len(stream) + 1
      BY <2>2, <2>3, <2>6, <3>2
    <3>3. CASE m = Len(stream) + 1
      BY <2>2, <2>3, <2>6, <3>3
    <3> QED
      BY <2>2, <3>1, <3>2, <3>3
  <2> QED
    BY <2>5, <2>6
<1> QED
  BY <1>1, <1>2

LEMMA ProducerInvInit == Init => ProducerInv
<1> SUFFICES ASSUME Init PROVE ProducerInv
  OBVIOUS
<1>1. TypeOK /\ ResentOnlyIfReplyLost
  BY ProducerAssumption DEF Init, TypeOK, ResentOnlyIfReplyLost
<1>2. Cardinality({}) = 0
  BY FS_EmptySet
<1> QED
  BY <1>1, <1>2 DEF Init, ProducerInv, Sendable

LEMMA ProducerInvStep == ProducerInv /\ [Next]_vars => ProducerInv'
<1> SUFFICES ASSUME ProducerInv, [Next]_vars PROVE ProducerInv'
  OBVIOUS
<1>1. /\ TypeOK /\ records \in SUBSET (1 .. NumEvents)
      /\ acked \in SUBSET (1 .. NumEvents) /\ refused \in SUBSET (1 .. NumEvents)
      /\ sent \in Nat /\ failed \in Nat
  BY DEF ProducerInv, TypeOK
<1>2. CASE NextChunk
  <2>1. PICK size \in 1 .. MaxBatch :
          /\ next + size <= NumEvents
          /\ next' = next + size
          /\ records' = ((next + 1) .. (next + size)) \ Oversized
    BY <1>2 DEF NextChunk
  <2>2. next \in Nat /\ next' \in 0 .. NumEvents /\ records' \subseteq 1 .. NumEvents
    BY <1>1, <2>1, ProducerAssumption DEF TypeOK
  <2>3. TypeOK'
    BY <1>1, <1>2, <2>2, ProducerAssumption DEF NextChunk, TypeOK
  <2>4. 1 .. next' = (1 .. next) \cup ((next + 1) .. (next + size))
    BY <2>1, <2>2
  <2>5. (1 .. next) \cap ((next + 1) .. (next + size)) = {}
    BY <2>1, <2>2
  <2>6. records = {} /\ pc' \in {"chunk", "put"} /\ (pc' = "chunk" => records' = {})
    BY <1>2 DEF NextChunk, ProducerInv
  <2> QED
    BY <1>2, <2>1, <2>3, <2>4, <2>5, <2>6
    DEF NextChunk, ProducerInv, Sendable, InStream, ResentOnlyIfReplyLost
<1>3. CASE Return
  BY <1>3 DEF Return, ProducerInv, TypeOK, Sendable, InStream, ResentOnlyIfReplyLost
<1>4. CASE PutSucceeds
  <2>1. /\ Cardinality(acked \cup records) = Cardinality(acked) + Cardinality(records)
        /\ Cardinality(records) \in Nat
    BY <1>1, CountAdded DEF ProducerInv
  <2>2. /\ stream' \in Seq(SUBSET (1 .. NumEvents))
        /\ \A i : InStream(i)' <=> InStream(i) \/ i \in records
    BY <1>1, <1>4, Delivery DEF PutSucceeds
  <2>3. /\ lost' = 0 => \A k \in DOMAIN stream' : stream'[k] \subseteq acked'
        /\ ResentOnlyIfReplyLost'
    BY <1>4, FreshDelivery DEF PutSucceeds
  <2>4. TypeOK'
    BY <1>1, <1>4, <2>1, <2>2 DEF PutSucceeds, TypeOK
  <2> QED
    BY <1>4, <2>1, <2>2, <2>3, <2>4 DEF PutSucceeds, ProducerInv, Sendable
<1>5. ASSUME NEW bad \in SUBSET records \ {{}}, PutPartly(bad) PROVE ProducerInv'
  <2> DEFINE ok == records \ bad
  <2>1. /\ ok \in SUBSET records /\ ok \in SUBSET (1 .. NumEvents)
        /\ acked \cap ok = {} /\ bad \subseteq records
    BY <1>1 DEF ProducerInv
  <2>2. /\ Cardinality(acked \cup ok) = Cardinality(acked) + Cardinality(ok)
        /\ Cardinality(ok) \in Nat
    BY <1>1, <2>1, CountAdded
  <2>3. /\ stream' \in Seq(SUBSET (1 .. NumEvents))
        /\ \A i : InStream(i)' <=> InStream(i) \/ i \in ok
    BY <1>1, <1>5, <2>1, Delivery DEF PutPartly
  <2>4. /\ lost' = 0 => \A k \in DOMAIN stream' : stream'[k] \subseteq acked'
        /\ ResentOnlyIfReplyLost'
    BY <1>5, <2>1, FreshDelivery DEF PutPartly
  <2>5. TypeOK'
    BY <1>1, <1>5, <2>1, <2>2, <2>3, ProducerAssumption DEF PutPartly, TypeOK
  <2> QED
    BY <1>5, <2>1, <2>2, <2>3, <2>4, <2>5 DEF PutPartly, ProducerInv, Sendable
<1>6. ASSUME NEW bad \in SUBSET records \ {{}}, PutGivesUp(bad) PROVE ProducerInv'
  <2> DEFINE ok == records \ bad
  <2>1. /\ ok \in SUBSET records /\ ok \in SUBSET (1 .. NumEvents)
        /\ acked \cap ok = {} /\ bad \subseteq records
        /\ bad \in SUBSET (1 .. NumEvents) /\ refused \cap bad = {}
    BY <1>1 DEF ProducerInv
  <2>2. /\ Cardinality(acked \cup ok) = Cardinality(acked) + Cardinality(ok)
        /\ Cardinality(ok) \in Nat
    BY <1>1, <2>1, CountAdded
  <2>3. /\ Cardinality(refused \cup bad) = Cardinality(refused) + Cardinality(bad)
        /\ Cardinality(bad) \in Nat
    BY <1>1, <2>1, CountAdded
  <2>4. /\ stream' \in Seq(SUBSET (1 .. NumEvents))
        /\ \A i : InStream(i)' <=> InStream(i) \/ i \in ok
    BY <1>1, <1>6, <2>1, Delivery DEF PutGivesUp
  <2>5. /\ lost' = 0 => \A k \in DOMAIN stream' : stream'[k] \subseteq acked'
        /\ ResentOnlyIfReplyLost'
    BY <1>6, <2>1, FreshDelivery DEF PutGivesUp
  <2>6. TypeOK'
    BY <1>1, <1>6, <2>1, <2>2, <2>3, <2>4 DEF PutGivesUp, TypeOK
  <2> QED
    BY <1>6, <2>1, <2>2, <2>3, <2>4, <2>5, <2>6 DEF PutGivesUp, ProducerInv, Sendable
<1>7. CASE Throttled
  BY <1>7, ProducerAssumption
  DEF Throttled, ProducerInv, TypeOK, Sendable, InStream, ResentOnlyIfReplyLost
<1>8. CASE ThrottledTooOften
  <2>1. /\ Cardinality(refused \cup records) = Cardinality(refused) + Cardinality(records)
        /\ Cardinality(records) \in Nat
    BY <1>1, CountAdded DEF ProducerInv
  <2>2. TypeOK'
    BY <1>1, <1>8, <2>1 DEF ThrottledTooOften, TypeOK
  <2> QED
    BY <1>8, <2>1, <2>2
    DEF ThrottledTooOften, ProducerInv, Sendable, InStream, ResentOnlyIfReplyLost
<1>9. CASE PutRaises
  BY <1>9 DEF PutRaises, ProducerInv, TypeOK, Sendable, InStream, ResentOnlyIfReplyLost
<1>10. CASE ReplyLost
  <2>1. /\ stream' \in Seq(SUBSET (1 .. NumEvents))
        /\ \A i : InStream(i)' <=> InStream(i) \/ i \in records
    BY <1>1, <1>10, Delivery DEF ReplyLost
  <2>2. lost' \in Nat /\ lost' # 0
    BY <1>1, <1>10 DEF ReplyLost, TypeOK
  <2>3. TypeOK'
    BY <1>1, <1>10, <2>1, <2>2 DEF ReplyLost, TypeOK
  <2> QED
    BY <1>10, <2>1, <2>2, <2>3 DEF ReplyLost, ProducerInv, Sendable, ResentOnlyIfReplyLost
<1>11. CASE UNCHANGED vars
  BY <1>11 DEF vars, ProducerInv, TypeOK, Sendable, InStream, ResentOnlyIfReplyLost
<1> QED
  BY <1>2, <1>3, <1>4, <1>5, <1>6, <1>7, <1>8, <1>9, <1>10, <1>11 DEF Next, Step

LEMMA ProducerCorrect == Spec => []ProducerInv
  BY ProducerInvInit, ProducerInvStep, PTL DEF Spec

(* The summary publish_batch returns is right: sent and failed count       *)
(* different events, and together all but the oversized ones.              *)
THEOREM SummaryIsRight == Spec => []CountsAreRight
<1>1. ProducerInv => CountsAreRight
  BY DEF ProducerInv, CountsAreRight, Sendable
<1> QED
  BY <1>1, ProducerCorrect, PTL

(* What is counted as sent is in the stream.                               *)
THEOREM SentIsStored == Spec => []SentAreInStream
<1>1. ProducerInv => SentAreInStream
  BY DEF ProducerInv, SentAreInStream
<1> QED
  BY <1>1, ProducerCorrect, PTL

(* The code's own retries duplicate nothing.                               *)
THEOREM RetriesDuplicateNothing == Spec => []ResentOnlyIfReplyLost
<1>1. ProducerInv => ResentOnlyIfReplyLost
  BY DEF ProducerInv
<1> QED
  BY <1>1, ProducerCorrect, PTL

(* Every variable keeps its type, and no call is tried more than           *)
(* MaxRetries times.                                                       *)
THEOREM ProducerTyped == Spec => []TypeOK
<1>1. ProducerInv => TypeOK
  BY DEF ProducerInv
<1> QED
  BY <1>1, ProducerCorrect, PTL

----------------------------------------------------------------------------
(* The order of the chunks                                                 *)

(* Chunks end at multiples of MaxBatch, so none ends between a record of   *)
(* the current call and the last event that was cut, and nothing past that *)
(* has been delivered.                                                     *)
OrderInv ==
  /\ next # NumEvents => \E c \in Nat : next = c * MaxBatch
  /\ \A i \in records : \A c \in Nat : ~(i <= c * MaxBatch /\ c * MaxBatch < next)
  /\ \A k \in DOMAIN stream : \A i \in stream[k] : i <= next
  /\ ChunksInOrder

(* No multiple of n lies strictly between two consecutive ones.            *)
LEMMA NoMultipleBetween ==
  ASSUME NEW n \in Nat \ {0}, NEW a \in Nat, NEW b \in Nat, a * n < b * n
  PROVE  a * n + n <= b * n
<1>1. a < b
  <2> SUFFICES ASSUME b <= a PROVE FALSE
    OBVIOUS
  <2>1. (a - b) * n >= 0 /\ (a - b) * n = a * n - b * n
    OBVIOUS
  <2> QED
    BY <2>1
<1>2. (b - a - 1) * n >= 0 /\ (b - a - 1) * n = b * n - a * n - n
  BY <1>1
<1> QED
  BY <1>2

(* Another delivery of records of the current call keeps the order.        *)
LEMMA DeliveryInOrder ==
  ASSUME ProducerInv, OrderInv, NEW events \in SUBSET records, Delivered(events),
         next' = next
  PROVE  /\ (\A k \in DOMAIN stream : \A i \in stream[k] : i <= next)'
         /\ ChunksInOrder'
<1>1. CASE events = {}
  BY <1>1 DEF Delivered, OrderInv, ChunksInOrder
<1>2. CASE events # {}
  <2>1. stream' = Append(stream, events) /\ stream \in Seq(SUBSET (1 .. NumEvents))
    BY <1>2 DEF Delivered, ProducerInv, TypeOK
  <2>2. /\ DOMAIN stream = 1 .. Len(stream) /\ Len(stream) \in Nat
        /\ DOMAIN stream' = 1 .. (Len(stream) + 1)
        /\ \A k \in 1 .. Len(stream) : stream'[k] = stream[k]
        /\ stream'[Len(stream) + 1] = events
    BY <2>1
  <2>3. next \in Nat /\ \A i \in events : i \in Nat /\ i <= next
    BY DEF ProducerInv, TypeOK, Sendable
  <2>4. \A k \in DOMAIN stream' : \A i \in stream'[k] : i <= next
    BY <2>2, <2>3 DEF OrderInv
  <2>5. ASSUME NEW i \in events, NEW m \in DOMAIN stream', NEW j \in stream'[m],
               InEarlierChunk(i, j)
        PROVE  FALSE
    <3>1. PICK c \in 1 .. NumEvents : i <= c * MaxBatch /\ c * MaxBatch < j
      BY <2>5 DEF InEarlierChunk
    <3>2. j <= next /\ j \in Nat /\ c \in Nat /\ c * MaxBatch \in Nat
      BY <2>1, <2>2, <2>3, <2>4, ProducerAssumption
    <3>3. c * MaxBatch < next
      BY <2>3, <3>1, <3>2
    <3> QED
      BY <3>1, <3>2, <3>3 DEF OrderInv
  <2>6. ASSUME NEW k \in DOMAIN stream', NEW m \in DOMAIN stream',
               NEW i \in stream'[k], NEW j \in stream'[m], InEarlierChunk(i, j)
        PROVE  k < m
    <3>1. CASE k = Len(stream) + 1
      BY <2>2, <2>5, <2>6, <3>1
    <3>2. CASE k \in DOMAIN stream /\ m = Len(stream) + 1
      BY <2>2, <3>2
    <3>3. CASE k \in DOMAIN stream /\ m \in DOMAIN stream
      BY <2>2, <2>6, <3>3 DEF OrderInv, ChunksInOrder
    <3> QED
      BY <2>2, <3>1, <3>2, <3>3
  <2>7. ChunksInOrder'
    BY <2>6 DEF ChunksInOrder, InEarlierChunk
  <2> QED
    BY <2>4, <2>7
<1> QED
  BY <1>1, <1>2

LEMMA OrderInvStep == ProducerInv /\ OrderInv /\ [Next]_vars => OrderInv'
<1> SUFFICES ASSUME ProducerInv, OrderInv, [Next]_vars PROVE OrderInv'
  OBVIOUS
<1>1. CASE NextChunk
  <2>1. PICK size \in 1 .. MaxBatch :
          /\ next + size <= NumEvents
          /\ size = MaxBatch \/ next + size = NumEvents
          /\ next' = next + size
          /\ records' = ((next + 1) .. (next + size)) \ Oversized
    BY <1>1 DEF NextChunk
  <2>2. next \in Nat /\ MaxBatch \in Nat \ {0} /\ NumEvents \in Nat /\ size \in Nat
    BY <2>1, ProducerAssumption DEF ProducerInv, TypeOK
  <2>3. PICK c0 \in Nat : next = c0 * MaxBatch
    BY <2>1, <2>2 DEF OrderInv
  <2>4. next' # NumEvents => \E c \in Nat : next' = c * MaxBatch
    <3>1. (c0 + 1) * MaxBatch = c0 * MaxBatch + MaxBatch
      BY <2>2
    <3> QED
      BY <2>1, <2>3, <3>1
  <2>5. ASSUME NEW i \in records', NEW c \in Nat,
               i <= c * MaxBatch, c * MaxBatch < next'
        PROVE  FALSE
    <3>1. c0 * MaxBatch < c * MaxBatch
      BY <2>1, <2>2, <2>3, <2>5
    <3>2. c0 * MaxBatch + MaxBatch <= c * MaxBatch
      BY <2>2, <3>1, NoMultipleBetween
    <3> QED
      BY <2>1, <2>2, <2>3, <2>5, <3>2
  <2>6. ASSUME NEW k \in DOMAIN stream, NEW i \in stream[k] PROVE i <= next'
    <3>1. i <= next /\ i \in Nat
      BY <2>6 DEF OrderInv, ProducerInv, TypeOK
    <3> QED
      BY <2>1, <2>2, <3>1
  <2>7. stream' = stream
    BY <1>1 DEF NextChunk
  <2> QED
    BY <2>4, <2>5, <2>6, <2>7 DEF OrderInv, ChunksInOrder, InEarlierChunk
<1>2. CASE PutSucceeds
  BY <1>2, DeliveryInOrder DEF PutSucceeds, OrderInv
<1>3. ASSUME NEW bad \in SUBSET records \ {{}}, PutPartly(bad) PROVE OrderInv'
  <2>1. records \ bad \in SUBSET records /\ bad \subseteq records
    OBVIOUS
  <2> QED
    BY <1>3, <2>1, DeliveryInOrder DEF PutPartly, OrderInv
<1>4. ASSUME NEW bad \in SUBSET records \ {{}}, PutGivesUp(bad) PROVE OrderInv'
  <2>1. records \ bad \in SUBSET records
    OBVIOUS
  <2> QED
    BY <1>4, <2>1, DeliveryInOrder DEF PutGivesUp, OrderInv
<1>5. CASE ReplyLost
  BY <1>5, DeliveryInOrder DEF ReplyLost, OrderInv
<1>6. CASE Return \/ Throttled \/ PutRaises \/ UNCHANGED vars
  BY <1>6 DEF Return, Throttled, PutRaises, vars, OrderInv, ChunksInOrder, InEarlierChunk
<1>7. CASE ThrottledTooOften
  BY <1>7 DEF ThrottledTooOften, OrderInv, ChunksInOrder, InEarlierChunk
<1> QED
  BY <1>1, <1>2, <1>3, <1>4, <1>5, <1>6, <1>7 DEF Next, Step

LEMMA OrderInvInit == Init => OrderInv
<1> SUFFICES ASSUME Init PROVE OrderInv
  OBVIOUS
<1>1. next = 0 * MaxBatch /\ 0 \in Nat
  BY ProducerAssumption DEF Init
<1>2. records = {} /\ DOMAIN stream = {}
  BY DEF Init
<1> QED
  BY <1>1, <1>2 DEF OrderInv, ChunksInOrder

(* Whatever is refused, throttled or sent twice, no delivery of an event   *)
(* of a later chunk precedes one of an earlier chunk.                      *)
THEOREM ChunksStayInOrder == Spec => []ChunksInOrder
<1>1. OrderInv => ChunksInOrder
  BY DEF OrderInv
<1> QED
  BY <1>1, OrderInvInit, OrderInvStep, ProducerCorrect, PTL DEF Spec

----------------------------------------------------------------------------
(* The refinement                                                          *)

(* Nothing that is too large is ever delivered.                            *)
OnlySendable == \A i \in 1 .. NumEvents : InStream(i) => i \notin Oversized

(* A step that delivers records of the current call is a delivery of the   *)
(* abstract publication.                                                   *)
LEMMA DeliveryIsDeliver ==
  ASSUME ProducerInv, OnlySendable, NEW events \in SUBSET records, Delivered(events),
         pc = "put", pc' \in {"chunk", "put"}
  PROVE  OnlySendable' /\ Contract!Deliver
<1>1. events \in SUBSET (1 .. NumEvents) /\ records \subseteq (1 .. NumEvents) \ Oversized
  BY ProducerAssumption DEF ProducerInv, TypeOK, Sendable
<1>2. \A i : InStream(i)' <=> InStream(i) \/ i \in events
  BY <1>1, Delivery DEF ProducerInv
<1>3. OnlySendable'
  BY <1>1, <1>2 DEF OnlySendable
<1>4. \A i \in 1 .. NumEvents : InStream(i) => InStream(i)'
  BY <1>2
<1>5. {i \in 1 .. NumEvents : InStream(i)}' \subseteq (1 .. NumEvents) \ Oversized
  BY <1>3 DEF OnlySendable
<1>6. {i \in 1 .. NumEvents : InStream(i)} \subseteq {i \in 1 .. NumEvents : InStream(i)}'
  BY <1>4
<1>7. pc \in {"chunk", "put"} /\ pc' \in {"chunk", "put"} /\ pc # "returned" /\ pc' # "returned"
  OBVIOUS
<1> QED
  BY <1>3, <1>5, <1>6, <1>7 DEF Contract!Deliver

(* The other steps of the call leave what the abstract one sees unchanged. *)
LEMMA SilentStep ==
  ASSUME OnlySendable, stream' = stream,
         pc \in {"chunk", "put"}, pc' \in {"chunk", "put"}
  PROVE  OnlySendable' /\ UNCHANGED Contract!vars
<1>1. \A i : InStream(i)' <=> InStream(i)
  BY DEF InStream
<1>2. {i \in 1 .. NumEvents : InStream(i)}' = {i \in 1 .. NumEvents : InStream(i)}
  BY <1>1
<1>3. pc # "returned" /\ pc' # "returned"
  OBVIOUS
<1> QED
  BY <1>1, <1>2, <1>3 DEF OnlySendable, Contract!vars

LEMMA StepRefines ==
  ASSUME ProducerInv, OnlySendable, [Next]_vars
  PROVE  OnlySendable' /\ [Contract!Next]_(Contract!vars)
<1>1. CASE NextChunk
  BY <1>1, SilentStep DEF NextChunk
<1>2. CASE Return
  <2>1. /\ stream' = stream /\ acked' = acked /\ pc = "chunk" /\ pc' = "returned"
        /\ sent' = sent /\ failed' = failed /\ next = NumEvents
    BY <1>2 DEF Return
  <2>2. \A i : InStream(i)' <=> InStream(i)
    BY <2>1 DEF InStream
  <2>3. {i \in 1 .. NumEvents : InStream(i)}' = {i \in 1 .. NumEvents : InStream(i)}
    BY <2>2
  <2>4. acked \in SUBSET {i \in 1 .. NumEvents : InStream(i)}
    BY DEF ProducerInv, TypeOK
  <2>5. /\ refused = ((1 .. NumEvents) \ Oversized) \ acked
        /\ sent = Cardinality(acked) /\ failed = Cardinality(refused)
    BY <2>1 DEF ProducerInv, Sendable
  <2>6. [sent |-> sent', failed |-> failed'] = Contract!SummaryOf(acked)
    BY <2>1, <2>5
    DEF Contract!SummaryOf, Contract!Cardinality, Contract!IsFiniteSet,
        Cardinality, IsFiniteSet
  <2>7. Contract!Return
    BY <2>1, <2>3, <2>4, <2>6 DEF Contract!Return
  <2> QED
    BY <2>2, <2>7 DEF OnlySendable, Contract!Next
<1>3. CASE PutSucceeds
  BY <1>3, DeliveryIsDeliver DEF PutSucceeds, Contract!Next
<1>4. ASSUME NEW bad \in SUBSET records \ {{}}, PutPartly(bad) \/ PutGivesUp(bad)
      PROVE  OnlySendable' /\ Contract!Deliver
  <2>1. /\ records \ bad \in SUBSET records /\ Delivered(records \ bad)
        /\ pc = "put" /\ pc' \in {"chunk", "put"}
    BY <1>4 DEF PutPartly, PutGivesUp
  <2> QED
    BY <2>1, DeliveryIsDeliver
<1>5. CASE Throttled
  BY <1>5, SilentStep DEF Throttled
<1>6. CASE ThrottledTooOften
  BY <1>6, SilentStep DEF ThrottledTooOften
<1>7. CASE PutRaises
  <2>1. stream' = stream /\ pc = "put" /\ pc' = "raised"
    BY <1>7 DEF PutRaises
  <2>2. \A i : InStream(i)' <=> InStream(i)
    BY <2>1 DEF InStream
  <2>3. {i \in 1 .. NumEvents : InStream(i)}' = {i \in 1 .. NumEvents : InStream(i)}
    BY <2>2
  <2>4. Contract!Raise
    BY <2>1, <2>3 DEF Contract!Raise
  <2> QED
    BY <2>2, <2>4 DEF OnlySendable, Contract!Next
<1>8. CASE ReplyLost
  BY <1>8, DeliveryIsDeliver DEF ReplyLost, Contract!Next
<1>9. CASE UNCHANGED vars
  <2>1. \A i : InStream(i)' <=> InStream(i)
    BY <1>9 DEF vars, InStream
  <2>2. {i \in 1 .. NumEvents : InStream(i)}' = {i \in 1 .. NumEvents : InStream(i)}
    BY <2>1
  <2> QED
    BY <1>9, <2>1, <2>2 DEF vars, OnlySendable, Contract!vars
<1> QED
  BY <1>1, <1>2, <1>3, <1>4, <1>5, <1>6, <1>7, <1>8, <1>9 DEF Next, Step, Contract!Next

(* publish_batch implements the publication its caller counts on.          *)
THEOREM ProducerImplementsPublication == Spec => ImplementsPublication
<1>1. Init => OnlySendable /\ Contract!Init
  <2> SUFFICES ASSUME Init PROVE OnlySendable /\ Contract!Init
    OBVIOUS
  <2>1. \A i : ~InStream(i)
    BY DEF Init, InStream
  <2>2. {i \in 1 .. NumEvents : InStream(i)} = {} /\ pc = "chunk"
    BY <2>1 DEF Init
  <2> QED
    BY <2>1, <2>2 DEF OnlySendable, Contract!Init, Contract!NoSummary
<1>2. ProducerInv /\ OnlySendable /\ [Next]_vars
        => OnlySendable' /\ [Contract!Next]_(Contract!vars)
  BY StepRefines
<1> QED
  BY <1>1, <1>2, ProducerCorrect, PTL DEF Spec, ImplementsPublication, Contract!Spec

----------------------------------------------------------------------------
(* The order within a chunk                                                *)

(* With a delivery of an event come all of its chunk before it.            *)
Whole(events) ==
  \A i, j \in 1 .. NumEvents :
    i < j /\ j \in events /\ i \notin Oversized /\ ~InEarlierChunk(i, j) => i \in events

(* Calls are refused as a whole or not at all: then the records of a call  *)
(* are a whole chunk, at every attempt.                                    *)
WholeInv ==
  /\ OnlySendable
  /\ Whole(records)
  /\ \A k \in DOMAIN stream : Whole(stream[k])

(* What NextChunk cuts is a whole chunk, but for what is too large.        *)
LEMMA CutWhole ==
  ASSUME ProducerInv, OrderInv, NextChunk
  PROVE  Whole(records)'
<1>1. PICK size \in 1 .. MaxBatch :
        /\ next + size <= NumEvents
        /\ size = MaxBatch \/ next + size = NumEvents
        /\ next' = next + size
        /\ records' = ((next + 1) .. (next + size)) \ Oversized
  BY DEF NextChunk
<1>2. next \in Nat /\ MaxBatch \in Nat \ {0} /\ NumEvents \in Nat /\ size \in Nat
  BY <1>1, ProducerAssumption DEF ProducerInv, TypeOK
<1>3. PICK c \in Nat : next = c * MaxBatch
  BY <1>1, <1>2 DEF OrderInv
<1>4. c <= c * MaxBatch
  <2>1. c * (MaxBatch - 1) >= 0 /\ c * (MaxBatch - 1) = c * MaxBatch - c
    BY <1>2
  <2> QED
    BY <1>2, <2>1
<1>5. ASSUME NEW i \in 1 .. NumEvents, NEW j \in 1 .. NumEvents,
             i < j, j \in records', i \notin Oversized, i \notin records'
      PROVE  InEarlierChunk(i, j)
  <2>1. i <= next /\ next < j
    BY <1>1, <1>2, <1>5
  <2>2. c \in 1 .. NumEvents
    <3>1. c # 0
      BY <1>2, <1>3, <1>5, <2>1
    <3> QED
      BY <1>1, <1>2, <1>3, <1>4, <3>1
  <2> QED
    BY <1>3, <2>1, <2>2 DEF InEarlierChunk
<1> QED
  BY <1>5 DEF Whole, InEarlierChunk

(* A delivery of a whole chunk.                                            *)
LEMMA DeliveryWhole ==
  ASSUME ProducerInv, WholeInv, Delivered(records)
  PROVE  (\A k \in DOMAIN stream : Whole(stream[k]))'
<1>1. CASE records = {}
  BY <1>1 DEF Delivered, WholeInv, Whole, InEarlierChunk
<1>2. CASE records # {}
  <2>1. stream' = Append(stream, records) /\ stream \in Seq(SUBSET (1 .. NumEvents))
    BY <1>2 DEF Delivered, ProducerInv, TypeOK
  <2>2. /\ DOMAIN stream = 1 .. Len(stream) /\ Len(stream) \in Nat
        /\ DOMAIN stream' = 1 .. (Len(stream) + 1)
        /\ \A k \in 1 .. Len(stream) : stream'[k] = stream[k]
        /\ stream'[Len(stream) + 1] = records
    BY <2>1
  <2>3. \A k \in DOMAIN stream' : k \in DOMAIN stream \/ k = Len(stream) + 1
    BY <2>2
  <2> QED
    BY <2>2, <2>3 DEF WholeInv, Whole, InEarlierChunk
<1> QED
  BY <1>1, <1>2

LEMMA WholeInvStep ==
  ASSUME ~PartialFailures, ProducerInv, OrderInv, WholeInv, [Next]_vars, OnlySendable'
  PROVE  WholeInv'
<1>1. Whole({})
  BY DEF Whole
<1>2. CASE NextChunk
  <2>1. stream' = stream
    BY <1>2 DEF NextChunk
  <2> QED
    BY <1>2, <2>1, CutWhole DEF WholeInv, Whole, InEarlierChunk
<1>3. CASE PutSucceeds
  BY <1>1, <1>3, DeliveryWhole DEF PutSucceeds, WholeInv, Whole, InEarlierChunk
<1>4. CASE ReplyLost
  BY <1>4, DeliveryWhole DEF ReplyLost, WholeInv, Whole, InEarlierChunk
<1>5. CASE ThrottledTooOften
  BY <1>1, <1>5 DEF ThrottledTooOften, WholeInv, Whole, InEarlierChunk
<1>6. CASE Return \/ Throttled \/ PutRaises \/ UNCHANGED vars
  BY <1>6 DEF Return, Throttled, PutRaises, vars, WholeInv, Whole, InEarlierChunk
<1> QED
  BY <1>2, <1>3, <1>4, <1>5, <1>6 DEF Next, Step, PutPartly, PutGivesUp

(* An event in the stream has a first delivery, and FirstDelivery is it.   *)
LEMMA FirstDeliveryIs ==
  ASSUME TypeOK, NEW i, InStream(i)
  PROVE  /\ FirstDelivery(i) \in DOMAIN stream
         /\ i \in stream[FirstDelivery(i)]
         /\ \A k \in DOMAIN stream : i \in stream[k] => FirstDelivery(i) <= k
<1> DEFINE Of == {k \in DOMAIN stream : i \in stream[k]}
<1>1. DOMAIN stream = 1 .. Len(stream) /\ Len(stream) \in Nat
  BY DEF TypeOK
<1>2. PICK k \in Of : \A m \in Of : ~(<<m, k>> \in OpToRel(<, Nat))
  <2>1. Of \subseteq Nat /\ Of # {}
    BY <1>1 DEF InStream
  <2> QED
    BY <2>1, NatLessThanWellFounded, WFMin
<1>3. \A m \in 1 .. (k - 1) : i \notin stream[m]
  <2> SUFFICES ASSUME NEW m \in 1 .. (k - 1), i \in stream[m] PROVE FALSE
    OBVIOUS
  <2>1. m \in Of /\ m \in Nat /\ k \in Nat /\ m < k
    BY <1>1
  <2> QED
    BY <1>2, <2>1 DEF OpToRel
<1>4. /\ FirstDelivery(i) \in DOMAIN stream /\ i \in stream[FirstDelivery(i)]
      /\ \A m \in 1 .. (FirstDelivery(i) - 1) : i \notin stream[m]
  BY <1>3 DEF FirstDelivery
<1> QED
  BY <1>1, <1>4

(* kinesis_producer.py's promise of one order per user holds as far as     *)
(* Kinesis refuses calls as a whole only, throttling and lost replies      *)
(* included; MCKinesisProducer_x_order shows that a partial one breaks it. *)
THEOREM WholeCallsKeepUserOrder ==
  ASSUME ~PartialFailures
  PROVE  Spec => []UserOrderKept
<1> DEFINE Inv == ProducerInv /\ OrderInv /\ WholeInv
<1>1. Init => WholeInv
  BY DEF Init, WholeInv, Whole, OnlySendable, InStream
<1>2. Inv /\ [Next]_vars => WholeInv'
  BY StepRefines, WholeInvStep DEF WholeInv
<1>3. ASSUME Inv PROVE UserOrderKept
  <2> SUFFICES ASSUME NEW i \in 1 .. NumEvents, NEW j \in 1 .. NumEvents,
                      i < j, InStream(i), InStream(j)
               PROVE  FirstDelivery(i) <= FirstDelivery(j)
    BY DEF UserOrderKept
  <2> DEFINE k == FirstDelivery(i)
             m == FirstDelivery(j)
  <2>1. /\ k \in DOMAIN stream /\ i \in stream[k]
        /\ m \in DOMAIN stream /\ j \in stream[m]
        /\ \A n \in DOMAIN stream : i \in stream[n] => k <= n
    BY <1>3, FirstDeliveryIs DEF ProducerInv
  <2>2. k \in Nat /\ m \in Nat
    BY <1>3, <2>1 DEF ProducerInv, TypeOK
  <2> HIDE DEF k, m
  <2>3. ASSUME InEarlierChunk(i, j) PROVE k <= m
    <3>1. k < m
      BY <1>3, <2>1, <2>3 DEF OrderInv, ChunksInOrder
    <3> QED
      BY <2>2, <3>1
  <2>4. ASSUME ~InEarlierChunk(i, j) PROVE k <= m
    <3>1. i \in stream[m]
      BY <1>3, <2>1, <2>4 DEF WholeInv, Whole, OnlySendable
    <3> QED
      BY <2>1, <3>1
  <2> QED
    BY <2>3, <2>4 DEF k, m
<1> QED
  BY <1>1, <1>2, <1>3, OrderInvInit, OrderInvStep, ProducerCorrect, PTL DEF Spec

----------------------------------------------------------------------------
(* Progress                                                                *)

(* How many steps publish_batch has left at most: the cut of each chunk to *)
(* come and its calls, those of the current chunk, the lost replies, and   *)
(* the return.                                                             *)
StepsLeft ==
  (NumEvents - next) * (MaxRetries + 2)
    + (IF pc = "put" THEN MaxRetries + 1 - attempt ELSE 0)
    + (IF pc \in {"chunk", "put"} THEN 1 ELSE 0)
    + (MaxLostReplies - lost)

(* publish_batch cannot retry for ever: whatever Kinesis answers, each of  *)
(* its steps leaves it fewer.  Terminates follows, as the thread goes on.  *)
THEOREM RetriesRunOut ==
  Spec => [](StepsLeft \in Nat) /\ [][StepsLeft' < StepsLeft]_vars
<1> DEFINE Inv == ProducerInv /\ lost <= MaxLostReplies
<1> DEFINE Shrinks == vars' = vars \/ StepsLeft' < StepsLeft
<1>1. Init => lost <= MaxLostReplies
  BY ProducerAssumption DEF Init
<1>2. ASSUME Inv, [Next]_vars PROVE (lost <= MaxLostReplies)'
  <2>1. \A bad : PutPartly(bad) \/ PutGivesUp(bad) => lost' = lost
    BY DEF PutPartly, PutGivesUp
  <2>2. \/ NextChunk \/ Return \/ PutSucceeds \/ Throttled \/ ThrottledTooOften \/ PutRaises
        \/ UNCHANGED vars
        => lost' = lost
    BY DEF NextChunk, Return, PutSucceeds, Throttled, ThrottledTooOften, PutRaises, vars
  <2>3. ReplyLost => lost < MaxLostReplies /\ lost' = lost + 1
    BY DEF ReplyLost
  <2>4. lost' = lost \/ (lost < MaxLostReplies /\ lost' = lost + 1)
    BY <1>2, <2>1, <2>2, <2>3 DEF Next, Step
  <2>5. lost \in Nat
    BY <1>2 DEF ProducerInv, TypeOK
  <2> QED
    BY <1>2, <2>4, <2>5, ProducerAssumption
<1>3. ASSUME Inv PROVE StepsLeft \in Nat
  <2>1. /\ NumEvents - next \in Nat /\ MaxRetries + 2 \in Nat
        /\ MaxLostReplies - lost \in Nat /\ MaxRetries + 1 - attempt \in Nat
    BY <1>3, ProducerAssumption DEF ProducerInv, TypeOK
  <2>2. (NumEvents - next) * (MaxRetries + 2) \in Nat
    BY <2>1
  <2> QED
    BY <2>1, <2>2 DEF StepsLeft
<1>4. ASSUME Inv, [Next]_vars PROVE Shrinks
  <2> DEFINE rest == (NumEvents - next) * (MaxRetries + 2)
  <2>1. /\ NumEvents \in Nat /\ next \in Nat /\ MaxRetries \in Nat /\ attempt \in Nat
        /\ attempt <= MaxRetries /\ MaxLostReplies \in Nat /\ lost \in Nat
        /\ rest \in Int
    BY <1>4, ProducerAssumption DEF ProducerInv, TypeOK
  <2>2. ASSUME next' = next PROVE rest' = rest
    BY <2>2
  <2>3. CASE NextChunk
    <3>1. PICK size \in 1 .. MaxBatch : next' = next + size
      BY <2>3 DEF NextChunk
    <3>2. size \in Nat /\ size >= 1
      BY <3>1, ProducerAssumption
    <3>3. rest' = rest - size * (MaxRetries + 2)
      BY <2>1, <3>1, <3>2
    <3>4. size * (MaxRetries + 2) >= MaxRetries + 2 /\ size * (MaxRetries + 2) \in Nat
      <4>1. /\ (size - 1) * (MaxRetries + 2) >= 0
            /\ (size - 1) * (MaxRetries + 2) = size * (MaxRetries + 2) - (MaxRetries + 2)
        BY <2>1, <3>2
      <4> QED
        BY <2>1, <3>2, <4>1
    <3>5. /\ pc = "chunk" /\ pc' \in {"chunk", "put"} /\ attempt' = 0 /\ lost' = lost
      BY <2>3 DEF NextChunk
    <3> HIDE DEF rest
    <3>6. /\ StepsLeft = rest + 1 + (MaxLostReplies - lost)
          /\ StepsLeft' <= rest' + (MaxRetries + 1) + 1 + (MaxLostReplies - lost)
      BY <2>1, <3>3, <3>4, <3>5 DEF StepsLeft, rest
    <3>7. rest' \in Int /\ StepsLeft' \in Int
      BY <2>1, <3>3, <3>4, <3>5 DEF StepsLeft, rest
    <3> QED
      BY <2>1, <3>3, <3>4, <3>6, <3>7
  <2> HIDE DEF rest
  <2>4. CASE Return \/ PutRaises
    <3>1. /\ pc \in {"chunk", "put"} /\ pc' \in {"returned", "raised"}
          /\ rest' = rest /\ lost' = lost
      BY <2>2, <2>4 DEF Return, PutRaises
    <3> QED
      BY <2>1, <3>1 DEF StepsLeft, rest
  <2>5. ASSUME \/ PutSucceeds \/ ThrottledTooOften
               \/ \E bad \in SUBSET records \ {{}} : PutGivesUp(bad)
        PROVE  Shrinks
    <3>1. pc = "put" /\ pc' = "chunk" /\ rest' = rest /\ lost' = lost
      BY <2>2, <2>5 DEF PutSucceeds, ThrottledTooOften, PutGivesUp
    <3> QED
      BY <2>1, <3>1 DEF StepsLeft, rest
  <2>6. ASSUME Throttled \/ \E bad \in SUBSET records \ {{}} : PutPartly(bad)
        PROVE  Shrinks
    <3>1. /\ pc = "put" /\ pc' = "put" /\ rest' = rest /\ lost' = lost
          /\ attempt' = attempt + 1
      BY <2>2, <2>6 DEF Throttled, PutPartly
    <3> QED
      BY <2>1, <3>1 DEF StepsLeft, rest
  <2>7. CASE ReplyLost
    <3>1. /\ pc = "put" /\ pc' = "put" /\ rest' = rest /\ attempt' = attempt
          /\ lost' = lost + 1
      BY <2>2, <2>7 DEF ReplyLost
    <3> QED
      BY <2>1, <3>1 DEF StepsLeft, rest
  <2>8. CASE UNCHANGED vars
    BY <2>8
  <2> QED
    BY <1>4, <2>3, <2>4, <2>5, <2>6, <2>7, <2>8 DEF Next, Step
<1>5. Inv /\ [Next]_vars => [StepsLeft' < StepsLeft]_vars
  BY <1>4
<1> QED
  BY <1>1, <1>2, <1>3, <1>5, ProducerCorrect, PTL DEF Spec
============================================================================
