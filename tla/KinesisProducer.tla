-------------------------- MODULE KinesisProducer --------------------------
(***************************************************************************)
(* One call of KinesisProducer.publish_batch: the events are cut into      *)
(* chunks, each chunk is sent with put_records and what Kinesis refuses is *)
(* sent again, up to MaxRetries times.  Events are numbered in the order   *)
(* of the list; those of one chunk that a call delivers reach the stream   *)
(* in that order.                                                          *)
(***************************************************************************)
EXTENDS Integers, Sequences, FiniteSets

CONSTANTS
  NumEvents,        \* len(events)
  UserOf,           \* the user of each event: its partition key
  Oversized,        \* the events whose payload exceeds 1 MB
  MaxBatch,         \* MAX_BATCH_SIZE
  MaxRetries,       \* MAX_RETRIES
  PartialFailures,  \* may Kinesis refuse some records of a call?
  MaxLostReplies    \* bound on deliveries whose reply is lost

ASSUME ProducerAssumption ==
  /\ NumEvents \in Nat
  /\ Oversized \subseteq 1 .. NumEvents
  /\ MaxBatch \in Nat \ {0}
  /\ MaxRetries \in Nat
  /\ PartialFailures \in BOOLEAN
  /\ MaxLostReplies \in Nat

VARIABLES
  pc,       \* "chunk", "put", "returned" or "raised"
  next,     \* how many events have been cut into chunks
  records,  \* the records of the current put_records call
  attempt,  \* its retry count
  sent,     \* total_sent
  failed,   \* total_failed
  stream,   \* what reached Kinesis: the events of each delivering call
  acked,    \* history: the events Kinesis acknowledged
  refused,  \* history: the events given up after the last retry
  lost      \* deliveries whose reply was lost so far

vars == <<pc, next, records, attempt, sent, failed, stream, acked, refused, lost>>

----------------------------------------------------------------------------
Init ==
  /\ pc = "chunk"
  /\ next = 0
  /\ records = {}
  /\ attempt = 0
  /\ sent = 0
  /\ failed = 0
  /\ stream = << >>
  /\ acked = {}
  /\ refused = {}
  /\ lost = 0

(* Mutant of NextChunk: the chunks are cut from the end of the list.       *)
LastChunk ==
  /\ pc = "chunk"
  /\ \E size \in 1 .. MaxBatch :
       /\ next + size <= NumEvents
       /\ size = MaxBatch \/ next + size = NumEvents
       /\ next' = next + size
       /\ records' = ((NumEvents - next - size + 1) .. (NumEvents - next)) \ Oversized
  /\ attempt' = 0
  /\ pc' = IF records' = {} THEN "chunk" ELSE "put"
  /\ UNCHANGED <<sent, failed, stream, acked, refused, lost>>

(* _build_records skips what is too large; an empty call returns at once.  *)
NextChunk ==
  /\ pc = "chunk"
  /\ \E size \in 1 .. MaxBatch :
       /\ next + size <= NumEvents
       /\ size = MaxBatch \/ next + size = NumEvents
       /\ next' = next + size
       /\ records' = ((next + 1) .. (next + size)) \ Oversized
  /\ attempt' = 0
  /\ pc' = IF records' = {} THEN "chunk" ELSE "put"
  /\ UNCHANGED <<sent, failed, stream, acked, refused, lost>>

Return ==
  /\ pc = "chunk"
  /\ next = NumEvents
  /\ pc' = "returned"
  /\ UNCHANGED <<next, records, attempt, sent, failed, stream, acked, refused, lost>>

Delivered(events) ==
  stream' = IF events = {} THEN stream ELSE Append(stream, events)

(* The whole call is accepted.                                             *)
PutSucceeds ==
  /\ pc = "put"
  /\ Delivered(records)
  /\ sent' = sent + Cardinality(records)
  /\ acked' = acked \cup records
  /\ records' = {}
  /\ pc' = "chunk"
  /\ UNCHANGED <<next, attempt, failed, refused, lost>>

(* Mutant of PutPartly: the refused ones count as sent, too.                *)
PutPartlyCountsAll(bad) ==
  /\ PartialFailures
  /\ pc = "put"
  /\ attempt < MaxRetries
  /\ Delivered(records \ bad)
  /\ sent' = sent + Cardinality(records)
  /\ acked' = acked \cup (records \ bad)
  /\ records' = bad
  /\ attempt' = attempt + 1
  /\ UNCHANGED <<pc, next, failed, refused, lost>>

(* Mutant of PutPartly: the accepted ones are sent again.                   *)
PutPartlyInverted(bad) ==
  /\ PartialFailures
  /\ pc = "put"
  /\ attempt < MaxRetries
  /\ Delivered(records \ bad)
  /\ sent' = sent + Cardinality(bad)
  /\ acked' = acked \cup bad
  /\ records' = records \ bad
  /\ attempt' = attempt + 1
  /\ UNCHANGED <<pc, next, failed, refused, lost>>

(* Mutant of PutPartly: the whole call is repeated.                         *)
PutPartlyResendsAll(bad) ==
  /\ PartialFailures
  /\ pc = "put"
  /\ attempt < MaxRetries
  /\ Delivered(records \ bad)
  /\ sent' = sent + Cardinality(records \ bad)
  /\ acked' = acked \cup (records \ bad)
  /\ UNCHANGED records
  /\ attempt' = attempt + 1
  /\ UNCHANGED <<pc, next, failed, refused, lost>>

(* Some records carry an error code: they alone are sent again ...         *)
PutPartly(bad) ==
  /\ PartialFailures
  /\ pc = "put"
  /\ attempt < MaxRetries
  /\ Delivered(records \ bad)
  /\ sent' = sent + Cardinality(records \ bad)
  /\ acked' = acked \cup (records \ bad)
  /\ records' = bad
  /\ attempt' = attempt + 1
  /\ UNCHANGED <<pc, next, failed, refused, lost>>

(* ... unless this was the last retry.                                     *)
PutGivesUp(bad) ==
  /\ PartialFailures
  /\ pc = "put"
  /\ attempt >= MaxRetries
  /\ Delivered(records \ bad)
  /\ sent' = sent + Cardinality(records \ bad)
  /\ failed' = failed + Cardinality(bad)
  /\ acked' = acked \cup (records \ bad)
  /\ refused' = refused \cup bad
  /\ records' = {}
  /\ pc' = "chunk"
  /\ UNCHANGED <<next, attempt, lost>>

(* Mutant of Throttled: one retry too many.                                *)
ThrottledOnceMore ==
  /\ pc = "put"
  /\ attempt <= MaxRetries
  /\ attempt' = attempt + 1
  /\ UNCHANGED <<pc, next, records, sent, failed, stream, acked, refused, lost>>

(* The call is throttled as a whole.                                       *)
Throttled ==
  /\ pc = "put"
  /\ attempt < MaxRetries
  /\ attempt' = attempt + 1
  /\ UNCHANGED <<pc, next, records, sent, failed, stream, acked, refused, lost>>

(* Mutant of ThrottledTooOften: the retries start over.                    *)
ThrottledForever ==
  /\ pc = "put"
  /\ attempt >= MaxRetries
  /\ attempt' = 0
  /\ UNCHANGED <<pc, next, records, sent, failed, stream, acked, refused, lost>>

(* Mutant of ThrottledTooOften: the chunk is given up without a count.     *)
ThrottledSilently ==
  /\ pc = "put"
  /\ attempt >= MaxRetries
  /\ records' = {}
  /\ pc' = "chunk"
  /\ UNCHANGED <<next, attempt, sent, failed, stream, acked, refused, lost>>

ThrottledTooOften ==
  /\ pc = "put"
  /\ attempt >= MaxRetries
  /\ failed' = failed + Cardinality(records)
  /\ refused' = refused \cup records
  /\ records' = {}
  /\ pc' = "chunk"
  /\ UNCHANGED <<next, attempt, sent, stream, acked, lost>>

(* Any other ClientError leaves publish_batch, its counts and the rest of  *)
(* the events.                                                             *)
PutRaises ==
  /\ pc = "put"
  /\ pc' = "raised"
  /\ UNCHANGED <<next, records, attempt, sent, failed, stream, acked, refused, lost>>

(* Kinesis stores the records but the reply is lost: botocore repeats the  *)
(* request on its own and the code sees only the outcome of the repeat.    *)
ReplyLost ==
  /\ pc = "put"
  /\ lost < MaxLostReplies
  /\ lost' = lost + 1
  /\ Delivered(records)
  /\ UNCHANGED <<pc, next, records, attempt, sent, failed, acked, refused>>

Step ==
  \/ NextChunk
  \/ Return
  \/ PutSucceeds
  \/ \E bad \in SUBSET records \ {{}} : PutPartly(bad) \/ PutGivesUp(bad)
  \/ Throttled
  \/ ThrottledTooOften
  \/ PutRaises
  \/ ReplyLost

Next == Step

Spec == Init /\ [][Next]_vars

(* The producer is a single thread that keeps running.                     *)
FairSpec == Spec /\ WF_vars(Step)

----------------------------------------------------------------------------
(* Properties                                                              *)

(* Every variable has its type; the retries of a call are bounded.         *)
TypeOK ==
  /\ pc \in {"chunk", "put", "returned", "raised"}
  /\ next \in 0 .. NumEvents
  /\ records \in SUBSET (1 .. NumEvents)
  /\ attempt \in 0 .. MaxRetries
  /\ sent \in Nat
  /\ failed \in Nat
  /\ stream \in Seq(SUBSET (1 .. NumEvents))
  /\ acked \in SUBSET (1 .. NumEvents)
  /\ refused \in SUBSET (1 .. NumEvents)
  /\ lost \in Nat

InStream(i) == \E k \in DOMAIN stream : i \in stream[k]

(* The summary is right, whatever was throttled or refused and however     *)
(* often: when the call returns, sent counts events that are all in the    *)
(* stream, failed counts the others but for the oversized ones, and no     *)
(* event is counted twice.                                                 *)
CountsAreRight ==
  /\ sent = Cardinality(acked)
  /\ failed = Cardinality(refused)
  /\ acked \cap refused = {}
  /\ pc = "returned" => acked \cup refused = (1 .. NumEvents) \ Oversized

(* What counts as sent is in the stream: the reply's error codes are       *)
(* matched with the records they are about.                                *)
SentAreInStream == \A i \in acked : InStream(i)

(* A record is delivered again only when a reply was lost: retries after   *)
(* refusals and throttling send nothing twice.                             *)
ResentOnlyIfReplyLost ==
  lost = 0 =>
    \A k, m \in DOMAIN stream : k # m => stream[k] \cap stream[m] = {}

(* Whatever is refused, throttled or sent twice, the chunks reach the      *)
(* stream in their order: no delivery of an event of a later chunk comes   *)
(* before one of an earlier chunk.  Within a chunk it may.                 *)
InEarlierChunk(i, j) ==
  \E c \in 1 .. NumEvents : i <= c * MaxBatch /\ c * MaxBatch < j
ChunksInOrder ==
  \A k, m \in DOMAIN stream :
    \A i \in stream[k], j \in stream[m] : InEarlierChunk(i, j) => k < m

(* publish_batch keeps the promise its caller counts on: it delivers only  *)
(* events of the batch, takes none back, and its summary is true of what   *)
(* is in the stream, whether records were refused, throttled or delivered  *)
(* by a call whose reply was lost.                                         *)
Contract == INSTANCE Publication WITH
  Sendable <- (1 .. NumEvents) \ Oversized,
  status <- IF pc \in {"chunk", "put"} THEN "running" ELSE pc,
  delivered <- {i \in 1 .. NumEvents : InStream(i)},
  summary <- IF pc = "returned"
               THEN [sent |-> sent, failed |-> failed]
               ELSE [sent |-> 0, failed |-> 0]

ImplementsPublication == Contract!Spec

(* However Kinesis answers, publish_batch comes to an end.                 *)
Terminates == <>(pc \in {"returned", "raised"})

(* What the repository says and the code does not do.                      *)

(* kinesis_producer.py: one user's events keep their order.  (They do when *)
(* calls are refused as a whole only.)                                     *)
FirstDelivery(i) ==
  CHOOSE k \in DOMAIN stream : i \in stream[k] /\ \A m \in 1 .. (k - 1) : i \notin stream[m]
UserOrderKept ==
  \A i, j \in 1 .. NumEvents :
    i < j /\ UserOf[i] = UserOf[j] /\ InStream(i) /\ InStream(j)
      => FirstDelivery(i) <= FirstDelivery(j)
============================================================================
