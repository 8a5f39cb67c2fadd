----------------------------- MODULE DlqHandler -----------------------------
(***************************************************************************)
(* dlq_handler.py: operators run the script against the dead-letter queue, *)
(* each as a process of its own, to list the messages, to reprocess them   *)
(* or to see what reprocessing would do.  The queue hides a message it has *)
(* handed out until its visibility timeout expires or it is deleted.       *)
(*                                                                         *)
(* A message stands for the records NamedBy it.  What the script finds in  *)
(* its body is EventsOf it: the records embedded in a test message, none   *)
(* of them in the metadata that Lambda sends or in a body it cannot parse. *)
(*                                                                         *)
(* lost and refused are history variables, which no action looks at: the   *)
(* replies of put_records that never came, so that botocore repeated the   *)
(* call by itself, and the records no attempt of a call has accepted.      *)
(***************************************************************************)
EXTENDS Integers, FiniteSets

CONSTANTS
  Operators,        \* the runs of the script
  Messages,         \* the messages Lambda has put in the queue
  Records,          \* the Kinesis records that failed
  NamedBy,          \* the records a message stands for
  EventsOf,         \* the events _parse_dlq_message finds in a message
  MaxMessages,      \* MAX_MESSAGES
  ListLimit,        \* max_messages of list_messages
  MaxLost,          \* bound on the lost replies of put_records per message
  MaxExpiries       \* bound on the expired visibility timeouts of a message

ASSUME DlqAssumption ==
  /\ IsFiniteSet(Operators)
  /\ IsFiniteSet(Messages)
  /\ NamedBy \in [Messages -> SUBSET Records]
  /\ EventsOf \in [Messages -> SUBSET Records]
  /\ \A m \in Messages : EventsOf[m] \subseteq NamedBy[m]
  /\ \A m, n \in Messages : m # n => NamedBy[m] \cap NamedBy[n] = {}
  /\ MaxMessages \in Nat \ {0}
  /\ ListLimit \in Nat \ {0}
  /\ MaxLost \in Nat
  /\ MaxExpiries \in Nat
  /\ Operators \cap {"nobody"} = {}

VARIABLES
  queue,     \* the messages not deleted
  receiver,  \* per message: who holds it, or "nobody"
  expired,   \* per message: how often its visibility timeout has expired
  copies,    \* per record: how often it has been put in the stream
  lost,      \* per message: the lost replies to calls with its events
  refused,   \* the records that all attempts of some call were refused
  pc,        \* per operator: where the script stands
  dryRun,    \* per operator: --dry-run
  fetched,   \* per operator: how many messages list_messages has received
  got,       \* per operator: the messages received by this run
  inbox,     \* per operator: those of them not handled yet
  current    \* per operator: the message in hand, as a set of at most one

queueVars == <<queue, receiver, expired>>
streamVars == <<copies, lost, refused>>
vars == <<queueVars, streamVars, pc, dryRun, fetched, got, inbox, current>>

----------------------------------------------------------------------------
Init ==
  /\ queue = Messages
  /\ receiver = [m \in Messages |-> "nobody"]
  /\ expired = [m \in Messages |-> 0]
  /\ copies = [r \in Records |-> 0]
  /\ lost = [m \in Messages |-> 0]
  /\ refused = {}
  /\ pc = [o \in Operators |-> "idle"]
  /\ dryRun = [o \in Operators |-> FALSE]
  /\ fetched = [o \in Operators |-> 0]
  /\ got = [o \in Operators |-> {}]
  /\ inbox = [o \in Operators |-> {}]
  /\ current = [o \in Operators |-> {}]

Start(o) ==
  /\ pc[o] \in {"idle", "returned"}
  /\ \E command \in {"list", "reprocess"}, dry \in BOOLEAN :
       /\ dry => command = "reprocess"
       /\ pc' = [pc EXCEPT ![o] = command]
       /\ dryRun' = [dryRun EXCEPT ![o] = dry]
  /\ fetched' = [fetched EXCEPT ![o] = 0]
  /\ got' = [got EXCEPT ![o] = {}]
  /\ inbox' = [inbox EXCEPT ![o] = {}]
  /\ UNCHANGED <<queueVars, streamVars, current>>

Visible == {m \in queue : receiver[m] = "nobody"}

(* receive_message waits for messages, so it returns none only if there is *)
(* none to be had; otherwise the queue chooses which, and how many.        *)
Receive(o, messages, limit) ==
  /\ messages \subseteq Visible
  /\ Cardinality(messages) <= limit
  /\ messages = {} => Visible = {}
  /\ receiver' = [m \in Messages |-> IF m \in messages THEN o ELSE receiver[m]]
  /\ UNCHANGED <<queue, expired>>

(* Mutant of List: every call asks for MaxMessages.                        *)
ListPastLimit(o) ==
  /\ pc[o] = "list"
  /\ \E messages \in SUBSET Visible :
       LET total == fetched[o] + Cardinality(messages)
       IN  /\ Receive(o, messages, MaxMessages)
           /\ fetched' = [fetched EXCEPT ![o] = total]
           /\ pc' = [pc EXCEPT ![o] =
                       IF messages = {} \/ total >= ListLimit THEN "returned" ELSE "list"]
  /\ UNCHANGED <<streamVars, dryRun, got, inbox, current>>

(* list_messages goes on until it has enough or there are no more.         *)
List(o) ==
  /\ pc[o] = "list"
  /\ \E messages \in SUBSET Visible :
       LET room == ListLimit - fetched[o]
           total == fetched[o] + Cardinality(messages)
       IN  /\ Receive(o, messages, IF MaxMessages < room THEN MaxMessages ELSE room)
           /\ fetched' = [fetched EXCEPT ![o] = total]
           /\ pc' = [pc EXCEPT ![o] =
                       IF messages = {} \/ total >= ListLimit THEN "returned" ELSE "list"]
  /\ UNCHANGED <<streamVars, dryRun, got, inbox, current>>

Reprocess(o) ==
  /\ pc[o] = "reprocess"
  /\ \E messages \in SUBSET Visible :
       /\ Receive(o, messages, MaxMessages)
       /\ got' = [got EXCEPT ![o] = messages]
       /\ inbox' = [inbox EXCEPT ![o] = messages]
  /\ pc' = [pc EXCEPT ![o] = "next"]
  /\ UNCHANGED <<streamVars, dryRun, fetched, current>>

(* Mutant of Skip: what is skipped is deleted, too.                        *)
SkipAndDelete(o) ==
  /\ pc[o] = "next"
  /\ \E m \in inbox[o] :
       /\ EventsOf[m] = {} \/ dryRun[o]
       /\ inbox' = [inbox EXCEPT ![o] = @ \ {m}]
       /\ queue' = queue \ {m}
  /\ UNCHANGED <<receiver, expired, streamVars, pc, dryRun, fetched, got, current>>

(* A message without events is skipped; a dry run only counts the others.  *)
Skip(o) ==
  /\ pc[o] = "next"
  /\ \E m \in inbox[o] :
       /\ EventsOf[m] = {} \/ dryRun[o]
       /\ inbox' = [inbox EXCEPT ![o] = @ \ {m}]
  /\ UNCHANGED <<queueVars, streamVars, pc, dryRun, fetched, got, current>>

(* put_records.  When the reply is lost, botocore makes the call again: of *)
(* n + 1 attempts, each accepts what it likes.  The reply, with what was   *)
(* refused, is not looked at.                                              *)
Publish(o) ==
  /\ pc[o] = "next"
  /\ ~dryRun[o]
  /\ \E m \in inbox[o] :
       /\ EventsOf[m] # {}
       /\ inbox' = [inbox EXCEPT ![o] = @ \ {m}]
       /\ current' = [current EXCEPT ![o] = {m}]
       /\ \E n \in 0 .. MaxLost - lost[m] :
            /\ lost' = [lost EXCEPT ![m] = @ + n]
            /\ \E times \in [EventsOf[m] -> 0 .. n + 1] :
                 /\ copies' = [r \in Records |->
                                 copies[r] + IF r \in EventsOf[m] THEN times[r] ELSE 0]
                 /\ refused' = refused \cup {r \in EventsOf[m] : times[r] = 0}
  /\ pc' = [pc EXCEPT ![o] = "delete"]
  /\ UNCHANGED <<queueVars, dryRun, fetched, got>>

(* Mutant of Delete: a failed delete starts the message over.              *)
DeleteOrStartOver(o) ==
  /\ pc[o] = "delete"
  /\ \/ /\ queue' = queue \ current[o]
        /\ UNCHANGED inbox
     \/ /\ inbox' = [inbox EXCEPT ![o] = @ \cup current[o]]
        /\ UNCHANGED queue
  /\ pc' = [pc EXCEPT ![o] = "next"]
  /\ current' = [current EXCEPT ![o] = {}]
  /\ UNCHANGED <<receiver, expired, streamVars, dryRun, fetched, got>>

(* delete_message: with the handle of a receipt that another one has       *)
(* followed, the queue accepts the call and may not act on it.             *)
Delete(o) ==
  /\ pc[o] = "delete"
  /\ \/ queue' = queue \ current[o]
     \/ /\ \E m \in current[o] : receiver[m] \notin {o, "nobody"}
        /\ UNCHANGED queue
  /\ pc' = [pc EXCEPT ![o] = "next"]
  /\ current' = [current EXCEPT ![o] = {}]
  /\ UNCHANGED <<receiver, expired, streamVars, dryRun, fetched, got, inbox>>

Return(o) ==
  /\ pc[o] = "next"
  /\ inbox[o] = {}
  /\ pc' = [pc EXCEPT ![o] = "returned"]
  /\ UNCHANGED <<queueVars, streamVars, dryRun, fetched, got, inbox, current>>

(* Mutant of Dies: the error is caught and the loop goes on.               *)
GoesOn(o) ==
  /\ pc[o] = "next"
  /\ \E m \in inbox[o] : inbox' = [inbox EXCEPT ![o] = @ \ {m}]
  /\ UNCHANGED <<queueVars, streamVars, pc, dryRun, fetched, got, current>>

(* A call raises, or the operator interrupts the script.                   *)
Dies(o) ==
  /\ pc[o] \in {"list", "reprocess", "next", "delete"}
  /\ pc' = [pc EXCEPT ![o] = "idle"]
  /\ dryRun' = [dryRun EXCEPT ![o] = FALSE]
  /\ fetched' = [fetched EXCEPT ![o] = 0]
  /\ got' = [got EXCEPT ![o] = {}]
  /\ inbox' = [inbox EXCEPT ![o] = {}]
  /\ current' = [current EXCEPT ![o] = {}]
  /\ UNCHANGED <<queueVars, streamVars>>

(* The visibility timeout of a message runs out, whoever holds it.         *)
Expire(m) ==
  /\ m \in queue
  /\ receiver[m] # "nobody"
  /\ expired[m] < MaxExpiries
  /\ receiver' = [receiver EXCEPT ![m] = "nobody"]
  /\ expired' = [expired EXCEPT ![m] = @ + 1]
  /\ UNCHANGED <<queue, streamVars, pc, dryRun, fetched, got, inbox, current>>

Step(o) ==
  \/ Start(o)
  \/ List(o)
  \/ Reprocess(o)
  \/ Skip(o)
  \/ Publish(o)
  \/ Delete(o)
  \/ Return(o)
  \/ Dies(o)

Next == (\E o \in Operators : Step(o)) \/ (\E m \in Messages : Expire(m))

Spec == Init /\ [][Next]_vars

----------------------------------------------------------------------------
(* Properties                                                              *)

(* Every variable has its type.                                            *)
TypeOK ==
  /\ queue \subseteq Messages
  /\ receiver \in [Messages -> Operators \cup {"nobody"}]
  /\ expired \in [Messages -> Nat]
  /\ copies \in [Records -> Nat]
  /\ lost \in [Messages -> 0 .. MaxLost]
  /\ refused \subseteq Records
  /\ pc \in [Operators -> {"idle", "list", "reprocess", "next", "delete", "returned"}]
  /\ dryRun \in [Operators -> BOOLEAN]
  /\ fetched \in [Operators -> 0 .. ListLimit]
  /\ got \in [Operators -> SUBSET Messages]
  /\ inbox \in [Operators -> SUBSET Messages]
  /\ current \in [Operators -> SUBSET Messages]

(* A message leaves the queue only when every event found in it is back in *)
(* the stream or has been refused under the handler's eyes, whoever else   *)
(* works on the queue, however runs end and replies are lost; one in which *)
(* none is found stays.                                                    *)
LostOnlyIfRefused ==
  \A m \in Messages \ queue :
    EventsOf[m] # {} /\ \A r \in EventsOf[m] : copies[r] > 0 \/ r \in refused

(* An event is put in the stream again only after the visibility timeout   *)
(* of its message has expired, or when botocore has repeated a call whose  *)
(* reply was lost: operators working side by side, listing, dry runs and   *)
(* runs that die replay nothing twice by themselves.                       *)
ReplayedOncePerReceipt ==
  \A m \in Messages : \A r \in EventsOf[m] : copies[r] <= expired[m] + 1 + lost[m]

(* When a live run returns, it has offered the stream all the events it    *)
(* found in what it received, and has left the rest, as the metadata that  *)
(* Lambda sends, in the queue: reprocess() skips nothing it could parse.   *)
AccountedOnReturn ==
  \A o \in Operators :
    pc[o] = "returned" /\ ~dryRun[o] =>
      \A m \in got[o] :
        \/ EventsOf[m] = {} /\ m \in queue
        \/ EventsOf[m] # {} /\ \A r \in EventsOf[m] : copies[r] > 0 \/ r \in refused

(* What the comment on deleting says: after a successful re-publish.  With *)
(* a refused record it is deleted all the same.                            *)
DeletedOnlyIfReplayed ==
  \A m \in Messages \ queue :
    EventsOf[m] # {} /\ \A r \in EventsOf[m] : copies[r] > 0

(* What the module's docstring says: the handler recovers the events that  *)
(* failed.  It does not recover those Lambda only names.                   *)
RecoveredOnReturn ==
  \A o \in Operators :
    pc[o] = "returned" /\ ~dryRun[o] =>
      \A m \in got[o] : \A r \in NamedBy[m] : copies[r] > 0 \/ r \in refused

(* reprocess(): a dry run logs what would happen and makes no changes.     *)
DryRunChangesNothing ==
  [][\A o \in Operators :
       dryRun[o] /\ pc[o] \in {"reprocess", "next"} /\ pc'[o] # pc[o]
         => UNCHANGED <<queueVars, streamVars>>]_vars
=============================================================================
