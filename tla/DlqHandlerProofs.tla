-------------------------- MODULE DlqHandlerProofs --------------------------
(***************************************************************************)
(* Theorems about DlqHandler, for any number of operators and messages.    *)
(***************************************************************************)
EXTENDS DlqHandler, FiniteSetTheorems, TLAPS

(* The messages a call of receive_message hands out can be counted.        *)
LEMMA ReceivedCount ==
  ASSUME TypeOK, NEW messages \in SUBSET Visible
  PROVE  Cardinality(messages) \in Nat /\ messages \subseteq Messages
<1>1. messages \subseteq Messages
  BY DEF TypeOK, Visible
<1> QED
  BY <1>1, DlqAssumption, FS_Subset, FS_CardinalityType

LEMMA ReceiveTyped ==
  ASSUME TypeOK, NEW o \in Operators, NEW messages \in SUBSET Visible,
         NEW limit, Receive(o, messages, limit)
  PROVE  /\ receiver' \in [Messages -> Operators \cup {"nobody"}]
         /\ queue' = queue /\ expired' = expired
BY DEF TypeOK, Receive

(* Publish, in parts: the message it takes, and what of it gets where.     *)
Accepted(m, times) ==
  /\ copies' = [r \in Records |-> copies[r] + IF r \in EventsOf[m] THEN times[r] ELSE 0]
  /\ refused' = refused \cup {r \in EventsOf[m] : times[r] = 0}

Attempts(o, m, n) ==
  /\ EventsOf[m] # {}
  /\ inbox' = [inbox EXCEPT ![o] = @ \ {m}]
  /\ current' = [current EXCEPT ![o] = {m}]
  /\ lost' = [lost EXCEPT ![m] = @ + n]
  /\ \E times \in [EventsOf[m] -> 0 .. n + 1] : Accepted(m, times)

LEMMA PublishAttempts ==
  ASSUME NEW o \in Operators, Publish(o)
  PROVE  \E m \in inbox[o], n \in Nat : n <= MaxLost - lost[m] /\ Attempts(o, m, n)
<1>1. PICK m \in inbox[o] : \E n \in 0 .. MaxLost - lost[m] : Attempts(o, m, n)
  BY Zenon DEF Publish, Attempts, Accepted
<1>2. PICK n \in 0 .. MaxLost - lost[m] : Attempts(o, m, n)
  BY <1>1
<1>3. m \in inbox[o] /\ n \in Nat /\ n <= MaxLost - lost[m]
  BY Z3
<1> QED
  BY <1>2, <1>3

LEMMA TypeInit == Init => TypeOK
BY DlqAssumption DEF Init, TypeOK

LEMMA TypeStep == TypeOK /\ [Next]_vars => TypeOK'
<1> SUFFICES ASSUME TypeOK, [Next]_vars PROVE TypeOK'
  OBVIOUS
<1> USE DEF TypeOK, streamVars
<1>1. ASSUME NEW o \in Operators, Start(o) PROVE TypeOK'
  BY <1>1, DlqAssumption DEF Start, queueVars, streamVars
<1>2. ASSUME NEW o \in Operators, List(o) PROVE TypeOK'
  <2>1. PICK messages \in SUBSET Visible :
          LET room == ListLimit - fetched[o]
              total == fetched[o] + Cardinality(messages)
          IN  /\ Receive(o, messages, IF MaxMessages < room THEN MaxMessages ELSE room)
              /\ fetched' = [fetched EXCEPT ![o] = total]
              /\ pc' = [pc EXCEPT ![o] =
                          IF messages = {} \/ total >= ListLimit THEN "returned" ELSE "list"]
    BY <1>2 DEF List
  <2>2. Cardinality(messages) \in Nat
    BY ReceivedCount
  <2>3. /\ receiver' \in [Messages -> Operators \cup {"nobody"}]
        /\ queue' = queue /\ expired' = expired
    BY <2>1, ReceiveTyped
  <2>4. fetched[o] + Cardinality(messages) \in 0 .. ListLimit
    <3>1. Cardinality(messages) <= IF MaxMessages < ListLimit - fetched[o]
                                   THEN MaxMessages ELSE ListLimit - fetched[o]
      BY <2>1 DEF Receive
    <3> QED
      BY <3>1, <2>2, DlqAssumption
  <2> QED
    BY <1>2, <2>1, <2>3, <2>4 DEF List
<1>3. ASSUME NEW o \in Operators, Reprocess(o) PROVE TypeOK'
  <2>1. PICK messages \in SUBSET Visible :
          /\ Receive(o, messages, MaxMessages)
          /\ got' = [got EXCEPT ![o] = messages]
          /\ inbox' = [inbox EXCEPT ![o] = messages]
    BY <1>3 DEF Reprocess
  <2>2. /\ receiver' \in [Messages -> Operators \cup {"nobody"}]
        /\ queue' = queue /\ expired' = expired
    BY <2>1, ReceiveTyped
  <2>3. messages \subseteq Messages
    BY ReceivedCount
  <2> QED
    BY <1>3, <2>1, <2>2, <2>3 DEF Reprocess
<1>4. ASSUME NEW o \in Operators, Skip(o) PROVE TypeOK'
  BY <1>4 DEF Skip, queueVars
<1>5. ASSUME NEW o \in Operators, Publish(o) PROVE TypeOK'
  <2>1. PICK m \in inbox[o], n \in Nat : n <= MaxLost - lost[m] /\ Attempts(o, m, n)
    BY <1>5, PublishAttempts
  <2>2. m \in Messages /\ EventsOf[m] \subseteq Records
    BY DlqAssumption
  <2>3. lost' \in [Messages -> 0 .. MaxLost]
    BY <2>1, <2>2, DlqAssumption DEF Attempts
  <2>4. PICK times \in [EventsOf[m] -> 0 .. n + 1] : Accepted(m, times)
    BY <2>1 DEF Attempts
  <2>5. copies' \in [Records -> Nat] /\ refused' \subseteq Records
    BY <2>2, <2>4 DEF Accepted
  <2> QED
    BY <1>5, <2>1, <2>2, <2>3, <2>5 DEF Publish, Attempts, queueVars
<1>6. ASSUME NEW o \in Operators, Delete(o) PROVE TypeOK'
  BY <1>6 DEF Delete, queueVars
<1>7. ASSUME NEW o \in Operators, Return(o) PROVE TypeOK'
  BY <1>7 DEF Return, queueVars
<1>8. ASSUME NEW o \in Operators, Dies(o) PROVE TypeOK'
  BY <1>8, DlqAssumption DEF Dies, queueVars
<1>9. ASSUME NEW m \in Messages, Expire(m) PROVE TypeOK'
  BY <1>9 DEF Expire
<1>10. CASE UNCHANGED vars
  BY <1>10 DEF vars, queueVars
<1> QED
  BY <1>1, <1>2, <1>3, <1>4, <1>5, <1>6, <1>7, <1>8, <1>9, <1>10 DEF Next, Step

(* Every variable has its type, for any number of operators and messages,  *)
(* with partial failures, runs that die and timeouts that expire.          *)
THEOREM TypeCorrect == Spec => []TypeOK
<1> QED
  BY TypeInit, TypeStep, PTL DEF Spec

(* What the script has put in the stream stays there.                      *)
LEMMA CopiesGrow ==
  ASSUME TypeOK, [Next]_vars, NEW r \in Records
  PROVE  copies[r] \in Nat /\ copies'[r] \in Nat /\ copies'[r] >= copies[r]
<1>1. copies[r] \in Nat
  BY DEF TypeOK
<1>2. ASSUME NEW o \in Operators, Publish(o)
      PROVE  copies'[r] \in Nat /\ copies'[r] >= copies[r]
  <2>1. PICK m \in inbox[o], n \in Nat : n <= MaxLost - lost[m] /\ Attempts(o, m, n)
    BY <1>2, PublishAttempts
  <2>2. PICK times \in [EventsOf[m] -> 0 .. n + 1] : Accepted(m, times)
    BY <2>1 DEF Attempts
  <2> QED
    BY <1>1, <2>2 DEF Accepted
<1>3. CASE UNCHANGED copies
  BY <1>1, <1>3
<1> QED
  BY <1>1, <1>2, <1>3
     DEF Next, Step, Start, List, Reprocess, Skip, Delete, Return, Dies, Expire, vars, streamVars

----------------------------------------------------------------------------
(* A message in hand has been published, and one that is not in the queue  *)
(* any more has been in hand.                                              *)

Settled(r) == copies[r] > 0 \/ r \in refused
Offered(m) == EventsOf[m] # {} /\ \A r \in EventsOf[m] : Settled(r)

DeletedInv ==
  /\ TypeOK
  /\ \A m \in Messages \ queue : Offered(m)
  /\ \A o \in Operators : \A m \in current[o] : Offered(m)

(* What is refused stays refused.                                          *)
LEMMA RefusedGrow ==
  ASSUME [Next]_vars
  PROVE  refused \subseteq refused'
<1>1. ASSUME NEW o \in Operators, Publish(o) PROVE refused \subseteq refused'
  BY <1>1, PublishAttempts DEF Attempts, Accepted
<1> QED
  BY <1>1
     DEF Next, Step, Start, List, Reprocess, Skip, Delete, Return, Dies, Expire, vars, streamVars

LEMMA OfferedStays ==
  ASSUME TypeOK, [Next]_vars, NEW m \in Messages, Offered(m)
  PROVE  Offered(m)'
<1>1. EventsOf[m] \subseteq Records
  BY DlqAssumption
<1>2. \A r \in EventsOf[m] : copies[r] \in Nat /\ copies'[r] \in Nat /\ copies'[r] >= copies[r]
  BY <1>1, CopiesGrow
<1> QED
  BY <1>2, RefusedGrow DEF Offered, Settled

(* Each event of the published message is accepted at least once or is     *)
(* refused by every attempt.                                               *)
LEMMA PublishOffers ==
  ASSUME TypeOK, NEW o \in Operators, Publish(o)
  PROVE  \E m \in inbox[o] :
           /\ m \in Messages
           /\ current' = [current EXCEPT ![o] = {m}]
           /\ inbox' = [inbox EXCEPT ![o] = @ \ {m}]
           /\ Offered(m)'
<1>1. PICK m \in inbox[o], n \in Nat : n <= MaxLost - lost[m] /\ Attempts(o, m, n)
  BY PublishAttempts
<1>2. PICK times \in [EventsOf[m] -> 0 .. n + 1] : Accepted(m, times)
  BY <1>1 DEF Attempts
<1>3. m \in Messages /\ EventsOf[m] \subseteq Records
  BY DlqAssumption DEF TypeOK
<1>4. ASSUME NEW r \in EventsOf[m] PROVE copies'[r] > 0 \/ r \in refused'
  BY <1>2, <1>3 DEF Accepted, TypeOK
<1>5. Offered(m)'
  BY <1>1, <1>4 DEF Offered, Settled, Attempts
<1> QED
  BY <1>1, <1>3, <1>5 DEF Attempts

LEMMA DeletedStep ==
  ASSUME DeletedInv, [Next]_vars
  PROVE  DeletedInv'
<1>1. TypeOK /\ TypeOK'
  BY TypeStep DEF DeletedInv
<1>2. ASSUME NEW m \in Messages, Offered(m) PROVE Offered(m)'
  BY <1>1, <1>2, OfferedStays
<1>3. \A o \in Operators : current[o] \subseteq Messages
  BY <1>1 DEF TypeOK
<1>4. CASE UNCHANGED <<queue, current>>
  BY <1>1, <1>2, <1>3, <1>4 DEF DeletedInv
<1>5. ASSUME NEW o \in Operators, Publish(o) PROVE DeletedInv'
  <2>1. PICK m \in Messages : current' = [current EXCEPT ![o] = {m}] /\ Offered(m)'
    BY <1>1, <1>5, PublishOffers
  <2>2. queue' = queue
    BY <1>5 DEF Publish, queueVars
  <2>3. ASSUME NEW p \in Operators, NEW n \in current'[p] PROVE Offered(n)'
    BY <1>1, <1>2, <1>3, <2>1, <2>3 DEF DeletedInv, TypeOK
  <2> QED
    BY <1>1, <1>2, <2>2, <2>3 DEF DeletedInv
<1>6. ASSUME NEW o \in Operators, Delete(o) PROVE DeletedInv'
  <2>1. queue' = queue \ current[o] \/ queue' = queue
    BY <1>6 DEF Delete
  <2>2. current' = [current EXCEPT ![o] = {}]
    BY <1>6 DEF Delete
  <2>3. \A p \in Operators : current'[p] \subseteq current[p]
    BY <1>1, <2>2 DEF TypeOK
  <2>4. ASSUME NEW m \in Messages \ queue' PROVE Offered(m)'
    BY <1>2, <2>1, <2>4 DEF DeletedInv
  <2> QED
    BY <1>1, <1>2, <1>3, <2>3, <2>4 DEF DeletedInv
<1>7. ASSUME NEW o \in Operators, Dies(o) PROVE DeletedInv'
  <2>1. queue' = queue /\ \A p \in Operators : current'[p] \subseteq current[p]
    BY <1>1, <1>7 DEF Dies, queueVars, TypeOK
  <2> QED
    BY <1>1, <1>2, <1>3, <2>1 DEF DeletedInv
<1>8. ASSUME NEW o \in Operators, List(o) \/ Reprocess(o) PROVE UNCHANGED <<queue, current>>
  BY <1>8 DEF List, Reprocess, Receive
<1> QED
  BY <1>4, <1>5, <1>6, <1>7, <1>8
     DEF Next, Step, Start, Skip, Return, Expire, queueVars, vars

(* A message leaves the queue only when all that was found in it is back   *)
(* in the stream or has been refused in a reply that nobody looked at: the *)
(* refusals are the only way to lose an event here, however many operators *)
(* there are, whatever is lost and repeated and wherever they die.         *)
THEOREM LossesAreRefusals == Spec => []LostOnlyIfRefused
<1>1. Init => DeletedInv
  BY TypeInit DEF Init, DeletedInv
<1>2. DeletedInv /\ [Next]_vars => DeletedInv'
  BY DeletedStep
<1>3. DeletedInv => LostOnlyIfRefused
  BY DEF DeletedInv, LostOnlyIfRefused, Offered, Settled
<1> QED
  BY <1>1, <1>2, <1>3, PTL DEF Spec

----------------------------------------------------------------------------
(* An event goes to the stream once for each run that has its message in   *)
(* the inbox and for each reply that is lost, and a message gets into      *)
(* another inbox only after it expired.                                    *)

Holders(m) == {o \in Operators : m \in inbox[o]}
Open(m) == IF receiver[m] = "nobody" THEN 1 ELSE 0

ReceiptInv ==
  /\ TypeOK
  /\ \A o \in Operators : pc[o] = "reprocess" => inbox[o] = {}
  /\ \A m \in Messages : \A r \in EventsOf[m] :
       copies[r] + Cardinality(Holders(m)) + Open(m) <= expired[m] + 1 + lost[m]

LEMMA HoldersFinite ==
  ASSUME NEW m, NEW f
  PROVE  LET H == {o \in Operators : m \in f[o]}
         IN  IsFiniteSet(H) /\ Cardinality(H) \in Nat
BY DlqAssumption, FS_Subset, FS_CardinalityType

(* Inboxes that only lose messages have no more holders than before.       *)
LEMMA FewerHolders ==
  ASSUME TypeOK, TypeOK', NEW m \in Messages,
         \A o \in Operators : inbox'[o] \subseteq inbox[o]
  PROVE  /\ Cardinality(Holders(m)) \in Nat /\ Cardinality(Holders(m))' \in Nat
         /\ Cardinality(Holders(m))' <= Cardinality(Holders(m))
<1>1. Holders(m)' \subseteq Holders(m)
  BY DEF Holders
<1>2. IsFiniteSet(Holders(m)) /\ Cardinality(Holders(m)) \in Nat
  BY HoldersFinite DEF Holders
<1> QED
  BY <1>1, <1>2, FS_Subset, FS_CardinalityType

(* ... so the bound stays if nothing else of it changes for the worse.     *)
LEMMA BoundStays ==
  ASSUME ReceiptInv, TypeOK', UNCHANGED <<copies, lost, expired>>,
         NEW m \in Messages,
         \A o \in Operators : inbox'[o] \subseteq inbox[o],
         receiver[m] # "nobody" => receiver'[m] # "nobody"
  PROVE  \A r \in EventsOf[m] :
           copies'[r] + Cardinality(Holders(m))' + Open(m)' <= expired'[m] + 1 + lost'[m]
<1>1. TAKE r \in EventsOf[m]
<1>2. copies[r] \in Nat /\ expired[m] \in Nat /\ lost[m] \in Nat
  BY DlqAssumption DEF ReceiptInv, TypeOK
<1>3. /\ Cardinality(Holders(m)) \in Nat /\ Cardinality(Holders(m))' \in Nat
      /\ Cardinality(Holders(m))' <= Cardinality(Holders(m))
  BY FewerHolders DEF ReceiptInv
<1>4. copies[r] + Cardinality(Holders(m)) + Open(m) <= expired[m] + 1 + lost[m]
  BY DEF ReceiptInv
<1>5. Open(m)' <= Open(m) /\ Open(m) \in Nat /\ Open(m)' \in Nat
  BY DEF Open
<1> QED
  BY <1>2, <1>3, <1>4, <1>5

LEMMA ReceiptStep == ReceiptInv /\ [Next]_vars => ReceiptInv'
<1> SUFFICES ASSUME ReceiptInv, [Next]_vars PROVE ReceiptInv'
  OBVIOUS
<1>1. TypeOK /\ TypeOK'
  BY TypeStep DEF ReceiptInv
<1>2. ASSUME UNCHANGED <<copies, lost, expired>>,
             \A o \in Operators : inbox'[o] \subseteq inbox[o],
             \A m \in Messages : receiver[m] # "nobody" => receiver'[m] # "nobody",
             \A o \in Operators : pc'[o] = "reprocess" => inbox'[o] = {}
      PROVE  ReceiptInv'
  BY <1>1, <1>2, BoundStays DEF ReceiptInv
<1>3. ASSUME NEW o \in Operators, Start(o) PROVE ReceiptInv'
  BY <1>1, <1>2, <1>3 DEF Start, queueVars, streamVars, streamVars, ReceiptInv, TypeOK
<1>4. ASSUME NEW o \in Operators, List(o) PROVE ReceiptInv'
  <2>1. PICK messages \in SUBSET Visible :
          /\ receiver' = [m \in Messages |-> IF m \in messages THEN o ELSE receiver[m]]
          /\ UNCHANGED <<queue, expired, streamVars>>
    BY <1>4 DEF List, Receive
  <2>2. \A m \in Messages : receiver[m] # "nobody" => receiver'[m] # "nobody"
    BY <2>1, DlqAssumption
  <2>3. \A p \in Operators : pc'[p] = "reprocess" => pc[p] = "reprocess"
    BY <1>1, <1>4 DEF List, TypeOK
  <2> QED
    BY <1>2, <1>4, <2>1, <2>2, <2>3 DEF List, ReceiptInv, streamVars
<1>5. ASSUME NEW o \in Operators, Reprocess(o) PROVE ReceiptInv'
  <2>1. PICK messages \in SUBSET Visible :
          /\ receiver' = [m \in Messages |-> IF m \in messages THEN o ELSE receiver[m]]
          /\ UNCHANGED <<queue, expired, copies, lost>>
          /\ inbox' = [inbox EXCEPT ![o] = messages]
          /\ pc' = [pc EXCEPT ![o] = "next"]
    BY <1>5 DEF Reprocess, Receive, streamVars
  <2>2. inbox[o] = {}
    BY <1>5 DEF Reprocess, ReceiptInv
  <2>3. \A p \in Operators : pc'[p] = "reprocess" => inbox'[p] = {}
    BY <1>1, <2>1 DEF TypeOK, ReceiptInv
  <2>4. ASSUME NEW m \in Messages, NEW r \in EventsOf[m]
        PROVE  copies'[r] + Cardinality(Holders(m))' + Open(m)' <= expired'[m] + 1 + lost'[m]
    <3>1. copies[r] \in Nat /\ expired[m] \in Nat /\ lost[m] \in Nat
      BY <1>1, DlqAssumption DEF TypeOK
    <3>2. copies[r] + Cardinality(Holders(m)) + Open(m) <= expired[m] + 1 + lost[m]
      BY DEF ReceiptInv
    <3>3. IsFiniteSet(Holders(m)) /\ Cardinality(Holders(m)) \in Nat
      BY HoldersFinite DEF Holders
    <3>4. CASE m \in messages
      <4>1. Holders(m)' = Holders(m) \cup {o} /\ o \notin Holders(m)
        BY <1>1, <2>1, <2>2, <3>4 DEF Holders, TypeOK
      <4>2. Cardinality(Holders(m))' = Cardinality(Holders(m)) + 1
        BY <3>3, <4>1, FS_AddElement
      <4>3. Open(m) = 1 /\ Open(m)' = 0
        BY <2>1, <3>4, DlqAssumption DEF Open, Visible
      <4> QED
        BY <2>1, <3>1, <3>2, <3>3, <4>2, <4>3
    <3>5. CASE m \notin messages
      <4>1. Holders(m)' = Holders(m)
        BY <1>1, <2>1, <2>2, <3>5 DEF Holders, TypeOK
      <4>2. Open(m)' = Open(m)
        BY <2>1, <3>5 DEF Open
      <4> QED
        BY <2>1, <3>2, <4>1, <4>2
    <3> QED
      BY <3>4, <3>5
  <2> QED
    BY <1>1, <2>3, <2>4 DEF ReceiptInv
<1>6. ASSUME NEW o \in Operators, Skip(o) PROVE ReceiptInv'
  BY <1>1, <1>2, <1>6 DEF Skip, queueVars, streamVars, ReceiptInv, TypeOK
<1>7. ASSUME NEW o \in Operators, Publish(o) PROVE ReceiptInv'
  <2>0. PICK m \in inbox[o], k \in Nat : k <= MaxLost - lost[m] /\ Attempts(o, m, k)
    BY <1>7, PublishAttempts
  <2>1. /\ inbox' = [inbox EXCEPT ![o] = @ \ {m}]
        /\ lost' = [lost EXCEPT ![m] = @ + k]
    BY <2>0 DEF Attempts
  <2>10. PICK times \in [EventsOf[m] -> 0 .. k + 1] :
           copies' = [r \in Records |-> copies[r] + IF r \in EventsOf[m] THEN times[r] ELSE 0]
    BY <2>0 DEF Attempts, Accepted
  <2>2. m \in Messages
    BY <1>1 DEF TypeOK
  <2>3. UNCHANGED <<receiver, expired>> /\ pc' = [pc EXCEPT ![o] = "delete"]
    BY <1>7 DEF Publish, queueVars
  <2>4. \A p \in Operators : pc'[p] = "reprocess" => inbox'[p] = {}
    BY <1>1, <2>1, <2>3 DEF TypeOK, ReceiptInv
  <2>5. ASSUME NEW n \in Messages, NEW r \in EventsOf[n]
        PROVE  copies'[r] + Cardinality(Holders(n))' + Open(n)' <= expired'[n] + 1 + lost'[n]
    <3>1. r \in Records /\ copies[r] \in Nat /\ expired[n] \in Nat /\ lost[n] \in Nat
      BY <1>1, DlqAssumption DEF TypeOK
    <3>2. copies[r] + Cardinality(Holders(n)) + Open(n) <= expired[n] + 1 + lost[n]
      BY DEF ReceiptInv
    <3>3. IsFiniteSet(Holders(n)) /\ Cardinality(Holders(n)) \in Nat
      BY HoldersFinite DEF Holders
    <3>4. Open(n)' = Open(n) /\ Open(n) \in Nat
      BY <2>3 DEF Open
    <3>5. CASE n = m
      <4>1. Holders(n)' = Holders(n) \ {o} /\ o \in Holders(n)
        BY <1>1, <2>1, <3>5 DEF Holders, TypeOK
      <4>2. Cardinality(Holders(n))' = Cardinality(Holders(n)) - 1
        BY <3>3, <4>1, FS_RemoveElement
      <4>3. copies'[r] = copies[r] + times[r] /\ times[r] \in 0 .. k + 1
        BY <2>10, <3>1, <3>5
      <4>4. lost'[n] = lost[n] + k /\ k \in Nat
        BY <1>1, <2>1, <3>1, <3>5, DlqAssumption DEF TypeOK
      <4> QED
        BY <2>3, <3>1, <3>2, <3>3, <3>4, <4>2, <4>3, <4>4
    <3>6. CASE n # m
      <4>1. Holders(n)' = Holders(n)
        BY <1>1, <2>1, <3>6 DEF Holders, TypeOK
      <4>2. r \notin EventsOf[m]
        BY <2>2, <3>6, DlqAssumption
      <4>3. copies'[r] = copies[r] /\ lost'[n] = lost[n]
        BY <1>1, <2>1, <2>10, <3>1, <3>6, <4>2 DEF TypeOK
      <4> QED
        BY <2>3, <3>2, <3>4, <4>1, <4>3
    <3> QED
      BY <3>5, <3>6
  <2> QED
    BY <1>1, <2>4, <2>5 DEF ReceiptInv
<1>8. ASSUME NEW o \in Operators, Delete(o) PROVE ReceiptInv'
  BY <1>1, <1>2, <1>8 DEF Delete, streamVars, ReceiptInv, TypeOK
<1>9. ASSUME NEW o \in Operators, Return(o) PROVE ReceiptInv'
  BY <1>1, <1>2, <1>9 DEF Return, queueVars, streamVars, ReceiptInv, TypeOK
<1>10. ASSUME NEW o \in Operators, Dies(o) PROVE ReceiptInv'
  BY <1>1, <1>2, <1>10 DEF Dies, queueVars, streamVars, ReceiptInv, TypeOK
<1>11. ASSUME NEW m \in Messages, Expire(m) PROVE ReceiptInv'
  <2>1. ASSUME NEW n \in Messages, NEW r \in EventsOf[n]
        PROVE  copies'[r] + Cardinality(Holders(n))' + Open(n)' <= expired'[n] + 1 + lost'[n]
    <3>1. copies[r] \in Nat /\ expired[n] \in Nat /\ lost[n] \in Nat
      BY <1>1, DlqAssumption DEF TypeOK
    <3>6. copies' = copies /\ lost' = lost
      BY <1>11 DEF Expire, streamVars
    <3>2. copies[r] + Cardinality(Holders(n)) + Open(n) <= expired[n] + 1 + lost[n]
      BY DEF ReceiptInv
    <3>3. Cardinality(Holders(n)) \in Nat /\ Holders(n)' = Holders(n)
      BY <1>11, HoldersFinite DEF Holders, Expire
    <3>4. CASE n = m
      <4>1. Open(n) = 0 /\ Open(n)' <= 1 /\ Open(n)' \in Nat /\ expired'[n] = expired[n] + 1
        BY <1>1, <1>11, <3>4 DEF Expire, Open, TypeOK
      <4> QED
        BY <3>1, <3>2, <3>3, <3>6, <4>1
    <3>5. CASE n # m
      <4>1. Open(n)' = Open(n) /\ expired'[n] = expired[n]
        BY <1>1, <1>11, <3>5 DEF Expire, Open, TypeOK
      <4> QED
        BY <3>1, <3>2, <3>3, <3>6, <4>1
    <3> QED
      BY <3>4, <3>5
  <2> QED
    BY <1>1, <1>11, <2>1 DEF ReceiptInv, Expire
<1>12. CASE UNCHANGED vars
  BY <1>1, <1>2, <1>12 DEF vars, queueVars, streamVars, ReceiptInv
<1> QED
  BY <1>3, <1>4, <1>5, <1>6, <1>7, <1>8, <1>9, <1>10, <1>11, <1>12 DEF Next, Step

LEMMA ReceiptInit == Init => ReceiptInv
<1> SUFFICES ASSUME Init PROVE ReceiptInv
  OBVIOUS
<1>1. TypeOK
  BY TypeInit
<1>2. ASSUME NEW m \in Messages, NEW r \in EventsOf[m]
      PROVE  copies[r] + Cardinality(Holders(m)) + Open(m) <= expired[m] + 1 + lost[m]
  <2>1. Holders(m) = {}
    BY DEF Init, Holders
  <2>2. Cardinality(Holders(m)) = 0
    BY <2>1, FS_EmptySet
  <2>3. copies[r] = 0 /\ expired[m] = 0 /\ lost[m] = 0 /\ Open(m) = 1
    BY DlqAssumption DEF Init, Open
  <2> QED
    BY <2>2, <2>3
<1> QED
  BY <1>1, <1>2 DEF Init, ReceiptInv

(* Operators working side by side replay nothing twice by themselves,      *)
(* however many there are: each further copy of an event in the stream     *)
(* takes a visibility timeout that expired, or a lost reply that made      *)
(* botocore repeat the call.                                               *)
THEOREM OneReplayPerReceipt == Spec => []ReplayedOncePerReceipt
<1>1. ASSUME ReceiptInv PROVE ReplayedOncePerReceipt
  <2>1. ASSUME NEW m \in Messages, NEW r \in EventsOf[m]
        PROVE  copies[r] <= expired[m] + 1 + lost[m]
    <3>1. copies[r] \in Nat /\ expired[m] \in Nat /\ lost[m] \in Nat
      BY <1>1, DlqAssumption DEF ReceiptInv, TypeOK
    <3>2. Cardinality(Holders(m)) \in Nat
      BY HoldersFinite DEF Holders
    <3>3. Open(m) \in Nat
      BY DEF Open
    <3> QED
      BY <1>1, <3>1, <3>2, <3>3 DEF ReceiptInv
  <2> QED
    BY <2>1 DEF ReplayedOncePerReceipt
<1> QED
  BY <1>1, ReceiptInit, ReceiptStep, PTL DEF Spec

----------------------------------------------------------------------------
(* A live run has offered what it has taken out of its inbox, or found     *)
(* nothing in it and left it in the queue.                                 *)

Accounted(m) ==
  \/ EventsOf[m] = {} /\ m \in queue /\ \A o \in Operators : m \notin current[o]
  \/ Offered(m)
Accounts == {m \in Messages : Accounted(m)}

AccountedInv ==
  /\ TypeOK
  /\ \A o \in Operators : pc[o] \in {"list", "reprocess"} => got[o] = {}
  /\ \A o \in Operators : pc[o] = "returned" => inbox[o] \cap got[o] = {}
  /\ \A o \in Operators : ~dryRun[o] => got[o] \ inbox[o] \subseteq Accounts
  /\ \A m \in Messages : EventsOf[m] = {} => m \in Accounts

(* A message without events is in nobody's hand to be deleted.             *)
LEMMA NoEventsStays ==
  ASSUME TypeOK, [Next]_vars, NEW m \in Messages, EventsOf[m] = {},
         m \in queue, \A o \in Operators : m \notin current[o]
  PROVE  m \in queue' /\ \A o \in Operators : m \notin current'[o]
<1>1. ASSUME NEW o \in Operators, Publish(o)
      PROVE  queue' = queue /\ \A p \in Operators : m \notin current'[p]
  <2>1. PICK n \in inbox[o], k \in Nat : k <= MaxLost - lost[n] /\ Attempts(o, n, k)
    BY <1>1, PublishAttempts
  <2> QED
    BY <1>1, <2>1 DEF Publish, Attempts, queueVars, TypeOK
<1>2. ASSUME NEW o \in Operators, Delete(o) \/ Dies(o)
      PROVE  m \in queue' /\ \A p \in Operators : m \notin current'[p]
  BY <1>2 DEF Delete, Dies, queueVars, TypeOK
<1>3. ASSUME NEW o \in Operators, List(o) \/ Reprocess(o) PROVE UNCHANGED <<queue, current>>
  BY <1>3 DEF List, Reprocess, Receive
<1> QED
  BY <1>1, <1>2, <1>3 DEF Next, Step, Start, Skip, Return, Expire, queueVars, vars

LEMMA AccountedStep ==
  ASSUME AccountedInv, [Next]_vars
  PROVE  AccountedInv'
<1>1. TypeOK /\ TypeOK'
  BY TypeStep DEF AccountedInv
<1>2. Accounts \subseteq Accounts'
  <2>1. ASSUME NEW m \in Messages, Accounted(m) PROVE Accounted(m)'
    BY <1>1, <2>1, OfferedStays, NoEventsStays DEF Accounted
  <2> QED
    BY <2>1 DEF Accounts
<1>3. \A o \in Operators : got[o] \subseteq Messages /\ got'[o] \subseteq Messages
  BY <1>1 DEF TypeOK
<1>4. ASSUME NEW o \in Operators,
             pc' = [pc EXCEPT ![o] = pc'[o]], got' = [got EXCEPT ![o] = got'[o]],
             inbox' = [inbox EXCEPT ![o] = inbox'[o]], dryRun' = [dryRun EXCEPT ![o] = dryRun'[o]],
             pc'[o] \in {"list", "reprocess"} => got'[o] = {},
             pc'[o] = "returned" => inbox'[o] \cap got'[o] = {},
             ~dryRun'[o] => got'[o] \ inbox'[o] \subseteq Accounts'
      PROVE  AccountedInv'
  <2>1. \A p \in Operators \ {o} :
          pc'[p] = pc[p] /\ got'[p] = got[p] /\ inbox'[p] = inbox[p] /\ dryRun'[p] = dryRun[p]
    BY <1>1, <1>4 DEF TypeOK
  <2>2. \A p \in Operators \ {o} : ~dryRun'[p] => got'[p] \ inbox'[p] \subseteq Accounts'
    BY <1>2, <1>3, <2>1 DEF AccountedInv
  <2> QED
    BY <1>1, <1>2, <1>4, <2>1, <2>2 DEF AccountedInv
<1>5. ASSUME NEW o \in Operators, Start(o) PROVE AccountedInv'
  BY <1>1, <1>4, <1>5 DEF Start, TypeOK
<1>6. ASSUME NEW o \in Operators, List(o) PROVE AccountedInv'
  <2>1. /\ pc[o] = "list" /\ pc'[o] \in {"list", "returned"}
        /\ pc' = [pc EXCEPT ![o] = pc'[o]]
        /\ UNCHANGED <<dryRun, got, inbox>>
    BY <1>1, <1>6 DEF List, TypeOK
  <2>2. got[o] = {}
    BY <2>1 DEF AccountedInv
  <2> QED
    BY <1>1, <1>4, <2>1, <2>2 DEF TypeOK
<1>7. ASSUME NEW o \in Operators, Reprocess(o) PROVE AccountedInv'
  <2>1. PICK messages :
          /\ got' = [got EXCEPT ![o] = messages]
          /\ inbox' = [inbox EXCEPT ![o] = messages]
          /\ pc' = [pc EXCEPT ![o] = "next"]
          /\ UNCHANGED dryRun
    BY <1>7 DEF Reprocess
  <2>2. pc'[o] = "next" /\ got'[o] \ inbox'[o] = {}
    BY <1>1, <2>1 DEF TypeOK
  <2> QED
    BY <1>1, <1>4, <2>1, <2>2 DEF TypeOK
<1>8. ASSUME NEW o \in Operators, Skip(o) PROVE AccountedInv'
  <2>1. PICK m \in inbox[o] :
          /\ EventsOf[m] = {} \/ dryRun[o]
          /\ inbox' = [inbox EXCEPT ![o] = @ \ {m}]
          /\ UNCHANGED <<pc, got, dryRun>>
          /\ pc[o] = "next"
    BY <1>8 DEF Skip
  <2>2. inbox'[o] = inbox[o] \ {m}
    BY <1>1, <2>1 DEF TypeOK
  <2>3. ~dryRun[o] => got[o] \ inbox'[o] \subseteq Accounts'
    BY <1>2, <1>3, <2>1, <2>2 DEF AccountedInv
  <2> QED
    BY <1>1, <1>4, <2>1, <2>2, <2>3 DEF TypeOK
<1>9. ASSUME NEW o \in Operators, Publish(o) PROVE AccountedInv'
  <2>1. PICK m \in inbox[o] :
          /\ m \in Messages
          /\ inbox' = [inbox EXCEPT ![o] = @ \ {m}]
          /\ Offered(m)'
    BY <1>1, <1>9, PublishOffers
  <2>2. UNCHANGED <<dryRun, got>> /\ pc' = [pc EXCEPT ![o] = "delete"]
    BY <1>9 DEF Publish
  <2>3. inbox'[o] = inbox[o] \ {m}
    BY <1>1, <2>1 DEF TypeOK
  <2>4. m \in Accounts'
    BY <2>1 DEF Accounted, Accounts
  <2>5. ~dryRun[o] => got[o] \ inbox'[o] \subseteq Accounts'
    BY <1>2, <1>3, <2>3, <2>4 DEF AccountedInv
  <2>6. pc'[o] = "delete" /\ got'[o] = got[o] /\ dryRun'[o] = dryRun[o]
    BY <1>1, <2>2 DEF TypeOK
  <2>7. /\ pc' = [pc EXCEPT ![o] = pc'[o]] /\ got' = [got EXCEPT ![o] = got'[o]]
        /\ inbox' = [inbox EXCEPT ![o] = inbox'[o]]
        /\ dryRun' = [dryRun EXCEPT ![o] = dryRun'[o]]
    BY <1>1, <2>1, <2>2, <2>3, <2>6 DEF TypeOK
  <2> QED
    BY <1>4, <2>5, <2>6, <2>7
<1>10. ASSUME NEW o \in Operators, Delete(o) PROVE AccountedInv'
  <2>1. UNCHANGED <<dryRun, got, inbox>> /\ pc' = [pc EXCEPT ![o] = "next"]
    BY <1>10 DEF Delete
  <2> QED
    BY <1>1, <1>2, <1>4, <2>1 DEF AccountedInv, TypeOK
<1>11. ASSUME NEW o \in Operators, Return(o) PROVE AccountedInv'
  <2>1. /\ UNCHANGED <<dryRun, got, inbox>> /\ pc' = [pc EXCEPT ![o] = "returned"]
        /\ inbox[o] = {}
    BY <1>11 DEF Return
  <2>2. pc'[o] = "returned" /\ inbox'[o] = {} /\ got'[o] = got[o] /\ dryRun'[o] = dryRun[o]
    BY <1>1, <2>1 DEF TypeOK
  <2>3. ~dryRun'[o] => got'[o] \ inbox'[o] \subseteq Accounts'
    BY <1>2, <2>1, <2>2 DEF AccountedInv
  <2>4. /\ pc' = [pc EXCEPT ![o] = pc'[o]] /\ got' = [got EXCEPT ![o] = got'[o]]
        /\ inbox' = [inbox EXCEPT ![o] = inbox'[o]]
        /\ dryRun' = [dryRun EXCEPT ![o] = dryRun'[o]]
    BY <1>1, <2>1, <2>2 DEF TypeOK
  <2>5. pc'[o] # "list" /\ pc'[o] # "reprocess" /\ inbox'[o] \cap got'[o] = {}
    BY <2>2
  <2> QED
    BY <1>4, <2>3, <2>4, <2>5
<1>12. ASSUME NEW o \in Operators, Dies(o) PROVE AccountedInv'
  <2>1. /\ pc' = [pc EXCEPT ![o] = "idle"] /\ got' = [got EXCEPT ![o] = {}]
        /\ inbox' = [inbox EXCEPT ![o] = {}] /\ dryRun' = [dryRun EXCEPT ![o] = FALSE]
    BY <1>12 DEF Dies
  <2>2. got'[o] = {} /\ inbox'[o] = {} /\ pc'[o] = "idle"
    BY <1>1, <2>1 DEF TypeOK
  <2> QED
    BY <1>1, <1>4, <2>1, <2>2 DEF TypeOK
<1>13. CASE UNCHANGED <<copies, pc, dryRun, got, inbox>>
  BY <1>1, <1>2, <1>13 DEF AccountedInv
<1> QED
  BY <1>5, <1>6, <1>7, <1>8, <1>9, <1>10, <1>11, <1>12, <1>13 DEF Next, Step, Expire, vars, streamVars

(* What a live run received is, when it returns, offered to the stream or  *)
(* still in the queue, whatever the messages hold and other operators, the *)
(* visibility timeouts and put_records do meanwhile.                       *)
THEOREM ReturnedMeansAccounted == Spec => []AccountedOnReturn
<1>1. Init => AccountedInv
  BY TypeInit DEF Init, AccountedInv, Accounted, Accounts
<1>2. AccountedInv /\ [Next]_vars => AccountedInv'
  BY AccountedStep
<1>3. AccountedInv => AccountedOnReturn
  BY DEF AccountedInv, Accounted, Accounts, AccountedOnReturn, Offered, Settled
<1> QED
  BY <1>1, <1>2, <1>3, PTL DEF Spec

----------------------------------------------------------------------------
(* Messages in which no events are found                                   *)

(* The message is in the queue, in nobody's hand to be deleted, and        *)
(* nothing it stands for has been put in the stream.                       *)
Unrecovered(m) ==
  /\ m \in queue
  /\ \A o \in Operators : m \notin current[o]
  /\ \A r \in NamedBy[m] : copies[r] = 0

LEMMA UnrecoveredStep ==
  ASSUME NEW m \in Messages, EventsOf[m] = {}, TypeOK, Unrecovered(m), [Next]_vars
  PROVE  Unrecovered(m)'
<1>1. ASSUME NEW o \in Operators, Publish(o) PROVE Unrecovered(m)'
  <2>1. PICK n \in inbox[o], k \in Nat : k <= MaxLost - lost[n] /\ Attempts(o, n, k)
    BY <1>1, PublishAttempts
  <2>2. PICK times \in [EventsOf[n] -> 0 .. k + 1] : Accepted(n, times)
    BY <2>1 DEF Attempts
  <2>3. n \in Messages /\ n # m
    BY <2>1 DEF TypeOK, Attempts
  <2>4. \A r \in NamedBy[m] : r \in Records /\ r \notin EventsOf[n]
    BY <2>3, DlqAssumption
  <2>5. \A r \in NamedBy[m] : copies'[r] = 0
    BY <2>2, <2>4 DEF Unrecovered, Accepted
  <2>6. \A p \in Operators : m \notin current'[p]
    BY <2>1, <2>3 DEF TypeOK, Unrecovered, Attempts
  <2>7. queue' = queue
    BY <1>1 DEF Publish, queueVars
  <2> QED
    BY <2>5, <2>6, <2>7 DEF Unrecovered
<1>2. ASSUME NEW o \in Operators, Delete(o) PROVE Unrecovered(m)'
  BY <1>2 DEF Delete, TypeOK, Unrecovered, streamVars
<1>3. ASSUME NEW o \in Operators, Dies(o) PROVE Unrecovered(m)'
  BY <1>3 DEF Dies, TypeOK, Unrecovered, queueVars, streamVars
<1>4. ASSUME UNCHANGED <<queue, copies, current>> PROVE Unrecovered(m)'
  BY <1>4 DEF Unrecovered
<1>5. ASSUME NEW o \in Operators,
             Start(o) \/ List(o) \/ Reprocess(o) \/ Skip(o) \/ Return(o)
      PROVE  Unrecovered(m)'
  BY <1>4, <1>5 DEF Start, List, Reprocess, Receive, Skip, Return, queueVars, streamVars
<1>6. ASSUME NEW n \in Messages, Expire(n) PROVE Unrecovered(m)'
  BY <1>4, <1>6 DEF Expire, streamVars
<1>7. ASSUME UNCHANGED vars PROVE Unrecovered(m)'
  BY <1>4, <1>7 DEF vars, queueVars, streamVars
<1> QED
  BY <1>1, <1>2, <1>3, <1>5, <1>6, <1>7 DEF Next, Step

(* What the handler finds no events in, as the metadata that Lambda sends, *)
(* is never recovered by it and never lost by it: the message stays in the *)
(* queue and none of its records gets back into the stream, however many   *)
(* runs there are, live or dry, and whatever put_records accepts.          *)
THEOREM MetadataIsNeverRecovered ==
  ASSUME NEW m \in Messages, EventsOf[m] = {}
  PROVE  Spec => [](m \in queue /\ \A r \in NamedBy[m] : copies[r] = 0)
<1>1. Init => Unrecovered(m)
  BY DlqAssumption DEF Init, Unrecovered
<1>2. TypeOK /\ Unrecovered(m) /\ [Next]_vars => Unrecovered(m)'
  BY UnrecoveredStep
<1>3. Unrecovered(m) => m \in queue /\ \A r \in NamedBy[m] : copies[r] = 0
  BY DEF Unrecovered
<1> QED
  BY <1>1, <1>2, <1>3, TypeCorrect, PTL DEF Spec
=============================================================================
