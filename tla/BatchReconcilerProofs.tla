----------------------- MODULE BatchReconcilerProofs -----------------------
(***************************************************************************)
(* The window functions of the stitcher cut a user's rows exactly at the   *)
(* gaps and lose or double none, the audit hides no difference, and where  *)
(* a session came in order and whole both layers count the same, however   *)
(* its events were spread over batches, for any feed, timeout and number   *)
(* of days.                                                                *)
(***************************************************************************)
EXTENDS BatchReconciler, FiniteSetTheorems, WellFoundedInduction, TLAPS

(* The rows there can be: TypeOK's, with events that did arrive.           *)
ArchiveRow == [ev : Events, copy : Nat]

(* What a partition holds, and what a day's sessions are computed from.    *)
RowSet(rows) == rows \subseteq ArchiveRow /\ IsFiniteSet(rows)

----------------------------------------------------------------------------
(* The order of the window                                                 *)

LEMMA RowType ==
  ASSUME NEW r \in ArchiveRow
  PROVE  /\ r.ev \in Events /\ r.copy \in Nat
         /\ r.ev.time \in Nat /\ r.ev.id \in Nat /\ r.ev.user \in Users
  BY BatchAssumption DEF ArchiveRow, Event

(* Before is a strict total order of rows, along their times.              *)
LEMMA BeforeOrders ==
  ASSUME NEW q \in ArchiveRow, NEW r \in ArchiveRow
  PROVE  /\ q = r \/ Before(q, r) \/ Before(r, q)
         /\ ~(Before(q, r) /\ Before(r, q))
         /\ ~Before(q, q)
         /\ Before(q, r) => q.ev.time <= r.ev.time
         /\ q.ev.time < r.ev.time => Before(q, r)
         /\ \A p \in ArchiveRow : Before(p, q) /\ Before(q, r) => Before(p, r)
<1>1. q.ev.id = r.ev.id => q.ev = r.ev
  BY RowType, BatchAssumption
<1>2. q.ev = r.ev /\ q.copy = r.copy => q = r
  BY DEF ArchiveRow
<1>3. \A p \in ArchiveRow : Before(p, q) /\ Before(q, r) => Before(p, r)
  BY RowType DEF Before
<1> QED
  BY <1>1, <1>2, <1>3, RowType DEF Before

(* A finite family of sets that is not empty has a smallest member.        *)
LEMMA SmallestMember ==
  ASSUME NEW S, IsFiniteSet(S), NEW T, T \subseteq SUBSET S, T # {}
  PROVE  \E x \in T : \A y \in T : y \subseteq x => y = x
<1>1. T \subseteq FiniteSubsetsOf(S)
  BY FS_FiniteSubsetsOfFinite
<1>2. PICK x \in T : \A y \in T : ~(<<y, x>> \in StrictSubsetOrdering(S))
  BY <1>1, FS_StrictSubsetOrderingWellFounded, WFMin
<1>3. \A y \in T : y \subseteq x => y = x
  BY <1>2 DEF StrictSubsetOrdering
<1> QED
  BY <1>3

(* A set of rows that is not empty has a last row ...                      *)
LEMMA LastRow ==
  ASSUME NEW rows, RowSet(rows), rows # {}
  PROVE  \E x \in rows : \A y \in rows : y = x \/ Before(y, x)
<1> DEFINE From(x) == {y \in rows : y = x \/ Before(x, y)}
           All == {From(x) : x \in rows}
<1>1. All \subseteq SUBSET rows /\ All # {}
  OBVIOUS
<1>2. PICK x \in rows : \A y \in rows : From(y) \subseteq From(x) => From(y) = From(x)
  <2>1. PICK X \in All : \A Y \in All : Y \subseteq X => Y = X
    <3> HIDE DEF All
    <3> QED
      BY <1>1, SmallestMember DEF RowSet
  <2>2. PICK x \in rows : X = From(x)
    OBVIOUS
  <2>3. \A y \in rows : From(y) \in All
    OBVIOUS
  <2> HIDE DEF All, From
  <2> QED
    BY <2>1, <2>2, <2>3
<1>3. ASSUME NEW y \in rows PROVE y = x \/ Before(y, x)
  <2> SUFFICES ASSUME Before(x, y) PROVE FALSE
    BY BeforeOrders DEF RowSet
  <2>1. x \in From(x) /\ x \notin From(y)
    BY BeforeOrders DEF RowSet
  <2>2. From(y) \subseteq From(x)
    BY BeforeOrders DEF RowSet
  <2> QED
    BY <1>2, <2>1, <2>2
<1> QED
  BY <1>3

(* ... and a first one.                                                    *)
LEMMA FirstRow ==
  ASSUME NEW rows, RowSet(rows), rows # {}
  PROVE  \E x \in rows : \A y \in rows : y = x \/ Before(x, y)
<1> DEFINE UpTo(x) == {y \in rows : y = x \/ Before(y, x)}
           All == {UpTo(x) : x \in rows}
<1>1. All \subseteq SUBSET rows /\ All # {}
  OBVIOUS
<1>2. PICK x \in rows : \A y \in rows : UpTo(y) \subseteq UpTo(x) => UpTo(y) = UpTo(x)
  <2>1. PICK X \in All : \A Y \in All : Y \subseteq X => Y = X
    <3> HIDE DEF All
    <3> QED
      BY <1>1, SmallestMember DEF RowSet
  <2>2. PICK x \in rows : X = UpTo(x)
    OBVIOUS
  <2>3. \A y \in rows : UpTo(y) \in All
    OBVIOUS
  <2> HIDE DEF All, UpTo
  <2> QED
    BY <2>1, <2>2, <2>3
<1>3. ASSUME NEW y \in rows PROVE y = x \/ Before(x, y)
  <2> SUFFICES ASSUME Before(y, x) PROVE FALSE
    BY BeforeOrders DEF RowSet
  <2>1. x \in UpTo(x) /\ x \notin UpTo(y)
    BY BeforeOrders DEF RowSet
  <2>2. UpTo(y) \subseteq UpTo(x)
    BY BeforeOrders DEF RowSet
  <2> QED
    BY <1>2, <2>1, <2>2
<1> QED
  BY <1>3

----------------------------------------------------------------------------
(* Sums                                                                    *)

Pick(s) == CHOOSE x \in s : TRUE

(* One step of the fold: the sum of a set, from the sums g of smaller ones.*)
Plus(w, g, s) == IF s = {} THEN 0 ELSE w[Pick(s)] + g[s \ {Pick(s)}]
Closed(F) == \A s \in F : s # {} => s \ {Pick(s)} \in F
SumsOn(w, F, g) == g = [s \in F |-> Plus(w, g, s)]

(* The sum of the weights w over S, as the folds define it.                *)
Sum(w, S) == (CHOOSE g : SumsOn(w, SUBSET S, g))[S]

LEMMA PickIn == ASSUME NEW s, s # {} PROVE Pick(s) \in s
  BY DEF Pick

(* The family of subsets on which the recursion can be solved grows up to  *)
(* the whole power set: there is no largest one before it.                 *)
LEMMA SumsExist ==
  ASSUME NEW w, NEW S, IsFiniteSet(S)
  PROVE  \E g : SumsOn(w, SUBSET S, g)
<1> DEFINE Good == {F \in SUBSET SUBSET S : Closed(F) /\ \E g : SumsOn(w, F, g)}
           Rest == {(SUBSET S) \ F : F \in Good}
<1>1. {} \in Good
  <2>1. SumsOn(w, {}, [s \in {} |-> 0])
    BY DEF SumsOn
  <2>2. {} \in SUBSET SUBSET S /\ Closed({})
    BY DEF Closed
  <2>3. \E g : SumsOn(w, {}, g)
    BY <2>1
  <2> QED
    BY <2>2, <2>3
<1>2. Rest # {} /\ Rest \subseteq SUBSET SUBSET S
  <2>1. (SUBSET S) \ {} \in Rest
    BY <1>1
  <2>2. \A X \in Rest : X \subseteq SUBSET S
    <3> HIDE DEF Good
    <3> QED
      OBVIOUS
  <2> HIDE DEF Rest
  <2> QED
    BY <2>1, <2>2
<1>3. IsFiniteSet(SUBSET S)
  BY FS_SUBSET
<1>4. PICK X \in Rest : \A Y \in Rest : Y \subseteq X => Y = X
  <2> HIDE DEF Rest
  <2> QED
    BY <1>2, <1>3, SmallestMember
<1>5. PICK F \in Good : X = (SUBSET S) \ F
  BY <1>4
<1>6. PICK g : SumsOn(w, F, g)
  BY <1>5
<1>7. CASE F = SUBSET S
  BY <1>6, <1>7
<1>8. CASE F # SUBSET S
  <2>1. X # {} /\ X \subseteq SUBSET S
    BY <1>5, <1>8
  <2>2. PICK A \in X : \A B \in X : B \subseteq A => B = A
    BY <2>1, SmallestMember
  <2>3. A \in SUBSET S /\ A \notin F
    BY <1>5, <2>2
  <2>4. A # {} => A \ {Pick(A)} \in F
    BY <1>5, <2>2, <2>3, PickIn
  <2> DEFINE G == F \cup {A}
             h == [s \in G |-> IF s = A THEN Plus(w, g, A) ELSE g[s]]
  <2>5. \A s \in F : h[s] = g[s]
    BY <2>3
  <2>6. ASSUME NEW s \in F PROVE h[s] = Plus(w, h, s)
    <3>1. s # {} => s \ {Pick(s)} \in F
      BY <1>5 DEF Closed
    <3>2. g[s] = Plus(w, g, s)
      BY <1>6 DEF SumsOn
    <3> HIDE DEF h
    <3> QED
      BY <2>5, <3>1, <3>2 DEF Plus
  <2>7. h[A] = Plus(w, h, A)
    <3>1. h[A] = Plus(w, g, A)
      OBVIOUS
    <3> HIDE DEF h
    <3> QED
      BY <2>4, <2>5, <3>1 DEF Plus
  <2>8. SumsOn(w, G, h)
    <3>1. h = [s \in G |-> h[s]]
      OBVIOUS
    <3>2. \A s \in G : h[s] = Plus(w, h, s)
      <4> HIDE DEF h
      <4> QED BY <2>6, <2>7
    <3> HIDE DEF h, G
    <3> QED
      BY <3>1, <3>2 DEF SumsOn
  <2>9. Closed(G)
    BY <1>5, <2>4 DEF Closed
  <2>10. G \in Good
    <3> HIDE DEF h
    <3> QED BY <1>5, <2>3, <2>8, <2>9
  <2>11. (SUBSET S) \ G \in Rest /\ (SUBSET S) \ G \subseteq X
    BY <1>5, <2>10
  <2>12. (SUBSET S) \ G # X
    BY <2>2
  <2> QED
    BY <1>4, <2>11, <2>12
<1> QED
  BY <1>7, <1>8

(* Any two solutions agree where they are both defined.                    *)
LEMMA SumsAgree ==
  ASSUME NEW w, NEW S, NEW T, NEW g, NEW h, IsFiniteSet(T),
         SumsOn(w, SUBSET S, g), SumsOn(w, SUBSET T, h), T \subseteq S
  PROVE  \A A \in SUBSET T : g[A] = h[A]
<1> DEFINE Bad == {A \in SUBSET T : g[A] # h[A]}
<1> SUFFICES ASSUME Bad # {} PROVE FALSE
  OBVIOUS
<1>1. PICK A \in Bad : \A B \in Bad : B \subseteq A => B = A
  <2>1. Bad \subseteq SUBSET T
    OBVIOUS
  <2> HIDE DEF Bad
  <2> QED
    BY <2>1, SmallestMember
<1>2. g[A] = Plus(w, g, A) /\ h[A] = Plus(w, h, A)
  BY DEF SumsOn
<1>3. A # {} => g[A \ {Pick(A)}] = h[A \ {Pick(A)}]
  BY <1>1, PickIn
<1> QED
  BY <1>1, <1>2, <1>3 DEF Plus

LEMMA SumOfSubset ==
  ASSUME NEW w, NEW S, IsFiniteSet(S), NEW g, SumsOn(w, SUBSET S, g), NEW T \in SUBSET S
  PROVE  Sum(w, T) = g[T]
<1>1. IsFiniteSet(T)
  BY FS_Subset
<1>2. PICK h : h = CHOOSE f : SumsOn(w, SUBSET T, f)
  OBVIOUS
<1>3. SumsOn(w, SUBSET T, h)
  BY <1>1, <1>2, SumsExist
<1>4. h[T] = g[T]
  BY <1>1, <1>3, SumsAgree
<1> QED
  BY <1>2, <1>4 DEF Sum

LEMMA SumStep ==
  ASSUME NEW w, NEW S, IsFiniteSet(S)
  PROVE  /\ S = {} => Sum(w, S) = 0
         /\ S # {} => Sum(w, S) = w[Pick(S)] + Sum(w, S \ {Pick(S)})
<1>1. PICK g : SumsOn(w, SUBSET S, g)
  BY SumsExist
<1>2. g[S] = Plus(w, g, S)
  BY <1>1 DEF SumsOn
<1>3. Sum(w, S) = g[S] /\ Sum(w, S \ {Pick(S)}) = g[S \ {Pick(S)}]
  BY <1>1, SumOfSubset
<1> QED
  BY <1>2, <1>3 DEF Plus

(* A sum of natural numbers is one.                                        *)
LEMMA SumType ==
  ASSUME NEW w, NEW S, IsFiniteSet(S), \A x \in S : w[x] \in Nat
  PROVE  Sum(w, S) \in Nat
<1> DEFINE Bad == {A \in SUBSET S : Sum(w, A) \notin Nat}
<1> SUFFICES ASSUME Bad # {} PROVE FALSE
  OBVIOUS
<1>1. PICK A \in Bad : \A B \in Bad : B \subseteq A => B = A
  <2>1. Bad \subseteq SUBSET S
    OBVIOUS
  <2> HIDE DEF Bad
  <2> QED
    BY <2>1, SmallestMember
<1>2. ASSUME A # {}
      PROVE  Sum(w, A \ {Pick(A)}) \in Nat /\ w[Pick(A)] \in Nat
  <2>1. Pick(A) \in A
    BY <1>2, PickIn
  <2>2. A \ {Pick(A)} \in SUBSET S /\ A \ {Pick(A)} \subseteq A /\ A \ {Pick(A)} # A
    BY <2>1
  <2>3. A \ {Pick(A)} \notin Bad
    BY <1>1, <2>2
  <2> QED
    BY <2>1, <2>2, <2>3
<1>3. A \in SUBSET S /\ Sum(w, A) \notin Nat
  BY <1>1
<1> HIDE DEF Bad
<1>4. IsFiniteSet(A)
  BY <1>3, FS_Subset
<1>5. CASE A = {}
  <2>1. Sum(w, A) = 0
    BY <1>4, <1>5, SumStep
  <2> QED
    BY <1>3, <2>1
<1>6. CASE A # {}
  BY <1>2, <1>3, <1>4, <1>6, SumStep
<1> QED
  BY <1>5, <1>6

(* It does not depend on the order in which the elements are picked.       *)
LEMMA SumRemove ==
  ASSUME NEW w, NEW S, IsFiniteSet(S), \A x \in S : w[x] \in Nat, NEW x \in S
  PROVE  Sum(w, S) = w[x] + Sum(w, S \ {x})
<1> DEFINE Bad == {A \in SUBSET S : \E y \in A : Sum(w, A) # w[y] + Sum(w, A \ {y})}
<1> SUFFICES ASSUME Bad # {} PROVE FALSE
  OBVIOUS
<1>1. PICK A \in Bad : \A B \in Bad : B \subseteq A => B = A
  <2>1. Bad \subseteq SUBSET S
    OBVIOUS
  <2> HIDE DEF Bad
  <2> QED
    BY <2>1, SmallestMember
<1>2. PICK y \in A : Sum(w, A) # w[y] + Sum(w, A \ {y})
  BY <1>1
<1> DEFINE p == Pick(A)
<1>3. p \in A
  BY <1>2, PickIn
<1>4. IsFiniteSet(A)
  BY FS_Subset
<1>5. Sum(w, A) = w[p] + Sum(w, A \ {p})
  BY <1>2, <1>4, SumStep
<1> HIDE DEF p
<1>6. p # y
  BY <1>2, <1>5
<1>7. ASSUME NEW B \in SUBSET A, B # A, NEW z \in B
      PROVE  Sum(w, B) = w[z] + Sum(w, B \ {z})
  <2>1. B \in SUBSET S /\ B \notin Bad
    BY <1>1, <1>7
  <2> QED
    BY <2>1
<1>8. /\ Sum(w, A \ {p}) = w[y] + Sum(w, (A \ {p}) \ {y})
      /\ Sum(w, A \ {y}) = w[p] + Sum(w, (A \ {y}) \ {p})
  <2>1. /\ A \ {p} \in SUBSET A /\ A \ {p} # A /\ y \in A \ {p}
        /\ A \ {y} \in SUBSET A /\ A \ {y} # A /\ p \in A \ {y}
    BY <1>2, <1>3, <1>6
  <2> HIDE DEF Bad
  <2> QED
    BY <1>7, <2>1
<1>9. (A \ {p}) \ {y} = (A \ {y}) \ {p}
  OBVIOUS
<1>10. Sum(w, (A \ {y}) \ {p}) \in Nat /\ w[p] \in Nat /\ w[y] \in Nat
  <2>1. (A \ {y}) \ {p} \in SUBSET S /\ p \in S /\ y \in S
    BY <1>3
  <2>2. IsFiniteSet((A \ {y}) \ {p})
    BY <2>1, FS_Subset
  <2> QED
    BY <2>1, <2>2, SumType
<1> QED
  BY <1>2, <1>5, <1>8, <1>9, <1>10

LEMMA PriceSum ==
  ASSUME NEW rows, IsFiniteSet(rows), NEW w, \A r \in rows : w[r] = r.ev.price
  PROVE  MapThenSumSet(LAMBDA r : r.ev.price, rows) = Sum(w, rows)
<1> DEFINE P(s) == (CHOOSE x \in s : TRUE).ev.price
           Eq(g) == g = [s \in SUBSET rows |-> IF s = {} THEN 0
                             ELSE (CHOOSE x \in s : TRUE).ev.price + g[s \ {CHOOSE x \in s : TRUE}]]
<1>1. MapThenSumSet(LAMBDA r : r.ev.price, rows) = (CHOOSE g : Eq(g))[rows]
  BY DEF MapThenSumSet, MapThenFoldSet
<1>2. \A s \in SUBSET rows : s # {} => Pick(s).ev.price = w[Pick(s)]
  BY PickIn
<1>3. \A g : Eq(g) <=> g = [s \in SUBSET rows |-> IF s = {} THEN 0
                             ELSE Pick(s).ev.price + g[s \ {Pick(s)}]]
  BY DEF Pick
<1>4. \A g : Eq(g) <=> SumsOn(w, SUBSET rows, g)
  <2> HIDE DEF Eq
  <2> QED
  BY <1>2, <1>3 DEF SumsOn, Plus
<1>5. PICK g : SumsOn(w, SUBSET rows, g)
  BY SumsExist
<1>6. Eq(CHOOSE h : Eq(h))
  <2> HIDE DEF Eq
  <2> QED BY <1>4, <1>5
<1>7. rows \in SUBSET rows
  OBVIOUS
<1> HIDE DEF Eq
<1> QED
  BY <1>1, <1>4, <1>6, <1>7, SumOfSubset

----------------------------------------------------------------------------
(* The running sum                                                         *)

Starts(rows, u, t) ==
  {q \in rows : /\ q.ev.user = u
                /\ q.ev.time <= t
                /\ IsSessionStart(rows, q)}

LEMMA SeqCounts ==
  ASSUME NEW rows, RowSet(rows), NEW r \in rows
  PROVE  /\ UserSessionSeq(rows, r) = Cardinality(Starts(rows, r.ev.user, r.ev.time))
         /\ UserSessionSeq(rows, r) \in Nat
         /\ IsFiniteSet(Starts(rows, r.ev.user, r.ev.time))
<1>1. Starts(rows, r.ev.user, r.ev.time) \in SUBSET rows
  BY DEF Starts
<1>2. IsFiniteSet(Starts(rows, r.ev.user, r.ev.time))
  BY <1>1, FS_Subset DEF RowSet
<1>3. UserSessionSeq(rows, r) = Cardinality(Starts(rows, r.ev.user, r.ev.time))
  BY DEF UserSessionSeq, Starts
<1> QED
  BY <1>2, <1>3, FS_CardinalityType

(* Two rows of a user have the same number exactly if no session starts    *)
(* after the earlier and not after the later; with a smaller number a row  *)
(* is the earlier.                                                         *)
LEMMA SeqGrowsAtStarts ==
  ASSUME NEW rows, RowSet(rows), NEW q \in rows, NEW r \in rows, q.ev.user = r.ev.user
  PROVE  /\ UserSessionSeq(rows, q) < UserSessionSeq(rows, r) =>
              \E x \in rows : /\ x.ev.user = r.ev.user /\ IsSessionStart(rows, x)
                              /\ q.ev.time < x.ev.time /\ x.ev.time <= r.ev.time
         /\ UserSessionSeq(rows, q) = UserSessionSeq(rows, r) =>
              ~\E x \in rows : /\ x.ev.user = r.ev.user /\ IsSessionStart(rows, x)
                               /\ q.ev.time < x.ev.time /\ x.ev.time <= r.ev.time
<1> DEFINE Q == Starts(rows, q.ev.user, q.ev.time)
           R == Starts(rows, r.ev.user, r.ev.time)
<1>1. \A x \in rows : x.ev.time \in Nat
  BY RowType DEF RowSet
<1>2. /\ IsFiniteSet(Q) /\ IsFiniteSet(R)
      /\ UserSessionSeq(rows, q) = Cardinality(Q) /\ UserSessionSeq(rows, r) = Cardinality(R)
      /\ Cardinality(Q) \in Nat /\ Cardinality(R) \in Nat
  BY SeqCounts
<1>3. Q \subseteq R \/ R \subseteq Q
  BY <1>1 DEF Starts
<1>4. Q \subseteq R => Cardinality(Q) <= Cardinality(R) /\ (Cardinality(Q) = Cardinality(R) => Q = R)
  <2> HIDE DEF Q, R
  <2> QED
    BY <1>2, FS_Subset
<1>5. R \subseteq Q => Cardinality(R) <= Cardinality(Q)
  <2> HIDE DEF Q, R
  <2> QED
    BY <1>2, FS_Subset
<1>6. ASSUME UserSessionSeq(rows, q) < UserSessionSeq(rows, r)
      PROVE  \E x \in rows : /\ x.ev.user = r.ev.user /\ IsSessionStart(rows, x)
                             /\ q.ev.time < x.ev.time /\ x.ev.time <= r.ev.time
  <2>1. ~(R \subseteq Q)
    <3> HIDE DEF Q, R
    <3> QED
      BY <1>2, <1>5, <1>6
  <2>2. PICK x \in R : x \notin Q
    BY <2>1
  <2> QED
    BY <1>1, <2>2 DEF Starts
<1>7. ASSUME UserSessionSeq(rows, q) = UserSessionSeq(rows, r),
             NEW x \in rows, x.ev.user = r.ev.user, IsSessionStart(rows, x),
             q.ev.time < x.ev.time, x.ev.time <= r.ev.time
      PROVE  FALSE
  <2>1. x \in R /\ x \notin Q
    BY <1>1, <1>7 DEF Starts
  <2>2. Q \subseteq R
    BY <1>1, <1>3, <2>1
  <2>3. Q = R
    <3> HIDE DEF Q, R
    <3> QED
      BY <1>2, <1>4, <1>7, <2>2
  <2> QED
    BY <2>1, <2>3
<1> QED
  BY <1>6, <1>7

----------------------------------------------------------------------------
(* What a session start and a row that is none say                         *)

(* All of the user's rows before a start are further away than the timeout. *)
LEMMA StartAfterGap ==
  ASSUME NEW rows, RowSet(rows), NEW x \in rows, IsSessionStart(rows, x),
         NEW r \in rows, r.ev.user = x.ev.user, r.ev.time < x.ev.time
  PROVE  r.ev.time + Timeout < x.ev.time
<1> DEFINE earlier == {q \in rows : q.ev.user = x.ev.user /\ Before(q, x)}
<1>1. r \in earlier
  BY BeforeOrders DEF RowSet
<1>2. RowSet(earlier)
  <2>1. earlier \in SUBSET rows
    OBVIOUS
  <2> QED
    BY <2>1, FS_Subset DEF RowSet
<1>3. PICK p \in earlier : \A y \in earlier : y = p \/ Before(y, p)
  <2> HIDE DEF earlier
  <2> QED
    BY <1>1, <1>2, LastRow
<1>4. x.ev.time - p.ev.time > Timeout
  BY <1>3 DEF IsSessionStart
<1>5. r.ev.time <= p.ev.time
  BY <1>1, <1>3, BeforeOrders, RowType DEF RowSet
<1>6. r.ev.time \in Nat /\ p.ev.time \in Nat /\ x.ev.time \in Nat
  BY RowType DEF RowSet
<1> QED
  BY <1>4, <1>5, <1>6, BatchAssumption

(* The first of the user's rows after a time starts a session if no row of *)
(* the user is within the timeout before it.                               *)
LEMMA GapMakesStart ==
  ASSUME NEW rows, RowSet(rows), NEW r \in rows, NEW b \in rows,
         r.ev.user = b.ev.user, r.ev.time < b.ev.time
  PROVE  \E x \in rows :
           /\ x.ev.user = r.ev.user
           /\ r.ev.time < x.ev.time /\ x.ev.time <= b.ev.time
           /\ x.ev.time > r.ev.time + Timeout => IsSessionStart(rows, x)
<1> DEFINE later == {q \in rows : q.ev.user = r.ev.user /\ r.ev.time < q.ev.time}
<1>1. b \in later
  OBVIOUS
<1>2. RowSet(later)
  <2>1. later \in SUBSET rows
    OBVIOUS
  <2> QED
    BY <2>1, FS_Subset DEF RowSet
<1>3. PICK x \in later : \A y \in later : y = x \/ Before(x, y)
  <2> HIDE DEF later
  <2> QED
    BY <1>1, <1>2, FirstRow
<1>4. x.ev.time <= b.ev.time
  BY <1>1, <1>3, BeforeOrders, RowType DEF RowSet
<1>5. ASSUME x.ev.time > r.ev.time + Timeout PROVE IsSessionStart(rows, x)
  <2> SUFFICES ASSUME NEW q \in rows, q.ev.user = x.ev.user, Before(q, x)
               PROVE  x.ev.time - q.ev.time > Timeout
    BY DEF IsSessionStart
  <2>1. q \notin later
    BY <1>3, BeforeOrders DEF RowSet
  <2>2. q.ev.time \in Nat /\ r.ev.time \in Nat /\ x.ev.time \in Nat
    BY RowType DEF RowSet
  <2>3. q.ev.time <= r.ev.time
    BY <2>1, <2>2
  <2> QED
    BY <1>5, <2>2, <2>3, BatchAssumption
<1> QED
  BY <1>3, <1>4, <1>5

----------------------------------------------------------------------------
(* Sessions                                                                *)

Rows(rows, id) == {r \in rows : BatchSessionId(rows, r) = id}

(* A session begins and ends with a row of its user and number.            *)
LEMMA SessionSpan ==
  ASSUME NEW rows, RowSet(rows), NEW s \in Sessions(rows)
  PROVE  \E a, b \in rows :
           /\ s = Session(BatchSessionId(rows, a), Rows(rows, BatchSessionId(rows, a)))
           /\ a.ev.user = s.user_id /\ b.ev.user = s.user_id
           /\ UserSessionSeq(rows, a) = UserSessionSeq(rows, b)
           /\ a.ev.time = s.session_start /\ b.ev.time = s.session_end
           /\ s.batch_session_id = BatchSessionId(rows, a)
           /\ \A q \in Rows(rows, s.batch_session_id) :
                s.session_start <= q.ev.time /\ q.ev.time <= s.session_end
<1>1. PICK r \in rows :
        s = Session(BatchSessionId(rows, r), Rows(rows, BatchSessionId(rows, r)))
  BY DEF Sessions, Rows
<1> DEFINE id == BatchSessionId(rows, r)
           mine == Rows(rows, id)
           times == {q.ev.time : q \in mine}
<1>2. RowSet(mine) /\ mine # {}
  <2>1. mine \in SUBSET rows /\ r \in mine
    BY DEF Rows
  <2>2. IsFiniteSet(mine)
    <3> HIDE DEF mine
    <3> QED
      BY <2>1, FS_Subset DEF RowSet
  <2> QED
    BY <2>1, <2>2 DEF RowSet
<1>3. PICK a \in mine : \A y \in mine : y = a \/ Before(a, y)
  <2> HIDE DEF mine
  <2> QED
    BY <1>2, FirstRow
<1>4. PICK b \in mine : \A y \in mine : y = b \/ Before(y, b)
  <2> HIDE DEF mine
  <2> QED
    BY <1>2, LastRow
<1>5. times \subseteq Nat
  BY <1>2, RowType DEF RowSet
<1>6. a.ev.time \in times /\ \A t \in times : a.ev.time <= t
  BY <1>2, <1>3, <1>5, BeforeOrders DEF RowSet
<1>7. b.ev.time \in times /\ \A t \in times : t <= b.ev.time
  BY <1>2, <1>4, <1>5, BeforeOrders DEF RowSet
<1>8. Min(times) = a.ev.time /\ Max(times) = b.ev.time
  <2> HIDE DEF times
  <2>1. Min(times) \in times /\ \A t \in times : Min(times) <= t
    BY <1>6 DEF Min
  <2>2. Max(times) \in times /\ \A t \in times : Max(times) >= t
    BY <1>5, <1>7 DEF Max
  <2>3. a.ev.time \in Nat /\ Min(times) \in Nat /\ b.ev.time \in Nat /\ Max(times) \in Nat
    BY <1>5, <1>6, <1>7, <2>1, <2>2
  <2>4. Min(times) <= a.ev.time /\ a.ev.time <= Min(times)
    BY <1>6, <2>1
  <2>5. Max(times) >= b.ev.time /\ Max(times) <= b.ev.time
    BY <1>7, <2>2
  <2> QED
    BY <2>3, <2>4, <2>5
<1>9. /\ s.session_start = Min(times) /\ s.session_end = Max(times)
      /\ s.user_id = id[1] /\ s.batch_session_id = id
  BY <1>1 DEF Session
<1>10. /\ BatchSessionId(rows, a) = id /\ BatchSessionId(rows, b) = id
       /\ a \in rows /\ b \in rows
  BY <1>3, <1>4 DEF Rows
<1>11. /\ a.ev.user = id[1] /\ b.ev.user = id[1]
       /\ UserSessionSeq(rows, a) = UserSessionSeq(rows, b)
  BY <1>10 DEF BatchSessionId
<1>12. \A q \in mine : s.session_start <= q.ev.time /\ q.ev.time <= s.session_end
  <2>1. \A q \in mine : q.ev.time \in times
    OBVIOUS
  <2> HIDE DEF times, mine
  <2> QED
    BY <1>6, <1>7, <1>8, <1>9, <2>1
<1> QED
  BY <1>1, <1>8, <1>9, <1>10, <1>11, <1>12

(* Of two sessions of a user the one with the smaller number ends longer   *)
(* than the timeout before the other starts.                               *)
LEMMA SmallerNumberApart ==
  ASSUME NEW rows, RowSet(rows), NEW b \in rows, NEW a \in rows, b.ev.user = a.ev.user,
         UserSessionSeq(rows, b) < UserSessionSeq(rows, a)
  PROVE  b.ev.time + Timeout < a.ev.time
<1>1. PICK x \in rows : /\ x.ev.user = a.ev.user /\ IsSessionStart(rows, x)
                        /\ b.ev.time < x.ev.time /\ x.ev.time <= a.ev.time
  BY SeqGrowsAtStarts
<1>2. b.ev.time + Timeout < x.ev.time
  BY <1>1, StartAfterGap
<1>3. b.ev.time \in Nat /\ x.ev.time \in Nat /\ a.ev.time \in Nat
  BY RowType DEF RowSet
<1> QED
  BY <1>1, <1>2, <1>3, BatchAssumption

LEMMA DaySessionsApart ==
  ASSUME NEW rows, RowSet(rows)
  PROVE  SessionPairsApart(Sessions(rows), Sessions(rows))
<1> SUFFICES ASSUME NEW s \in Sessions(rows), NEW t \in Sessions(rows),
                    s # t, s.user_id = t.user_id
             PROVE  \/ s.session_end + Timeout < t.session_start
                    \/ t.session_end + Timeout < s.session_start
  BY DEF SessionPairsApart
<1>1. PICK a \in rows, b \in rows :
        /\ s = Session(BatchSessionId(rows, a), Rows(rows, BatchSessionId(rows, a)))
        /\ a.ev.user = s.user_id /\ b.ev.user = s.user_id
        /\ UserSessionSeq(rows, a) = UserSessionSeq(rows, b)
        /\ a.ev.time = s.session_start /\ b.ev.time = s.session_end
  BY SessionSpan
<1>2. PICK c \in rows, d \in rows :
        /\ t = Session(BatchSessionId(rows, c), Rows(rows, BatchSessionId(rows, c)))
        /\ c.ev.user = t.user_id /\ d.ev.user = t.user_id
        /\ UserSessionSeq(rows, c) = UserSessionSeq(rows, d)
        /\ c.ev.time = t.session_start /\ d.ev.time = t.session_end
  BY SessionSpan
<1>3. UserSessionSeq(rows, a) # UserSessionSeq(rows, c)
  <2> SUFFICES ASSUME UserSessionSeq(rows, a) = UserSessionSeq(rows, c) PROVE FALSE
    OBVIOUS
  <2>1. BatchSessionId(rows, a) = BatchSessionId(rows, c)
    BY <1>1, <1>2 DEF BatchSessionId
  <2> QED
    BY <1>1, <1>2, <2>1
<1>4. UserSessionSeq(rows, a) \in Nat /\ UserSessionSeq(rows, c) \in Nat
  BY SeqCounts
<1>5. CASE UserSessionSeq(rows, a) < UserSessionSeq(rows, c)
  BY <1>1, <1>2, <1>5, SmallerNumberApart
<1>6. CASE UserSessionSeq(rows, c) < UserSessionSeq(rows, a)
  BY <1>1, <1>2, <1>6, SmallerNumberApart
<1> QED
  BY <1>3, <1>4, <1>5, <1>6

(* After a row of a session that is not its last, the user's next is not   *)
(* further away than the timeout.                                          *)
LEMMA NoGapInSession ==
  ASSUME NEW rows, RowSet(rows), NEW s \in Sessions(rows),
         NEW r \in rows, r.ev.user = s.user_id,
         s.session_start <= r.ev.time, r.ev.time < s.session_end
  PROVE  \E x \in rows : /\ x.ev.user = s.user_id
                         /\ r.ev.time < x.ev.time /\ x.ev.time <= r.ev.time + Timeout
<1>1. PICK a \in rows, b \in rows :
        /\ a.ev.user = s.user_id /\ b.ev.user = s.user_id
        /\ UserSessionSeq(rows, a) = UserSessionSeq(rows, b)
        /\ a.ev.time = s.session_start /\ b.ev.time = s.session_end
  BY SessionSpan
<1>2. PICK x \in rows :
        /\ x.ev.user = r.ev.user
        /\ r.ev.time < x.ev.time /\ x.ev.time <= b.ev.time
        /\ x.ev.time > r.ev.time + Timeout => IsSessionStart(rows, x)
  BY <1>1, GapMakesStart
<1>3. a.ev.time \in Nat /\ r.ev.time \in Nat /\ x.ev.time \in Nat
  BY RowType DEF RowSet
<1>4. ~IsSessionStart(rows, x)
  BY <1>1, <1>2, <1>3, SeqGrowsAtStarts
<1> QED
  BY <1>2, <1>3, <1>4, BatchAssumption

----------------------------------------------------------------------------
(* What a session is computed from                                         *)

Prices == [r \in ArchiveRow |-> r.ev.price]
OfType(type, rows) == {r \in rows : r.ev.type = type}

LEMMA RowsOf ==
  ASSUME NEW rows, RowSet(rows), NEW some \in SUBSET rows
  PROVE  RowSet(some) /\ Cardinality(some) \in Nat
  BY FS_Subset, FS_CardinalityType DEF RowSet

LEMMA PricesAre ==
  ASSUME NEW rows, RowSet(rows), NEW type
  PROVE  /\ SumOfPrices(type, rows) = Sum(Prices, OfType(type, rows))
         /\ SumOfPrices(type, rows) \in Nat
<1>1. RowSet(OfType(type, rows))
  BY RowsOf DEF OfType
<1>2. \A r \in OfType(type, rows) : Prices[r] = r.ev.price /\ Prices[r] \in Nat
  BY <1>1, BatchAssumption DEF RowSet, Prices, ArchiveRow, Event
<1>3. SumOfPrices(type, rows) = MapThenSumSet(LAMBDA r : r.ev.price, OfType(type, rows))
  BY DEF SumOfPrices, OfType
<1>4. MapThenSumSet(LAMBDA r : r.ev.price, OfType(type, rows)) = Sum(Prices, OfType(type, rows))
  BY <1>1, <1>2, PriceSum DEF RowSet
<1>5. Sum(Prices, OfType(type, rows)) \in Nat
  BY <1>1, <1>2, SumType DEF RowSet
<1> QED
  BY <1>3, <1>4, <1>5

(* More rows cost no less.                                                 *)
LEMMA SumGrows ==
  ASSUME NEW w, NEW S, IsFiniteSet(S), \A x \in S : w[x] \in Nat, NEW T \in SUBSET S
  PROVE  Sum(w, T) <= Sum(w, S)
<1> DEFINE Bad == {A \in SUBSET S : T \subseteq A /\ ~(Sum(w, T) <= Sum(w, A))}
<1> SUFFICES ASSUME Bad # {} PROVE FALSE
  OBVIOUS
<1>1. PICK A \in Bad : \A B \in Bad : B \subseteq A => B = A
  <2>1. Bad \subseteq SUBSET S
    OBVIOUS
  <2> HIDE DEF Bad
  <2> QED
    BY <2>1, SmallestMember
<1>2. A \in SUBSET S /\ T \subseteq A /\ ~(Sum(w, T) <= Sum(w, A))
  OBVIOUS
<1>3. \A B \in SUBSET S : Sum(w, B) \in Nat
  BY FS_Subset, SumType
<1>4. A # T
  BY <1>2, <1>3
<1>5. PICK x \in A : x \notin T
  BY <1>2, <1>4
<1>6. Sum(w, A) = w[x] + Sum(w, A \ {x})
  BY <1>2, FS_Subset, SumRemove
<1>7. A \ {x} \notin Bad
  <2> HIDE DEF Bad
  <2> QED
    BY <1>1, <1>5
<1>8. Sum(w, T) <= Sum(w, A \ {x})
  BY <1>2, <1>5, <1>7
<1> HIDE DEF Bad
<1>9. w[x] \in Nat /\ Sum(w, A \ {x}) \in Nat /\ Sum(w, T) \in Nat
  BY <1>2, <1>3
<1> QED
  BY <1>2, <1>6, <1>8, <1>9

LEMMA PricesGrow ==
  ASSUME NEW rows, RowSet(rows), NEW type, NEW some \in SUBSET rows
  PROVE  SumOfPrices(type, some) <= SumOfPrices(type, rows)
<1>1. RowSet(some)
  BY RowsOf
<1>2. /\ SumOfPrices(type, some) = Sum(Prices, OfType(type, some))
      /\ SumOfPrices(type, rows) = Sum(Prices, OfType(type, rows))
  BY <1>1, PricesAre
<1>3. OfType(type, some) \in SUBSET OfType(type, rows)
  BY DEF OfType
<1>4. RowSet(OfType(type, rows))
  BY RowsOf DEF OfType
<1>5. \A r \in OfType(type, rows) : Prices[r] \in Nat
  BY <1>4, BatchAssumption DEF RowSet, Prices, ArchiveRow, Event
<1> QED
  BY <1>2, <1>3, <1>4, <1>5, SumGrows DEF RowSet

(* The latest time is a row's.                                             *)
LEMMA LatestTime ==
  ASSUME NEW rows, RowSet(rows), rows # {}
  PROVE  /\ Max({r.ev.time : r \in rows}) \in Nat
         /\ \E b \in rows : Max({r.ev.time : r \in rows}) = b.ev.time
         /\ \A r \in rows : r.ev.time <= Max({q.ev.time : q \in rows})
<1> DEFINE times == {r.ev.time : r \in rows}
<1>1. times \subseteq Nat
  BY RowType DEF RowSet
<1>2. PICK b \in rows : \A y \in rows : y = b \/ Before(y, b)
  BY LastRow
<1>3. b.ev.time \in times /\ \A t \in times : t <= b.ev.time
  BY <1>1, <1>2, BeforeOrders DEF RowSet
<1>4. Max(times) \in times /\ \A t \in times : Max(times) >= t
  <2> HIDE DEF times
  <2> QED
    BY <1>1, <1>3 DEF Max
<1>5. \A r \in rows : r.ev.time \in times
  OBVIOUS
<1>6. \A t \in times : \E r \in rows : t = r.ev.time
  OBVIOUS
<1> HIDE DEF times
<1> QED
  BY <1>1, <1>4, <1>5, <1>6 DEF times

(* Each field of a session has its type.                                   *)
LEMMA SessionTyped ==
  ASSUME NEW rows, RowSet(rows), NEW s \in Sessions(rows)
  PROVE  s \in BatchSession
<1>1. PICK a \in rows, b \in rows :
        /\ s = Session(BatchSessionId(rows, a), Rows(rows, BatchSessionId(rows, a)))
        /\ a.ev.user = s.user_id
        /\ a.ev.time = s.session_start /\ b.ev.time = s.session_end
  BY SessionSpan
<1> DEFINE id == BatchSessionId(rows, a)
           mine == Rows(rows, id)
<1>2. RowSet(mine) /\ Cardinality(mine) \in Nat
  BY RowsOf DEF Rows
<1>3. id \in Users \X Nat
  BY <1>1, RowType, SeqCounts DEF BatchSessionId, RowSet
<1>4. SumOfPrices("cart", mine) \in Nat /\ SumOfPrices("purchase", mine) \in Nat
  BY <1>2, PricesAre
<1>5. Cardinality({r \in mine : r.ev.late}) \in Nat
  BY <1>2, RowsOf
<1>6. {r.ev.sid : r \in mine} \subseteq SessionIds
  BY <1>2, BatchAssumption DEF RowSet, ArchiveRow, Event
<1>7. /\ s.user_id \in Users /\ s.session_start \in Nat /\ s.session_end \in Nat
  BY <1>1, RowType DEF RowSet
<1>8. /\ s.batch_session_id = id /\ s.event_count = Cardinality(mine)
      /\ s.cart_total = SumOfPrices("cart", mine)
      /\ s.conversion_value = SumOfPrices("purchase", mine)
      /\ s.late_arrival_count = Cardinality({r \in mine : r.ev.late})
      /\ s.original_session_ids = {r.ev.sid : r \in mine}
      /\ s.converted \in BOOLEAN
  BY <1>1 DEF Session
<1>9. s = [batch_session_id |-> s.batch_session_id, user_id |-> s.user_id,
           session_start |-> s.session_start, session_end |-> s.session_end,
           event_count |-> s.event_count, cart_total |-> s.cart_total,
           conversion_value |-> s.conversion_value, converted |-> s.converted,
           late_arrival_count |-> s.late_arrival_count,
           original_session_ids |-> s.original_session_ids]
  BY <1>1 DEF Session
<1> HIDE DEF id, mine
<1> QED
  BY <1>2, <1>3, <1>4, <1>5, <1>6, <1>7, <1>8, <1>9 DEF BatchSession

(* The rows between a session's first and last time are those of its id.   *)
LEMMA OwnSession ==
  ASSUME NEW rows, RowSet(rows), NEW r \in rows
  PROVE  \E s \in Sessions(rows) :
           s.batch_session_id = BatchSessionId(rows, r) /\ Within(r, s)
<1> DEFINE id == BatchSessionId(rows, r)
           s == Session(id, Rows(rows, id))
<1>1. s \in Sessions(rows)
  BY DEF Sessions, Rows
<1>2. s.batch_session_id = id /\ s.user_id = r.ev.user
  BY DEF Session, BatchSessionId
<1>3. r \in Rows(rows, id)
  BY DEF Rows
<1>4. r.ev.time \in Nat
  BY RowType DEF RowSet
<1> HIDE DEF s, id
<1>5. s \in BatchSession
  BY <1>1, SessionTyped
<1>6. s.session_start <= r.ev.time /\ r.ev.time <= s.session_end
  BY <1>1, <1>2, <1>3, SessionSpan
<1>7. Within(r, s)
  BY <1>2, <1>4, <1>5, <1>6 DEF Within, BatchSession
<1> QED
  BY <1>1, <1>2, <1>7 DEF id

LEMMA OwnRows ==
  ASSUME NEW rows, RowSet(rows), NEW s \in Sessions(rows)
  PROVE  /\ {r \in rows : Within(r, s)} = Rows(rows, s.batch_session_id)
         /\ s = Session(s.batch_session_id, Rows(rows, s.batch_session_id))
         /\ Rows(rows, s.batch_session_id) # {}
<1>1. PICK a \in rows :
        /\ s = Session(BatchSessionId(rows, a), Rows(rows, BatchSessionId(rows, a)))
        /\ s.batch_session_id = BatchSessionId(rows, a)
        /\ \A r \in Rows(rows, s.batch_session_id) :
             s.session_start <= r.ev.time /\ r.ev.time <= s.session_end
  BY SessionSpan
<1>2. s \in BatchSession
  BY SessionTyped
<1>3. s.user_id = s.batch_session_id[1]
  <2> DEFINE id == BatchSessionId(rows, a)
  <2>1. Session(id, Rows(rows, id)).user_id = id[1]
    BY DEF Session
  <2> QED
    BY <1>1, <2>1
<1>4. ASSUME NEW r \in rows, BatchSessionId(rows, r) = s.batch_session_id
      PROVE  Within(r, s)
  <2>1. r.ev.user = s.user_id
    BY <1>3, <1>4 DEF BatchSessionId
  <2>2. s.session_start <= r.ev.time /\ r.ev.time <= s.session_end
    BY <1>1, <1>4 DEF Rows
  <2>3. r.ev.time \in Nat
    BY RowType DEF RowSet
  <2> QED
    BY <1>2, <2>1, <2>2, <2>3 DEF Within, BatchSession
<1>5. ASSUME NEW r \in rows, Within(r, s)
      PROVE  BatchSessionId(rows, r) = s.batch_session_id
  <2>1. PICK t \in Sessions(rows) :
          t.batch_session_id = BatchSessionId(rows, r) /\ Within(r, t)
    BY OwnSession
  <2>2. t \in BatchSession /\ r.ev.time \in Nat
    BY SessionTyped, RowType DEF RowSet
  <2>3. ~(s.session_end + Timeout < t.session_start \/ t.session_end + Timeout < s.session_start)
    <3>1. /\ s.session_start <= r.ev.time /\ r.ev.time <= s.session_end
          /\ t.session_start <= r.ev.time /\ r.ev.time <= t.session_end
          /\ s.session_start \in Nat /\ s.session_end \in Nat
          /\ t.session_start \in Nat /\ t.session_end \in Nat /\ Timeout \in Nat
      BY <1>2, <1>5, <2>1, <2>2, BatchAssumption DEF Within, BatchSession
    <3> QED
      BY <2>2, <3>1
  <2>4. s.user_id = t.user_id
    BY <1>5, <2>1 DEF Within
  <2>5. s = t
    BY <2>3, <2>4, DaySessionsApart DEF SessionPairsApart
  <2> QED
    BY <2>1, <2>5
<1>6. a \in Rows(rows, s.batch_session_id)
  BY <1>1 DEF Rows
<1> QED
  BY <1>1, <1>4, <1>5, <1>6 DEF Rows

----------------------------------------------------------------------------
(* The counts of the sessions                                              *)

LEMMA SessionsFinite ==
  ASSUME NEW rows, RowSet(rows)
  PROVE  IsFiniteSet(Sessions(rows))
<1> DEFINE f == [r \in rows |-> Session(BatchSessionId(rows, r),
                                        Rows(rows, BatchSessionId(rows, r)))]
<1>1. ASSUME NEW s \in Sessions(rows) PROVE \E r \in rows : f[r] = s
  BY SessionSpan
<1>2. \A r \in rows : f[r] \in Sessions(rows)
  BY DEF Sessions, Rows
<1>3. f \in Surjection(rows, Sessions(rows))
  <2>1. f = [r \in rows |-> f[r]]
    OBVIOUS
  <2> HIDE DEF f
  <2> QED
    BY <1>1, <1>2, <2>1 DEF Surjection
<1> HIDE DEF f
<1> QED
  BY <1>3, FS_Surjection DEF RowSet

LEMMA CountSum ==
  ASSUME NEW S, IsFiniteSet(S), NEW w, \A s \in S : w[s] = s.event_count
  PROVE  MapThenSumSet(LAMBDA s : s.event_count, S) = Sum(w, S)
<1> DEFINE Eq(g) == g = [s \in SUBSET S |-> IF s = {} THEN 0
                             ELSE (CHOOSE x \in s : TRUE).event_count
                                    + g[s \ {CHOOSE x \in s : TRUE}]]
<1>1. MapThenSumSet(LAMBDA s : s.event_count, S) = (CHOOSE g : Eq(g))[S]
  BY DEF MapThenSumSet, MapThenFoldSet
<1>2. \A s \in SUBSET S : s # {} => Pick(s).event_count = w[Pick(s)]
  BY PickIn
<1>3. \A g : Eq(g) <=> g = [s \in SUBSET S |-> IF s = {} THEN 0
                             ELSE Pick(s).event_count + g[s \ {Pick(s)}]]
  BY DEF Pick
<1>4. \A g : Eq(g) <=> SumsOn(w, SUBSET S, g)
  <2> HIDE DEF Eq
  <2> QED
    BY <1>2, <1>3 DEF SumsOn, Plus
<1>5. PICK g : SumsOn(w, SUBSET S, g)
  BY SumsExist
<1>6. Eq(CHOOSE h : Eq(h))
  <2> HIDE DEF Eq
  <2> QED
    BY <1>4, <1>5
<1>7. S \in SUBSET S
  OBVIOUS
<1> HIDE DEF Eq
<1> QED
  BY <1>1, <1>4, <1>6, <1>7, SumOfSubset

(* Some of the sessions count together the rows that have their ids.       *)
LEMMA SessionsCountRows ==
  ASSUME NEW rows, RowSet(rows)
  PROVE  MapThenSumSet(LAMBDA s : s.event_count, Sessions(rows)) = Cardinality(rows)
<1> DEFINE all == Sessions(rows)
           w == [s \in all |-> s.event_count]
           Of(A) == {r \in rows : \E s \in A : s.batch_session_id = BatchSessionId(rows, r)}
           Bad == {A \in SUBSET all : Sum(w, A) # Cardinality(Of(A))}
<1>1. IsFiniteSet(all)
  BY SessionsFinite
<1>2. Bad = {}
  <2> SUFFICES ASSUME Bad # {} PROVE FALSE
    OBVIOUS
  <2>1. PICK A \in Bad : \A B \in Bad : B \subseteq A => B = A
    <3>1. Bad \subseteq SUBSET all
      OBVIOUS
    <3> HIDE DEF Bad, all
    <3> QED
      BY <1>1, <3>1, SmallestMember
  <2>2. A \in SUBSET all /\ Sum(w, A) # Cardinality(Of(A))
    BY <2>1
  <2>3. IsFiniteSet(A)
    BY <1>1, <2>2, FS_Subset
  <2>4. CASE A = {}
    <3>1. Of(A) = {}
      BY <2>4
    <3>2. Sum(w, A) = 0
      BY <2>3, <2>4, SumStep
    <3> QED
      BY <2>2, <3>1, <3>2, FS_EmptySet
  <2>5. CASE A # {}
    <3> DEFINE s == Pick(A)
               B == A \ {s}
    <3>1. s \in A /\ s \in all /\ B \in SUBSET all /\ B \subseteq A /\ B # A
      BY <2>2, <2>5, PickIn
    <3>2. Sum(w, B) = Cardinality(Of(B))
      BY <2>1, <3>1
    <3>3. Sum(w, A) = w[s] + Sum(w, B)
      BY <2>3, <2>5, SumStep
    <3>4. w[s] = Cardinality(Rows(rows, s.batch_session_id))
      <4>1. s = Session(s.batch_session_id, Rows(rows, s.batch_session_id))
        BY <3>1, OwnRows
      <4> DEFINE id == s.batch_session_id
      <4>2. Session(id, Rows(rows, id)).event_count = Cardinality(Rows(rows, id))
        BY DEF Session
      <4>3. w[s] = s.event_count
        BY <3>1
      <4> HIDE DEF s, w
      <4> QED
        BY <4>1, <4>2, <4>3
    <3>5. Of(A) = Rows(rows, s.batch_session_id) \cup Of(B)
      BY <3>1 DEF Rows
    <3>6. Rows(rows, s.batch_session_id) \cap Of(B) = {}
      <4> SUFFICES ASSUME NEW t \in B, t.batch_session_id = s.batch_session_id
                   PROVE  FALSE
        BY DEF Rows
      <4>1. /\ s = Session(s.batch_session_id, Rows(rows, s.batch_session_id))
            /\ t = Session(t.batch_session_id, Rows(rows, t.batch_session_id))
        BY <3>1, OwnRows
      <4> QED
        BY <4>1
    <3> DEFINE mine == Rows(rows, s.batch_session_id)
               rest == Of(B)
    <3>7. /\ IsFiniteSet(mine) /\ IsFiniteSet(rest)
          /\ Cardinality(mine) \in Nat /\ Cardinality(rest) \in Nat
      <4>1. mine \in SUBSET rows /\ rest \in SUBSET rows
        BY DEF Rows
      <4> HIDE DEF mine, rest
      <4> QED
        BY <4>1, RowsOf DEF RowSet
    <3>8. Cardinality(mine \cup rest) = Cardinality(mine) + Cardinality(rest)
      <4>1. mine \cap rest = {}
        BY <3>6
      <4> HIDE DEF mine, rest
      <4> QED
        BY <3>7, <4>1, FS_Union, FS_EmptySet
    <3>9. Cardinality(Of(A)) = Sum(w, A)
      <4> HIDE DEF w, B, s, Of
      <4> QED
        BY <3>2, <3>3, <3>4, <3>5, <3>8
    <3> QED
      BY <2>2, <3>9
  <2> QED
    BY <2>4, <2>5
<1>3. Sum(w, all) = Cardinality(Of(all))
  BY <1>2
<1>4. Of(all) = rows
  BY OwnSession
<1>5. MapThenSumSet(LAMBDA s : s.event_count, all) = Sum(w, all)
  <2>1. \A s \in all : w[s] = s.event_count
    OBVIOUS
  <2> HIDE DEF w, all
  <2> QED
    BY <1>1, <2>1, CountSum
<1> HIDE DEF w
<1> QED
  BY <1>3, <1>4, <1>5

----------------------------------------------------------------------------
(* The stitcher                                                            *)

(* What has been written is what the definition makes of the rows it was   *)
(* written from, and these are finite.                                     *)
StitchInv ==
  /\ today \in Days
  /\ archive = [d \in Days |-> archive[d]]
  /\ stitched = [d \in Days |-> stitched[d]]
  /\ corrected = [d \in Days |-> corrected[d]]
  /\ \A d \in Days : RowSet(archive[d]) /\ RowSet(stitched[d])
  /\ \A d \in Written : corrected[d] = Sessions(stitched[d])

LEMMA StitchInvInit == Init => StitchInv
<1> SUFFICES ASSUME Init PROVE StitchInv
  OBVIOUS
<1>1. RowSet({})
  BY FS_EmptySet DEF RowSet
<1> QED
  BY <1>1, BatchAssumption DEF Init, StitchInv, Days, Written

LEMMA AllRowsFinite == ASSUME StitchInv PROVE RowSet(AllRows)
<1> DEFINE f == [d \in Days |-> archive[d]]
           parts == {archive[d] : d \in Days}
<1>1. IsFiniteSet(Days)
  BY BatchAssumption, FS_Interval DEF Days
<1>2. f \in Surjection(Days, parts)
  BY DEF Surjection
<1>3. IsFiniteSet(parts)
  <2> HIDE DEF f, parts
  <2> QED
    BY <1>1, <1>2, FS_Surjection
<1>4. \A P \in parts : IsFiniteSet(P)
  BY DEF StitchInv, RowSet
<1>5. IsFiniteSet(UNION parts)
  <2> HIDE DEF parts
  <2> QED
    BY <1>3, <1>4, FS_UNION
<1>6. AllRows \subseteq ArchiveRow
  BY DEF AllRows, StitchInv, RowSet
<1> QED
  BY <1>5, <1>6 DEF AllRows, RowSet

LEMMA RowsAdded ==
  ASSUME StitchInv, NEW batch, RowSet(batch),
         archive' = [archive EXCEPT ![today] = @ \cup batch],
         UNCHANGED <<today, jobVars>>
  PROVE  StitchInv'
<1>1. RowSet(archive[today] \cup batch)
  BY FS_Union DEF StitchInv, RowSet
<1>2. /\ archive' = [d \in Days |-> archive'[d]]
      /\ \A d \in Days : archive'[d] = archive[d] \/ archive'[d] = archive[today] \cup batch
  BY DEF StitchInv
<1>3. \A d \in Days : RowSet(archive'[d])
  BY <1>1, <1>2 DEF StitchInv
<1>4. \A d \in Days : RowSet(archive[d])' /\ RowSet(stitched[d])'
  BY <1>3 DEF StitchInv, RowSet, jobVars
<1> QED
  BY <1>2, <1>4 DEF StitchInv, Written, jobVars, Days

LEMMA BatchRows ==
  ASSUME NEW batch \in SUBSET Arriving, IsFiniteSet(batch)
  PROVE  RowSet(batch) /\ batch \subseteq Row /\ batch \cap AllRows = {}
<1>1. 0 .. MaxCopies \subseteq Nat
  BY BatchAssumption
<1> QED
  BY <1>1, BatchAssumption DEF Arriving, RowSet, ArchiveRow, Row

LEMMA StitchInvStep == StitchInv /\ [Next]_vars => StitchInv'
<1> SUFFICES ASSUME StitchInv, [Next]_vars PROVE StitchInv'
  OBVIOUS
<1>1. ASSUME NEW batch \in SUBSET Arriving, Handle(batch) PROVE StitchInv'
  BY <1>1, BatchRows, RowsAdded DEF Handle
<1>2. ASSUME NEW x \in SessionIds, Expire(x) PROVE StitchInv'
  <2>1. UNCHANGED <<today, archive, corrected, stitched>>
    BY <1>2 DEF Expire, jobVars
  <2> QED
    BY <2>1 DEF StitchInv, Written, RowSet
<1>3. ASSUME Midnight PROVE StitchInv'
  <2>1. today' \in Days
    BY <1>3, BatchAssumption DEF Midnight, StitchInv, Days
  <2> QED
    BY <1>3, <2>1 DEF Midnight, StitchInv, jobVars, Written, RowSet
<1>4. ASSUME NEW d \in Days, Stitch(d) PROVE StitchInv'
  <2>1. /\ stitched' = [c \in Days |-> IF c = d THEN archive[d] ELSE stitched[c]]
        /\ corrected' = [c \in Days |-> IF c = d THEN Sessions(archive[d]) ELSE corrected[c]]
        /\ archive' = archive /\ today' = today
    BY <1>4 DEF Stitch, StitchInv
  <2>2. \A c \in Days : RowSet(archive'[c]) /\ RowSet(stitched'[c])
    BY <2>1 DEF StitchInv
  <2>3. \A c \in Days : corrected'[c] # Missing => corrected'[c] = Sessions(stitched'[c])
    BY <2>1 DEF StitchInv, Written
  <2>4. (\A c \in Days : RowSet(archive[c]) /\ RowSet(stitched[c]))'
    BY <2>2 DEF RowSet
  <2>5. (\A c \in Written : corrected[c] = Sessions(stitched[c]))'
    BY <2>3 DEF Written
  <2> QED
    BY <2>1, <2>4, <2>5 DEF StitchInv
<1>5. ASSUME NEW d \in Days, StitchDies(d) PROVE StitchInv'
  <2>1. /\ corrected' = [c \in Days |-> IF c = d THEN Missing ELSE corrected[c]]
        /\ stitched' = [c \in Days |-> IF c = d THEN {} ELSE stitched[c]]
        /\ archive' = archive /\ today' = today
    BY <1>5 DEF StitchDies, StitchInv
  <2>2. (\A c \in Written : corrected[c] = Sessions(stitched[c]))'
    BY <2>1 DEF StitchInv, Written
  <2>3. RowSet({})
    BY FS_EmptySet DEF RowSet
  <2>4. \A c \in Days : RowSet(archive[c]) /\ RowSet(stitched'[c])
    BY <2>1, <2>3 DEF StitchInv
  <2>5. (\A c \in Days : RowSet(archive[c]) /\ RowSet(stitched[c]))'
    BY <2>1, <2>4 DEF RowSet
  <2> QED
    BY <2>1, <2>2, <2>5 DEF StitchInv
<1>6. ASSUME UNCHANGED <<today, archive, corrected, stitched>> PROVE StitchInv'
  BY <1>6 DEF StitchInv, Written, RowSet
<1>7. ASSUME NEW d \in Days, Export(d) \/ Audit(d) \/ AuditDies(d) PROVE StitchInv'
  BY <1>6, <1>7 DEF Export, Audit, AuditDies
<1>8. ASSUME UNCHANGED vars PROVE StitchInv'
  BY <1>6, <1>8 DEF vars, jobVars
<1>9. Dates \subseteq Days
  BY BatchAssumption DEF Days
<1> QED
  BY <1>1, <1>2, <1>3, <1>4, <1>5, <1>7, <1>8, <1>9 DEF Next

(* Any two sessions of a user that session_stitcher.py writes for a day    *)
(* are further apart than the timeout, whatever arrives late, twice or at  *)
(* equal times, and whenever and how often the job runs or dies: the       *)
(* running sum of is_session_start never divides where there is no gap.    *)
THEOREM SessionsKeptApart == Spec => []SessionsApart
<1>1. StitchInv => SessionsApart
  <2> SUFFICES ASSUME StitchInv, NEW d \in Written
               PROVE  SessionPairsApart(corrected[d], corrected[d])
    BY DEF SessionsApart
  <2>1. RowSet(stitched[d]) /\ corrected[d] = Sessions(stitched[d])
    BY DEF StitchInv, Written
  <2> QED
    BY <2>1, DaySessionsApart
<1> QED
  BY <1>1, StitchInvInit, StitchInvStep, PTL DEF Spec

(* Within a session that the stitcher writes, the user's next event after  *)
(* any but the last is not further away than the timeout: every gap the    *)
(* lag sees is a boundary, those at equal times and of copies included.    *)
THEOREM SessionsHaveNoGap == Spec => []NoGapWithin
<1>1. StitchInv => NoGapWithin
  <2> SUFFICES ASSUME StitchInv, NEW d \in Written, NEW s \in corrected[d],
                      NEW t \in s.session_start .. (s.session_end - Timeout - 1),
                      NEW r \in stitched[d], r.ev.user = s.user_id, r.ev.time = t
               PROVE  \E u \in (t + 1) .. (t + Timeout) :
                        \E q \in stitched[d] : q.ev.user = s.user_id /\ q.ev.time = u
    BY DEF NoGapWithin
  <2>1. RowSet(stitched[d]) /\ s \in Sessions(stitched[d])
    BY DEF StitchInv, Written
  <2>2. PICK a \in stitched[d], b \in stitched[d] :
          a.ev.time = s.session_start /\ b.ev.time = s.session_end
    BY <2>1, SessionSpan
  <2>3. s.session_start \in Nat /\ s.session_end \in Nat /\ Timeout \in Nat
    BY <2>1, <2>2, RowType, BatchAssumption DEF RowSet
  <2>4. s.session_start <= r.ev.time /\ r.ev.time < s.session_end
    BY <2>3
  <2>5. PICK x \in stitched[d] :
          /\ x.ev.user = s.user_id
          /\ r.ev.time < x.ev.time /\ x.ev.time <= r.ev.time + Timeout
    BY <2>1, <2>4, NoGapInSession
  <2>6. x.ev.time \in Nat /\ t \in Nat
    BY <2>1, <2>5, RowType DEF RowSet
  <2>7. x.ev.time \in (t + 1) .. (t + Timeout)
    BY <2>3, <2>5, <2>6
  <2> QED
    BY <2>5, <2>7
<1> QED
  BY <1>1, StitchInvInit, StitchInvStep, PTL DEF Spec

(* The window functions lose no row and count none for two sessions: every *)
(* row of a stitched day is within a session of its user, each session     *)
(* counts the rows within it, and the counts add up to the rows.           *)
THEOREM RowsArePartitioned == Spec => []RowsPartitioned
<1>1. StitchInv => RowsPartitioned
  <2> SUFFICES ASSUME StitchInv, NEW d \in Written
               PROVE  /\ \A r \in stitched[d] : \E s \in corrected[d] : Within(r, s)
                      /\ \A s \in corrected[d] :
                           s.event_count = Cardinality({r \in stitched[d] : Within(r, s)})
                      /\ MapThenSumSet(LAMBDA s : s.event_count, corrected[d])
                           = Cardinality(stitched[d])
    BY DEF RowsPartitioned
  <2> DEFINE rows == stitched[d]
  <2>1. RowSet(rows) /\ corrected[d] = Sessions(rows)
    BY DEF StitchInv, Written
  <2>2. \A r \in rows : \E s \in Sessions(rows) : Within(r, s)
    BY <2>1, OwnSession
  <2>3. ASSUME NEW s \in Sessions(rows)
        PROVE  s.event_count = Cardinality({r \in rows : Within(r, s)})
    <3> DEFINE id == s.batch_session_id
    <3>1. s = Session(id, Rows(rows, id)) /\ {r \in rows : Within(r, s)} = Rows(rows, id)
      BY <2>1, OwnRows
    <3>2. Session(id, Rows(rows, id)).event_count = Cardinality(Rows(rows, id))
      BY DEF Session
    <3> HIDE DEF id
    <3> QED
      BY <3>1, <3>2
  <2>4. MapThenSumSet(LAMBDA s : s.event_count, Sessions(rows)) = Cardinality(rows)
    BY <2>1, SessionsCountRows
  <2> QED
    BY <2>1, <2>2, <2>3, <2>4
<1> QED
  BY <1>1, StitchInvInit, StitchInvStep, PTL DEF Spec

----------------------------------------------------------------------------
(* The session table                                                       *)

(* What is applied of a group is a session, at least as late as the group. *)
LEMMA AppliedTyped ==
  ASSUME NEW item \in Item, NEW group, RowSet(group), group # {}
  PROVE  Applied(item, group) \in Item
<1> DEFINE starts == Openings(item, group)
           open == IF starts = {} THEN item ELSE NoItem
           tail == {r \in group : \A t \in starts : t <= r.ev.time}
<1>1. NoItem \in Item
  BY DEF NoItem, Item
<1>2. /\ open.event_count \in Nat /\ open.cart_total \in Nat \cup {Missing}
      /\ open.converted \in BOOLEAN
  BY <1>1 DEF Item
<1>3. Cardinality(tail) \in Nat
  BY RowsOf
<1>4. Max({r.ev.time : r \in group}) \in Nat
  BY LatestTime
<1>5. (open.converted \/ \E r \in tail : r.ev.type = "purchase") \in BOOLEAN
  OBVIOUS
<1>6. Applied(item, group) =
        [event_count |-> open.event_count + Cardinality(tail),
         cart_total |-> open.cart_total,
         converted |-> open.converted \/ \E r \in tail : r.ev.type = "purchase",
         last_event_time |-> Max({r.ev.time : r \in group})]
  BY DEF Applied
<1> HIDE DEF starts, open, tail
<1> QED
  BY <1>2, <1>3, <1>4, <1>5, <1>6 DEF Item

LEMMA OutcomesTyped ==
  ASSUME NEW item \in Item, NEW group, RowSet(group), NEW out \in Outcomes(item, group)
  PROVE  out \in Item
<1>1. ASSUME group # {} PROVE Folded(item, group) \in Item
  <2>1. Applied(item, group) \in Item /\ SumOfPrices("cart", group) \in Nat
    BY <1>1, AppliedTyped, PricesAre
  <2> QED
    BY <2>1 DEF Folded, Item
<1>2. ASSUME NEW t, {r \in group : r.ev.time < t} # {}
      PROVE  Applied(item, {r \in group : r.ev.time < t}) \in Item
  <2> DEFINE before == {r \in group : r.ev.time < t}
  <2>1. RowSet(before)
    BY RowsOf
  <2> HIDE DEF before
  <2> QED
    BY <1>2, <2>1, AppliedTyped DEF before
<1> QED
  BY <1>1, <1>2 DEF Outcomes

TableInv ==
  /\ \A d \in Days : archive[d] \subseteq Row /\ stitched[d] \subseteq Row
  /\ realtime \in [SessionIds -> Item]
  /\ spoiled \subseteq SessionIds

LEMMA TableInit == Init => TableInv
  BY DEF Init, TableInv, NoItem, Item

LEMMA GroupRows ==
  ASSUME NEW batch, RowSet(batch), NEW x
  PROVE  RowSet(Group(batch, x))
  BY RowsOf DEF Group

LEMMA HandledRows ==
  ASSUME StitchInv, NEW batch,
         archive' = [archive EXCEPT ![today] = @ \cup batch]
  PROVE  /\ AllRows' = AllRows \cup batch
         /\ \A d \in Days : archive'[d] \subseteq archive[d] \cup batch
<1>1. /\ archive'[today] = archive[today] \cup batch /\ today \in Days
      /\ \A d \in Days : d # today => archive'[d] = archive[d]
  BY DEF StitchInv
<1> QED
  BY <1>1 DEF AllRows

LEMMA TableStep == StitchInv /\ TableInv /\ [Next]_vars => TableInv'
<1> SUFFICES ASSUME StitchInv, TableInv, [Next]_vars PROVE TableInv'
  OBVIOUS
<1>1. ASSUME NEW batch \in SUBSET Arriving, Handle(batch) PROVE TableInv'
  <2>1. RowSet(batch) /\ batch \subseteq Row
    BY <1>1, BatchRows DEF Handle
  <2>2. \A d \in Days : archive'[d] \subseteq Row /\ stitched'[d] \subseteq Row
    BY <1>1, <2>1, HandledRows DEF Handle, jobVars, TableInv
  <2>3. PICK stored : /\ DOMAIN stored = SessionIds /\ stored = [x \in SessionIds |-> stored[x]]
                      /\ \A x \in SessionIds : stored[x] \in Outcomes(realtime[x], Group(batch, x))
                      /\ realtime' = stored
                      /\ spoiled' = spoiled \cup {x \in SessionIds : Spoils(batch, stored, x)}
    BY <1>1 DEF Handle
  <2>4. \A x \in SessionIds : stored[x] \in Item
    BY <2>1, <2>3, GroupRows, OutcomesTyped DEF TableInv
  <2>5. realtime' \in [SessionIds -> Item] /\ spoiled' \subseteq SessionIds
    BY <2>3, <2>4 DEF TableInv
  <2> QED
    BY <2>2, <2>5 DEF TableInv
<1>2. ASSUME NEW x \in SessionIds, Expire(x) PROVE TableInv'
  <2>1. NoItem \in Item
    BY DEF NoItem, Item
  <2> QED
    BY <1>2, <2>1 DEF Expire, jobVars, TableInv
<1>3. ASSUME UNCHANGED <<archive, realtime, spoiled>>,
             \/ stitched' = stitched
             \/ \E d \in Days : \/ stitched' = [stitched EXCEPT ![d] = archive[d]]
                                \/ stitched' = [stitched EXCEPT ![d] = {}]
      PROVE  TableInv'
  BY <1>3 DEF TableInv, StitchInv
<1>4. ASSUME NEW d \in Days,
             Stitch(d) \/ StitchDies(d) \/ Export(d) \/ Audit(d) \/ AuditDies(d)
      PROVE  TableInv'
  BY <1>3, <1>4 DEF Stitch, StitchDies, Export, Audit, AuditDies
<1>5. ASSUME Midnight \/ UNCHANGED vars PROVE TableInv'
  BY <1>3, <1>5 DEF Midnight, vars, jobVars
<1>6. Dates \subseteq Days
  BY BatchAssumption DEF Days
<1> QED
  BY <1>1, <1>2, <1>4, <1>5, <1>6 DEF Next

----------------------------------------------------------------------------
(* Sessions that came in order and whole                                   *)

OfId(rows, x) == {r \in rows : r.ev.sid = x}

(* After each row but the latest another follows within the timeout.       *)
NoGap(rows) ==
  \A r, q \in rows : r.ev.time < q.ev.time =>
    \E p \in rows : r.ev.time < p.ev.time /\ p.ev.time <= r.ev.time + Timeout

(* The item is that of the rows: of all of them, if no gap divides them.   *)
InStep(rows, item) ==
  rows # {} =>
    /\ item.cart_total \in Nat
    /\ \E r \in rows : r.ev.time = item.last_event_time
    /\ \A r \in rows : r.ev.time <= item.last_event_time
    /\ NoGap(rows) =>
         /\ item.event_count = Cardinality(rows)
         /\ item.converted <=> \E r \in rows : r.ev.type = "purchase"
         /\ item.cart_total <= SumOfPrices("cart", rows)

(* Where no gap divides the rows and the group that follows them, the      *)
(* handler sees no boundary.                                               *)
LEMMA NoBoundary ==
  ASSUME NEW rows, RowSet(rows), NEW group, RowSet(group), group # {}, NEW item \in Item,
         rows = {} => item = NoItem,
         InStep(rows, item), \A r \in group : item.last_event_time <= r.ev.time,
         NoGap(rows \cup group)
  PROVE  Openings(item, group) = {}
<1> SUFFICES ASSUME NEW g \in group, Opens(item, group, g.ev.time) PROVE FALSE
  BY DEF Openings
<1>1. /\ g.ev.time \in Nat /\ item.last_event_time \in Nat /\ Timeout \in Nat
      /\ \A r \in rows \cup group : r.ev.time \in Nat
  BY RowType, BatchAssumption DEF RowSet, Item
<1>2. CASE \A r \in group : g.ev.time <= r.ev.time
  <2>1. item # NoItem /\ g.ev.time - item.last_event_time > Timeout
    BY <1>2 DEF Opens
  <2>2. PICK r \in rows : r.ev.time = item.last_event_time
    BY <2>1 DEF InStep
  <2>3. r.ev.time < g.ev.time
    BY <1>1, <2>1, <2>2
  <2>4. PICK p \in rows \cup group : r.ev.time < p.ev.time /\ p.ev.time <= r.ev.time + Timeout
    BY <2>3 DEF NoGap
  <2>5. p \notin rows
    BY <1>1, <2>2, <2>4 DEF InStep
  <2>6. g.ev.time <= p.ev.time
    BY <1>2, <2>4, <2>5
  <2> QED
    BY <1>1, <2>1, <2>2, <2>4, <2>6
<1>3. CASE \E r \in group : ~(g.ev.time <= r.ev.time)
  <2> DEFINE earlier == {r \in group : r.ev.time < g.ev.time}
  <2>1. \A r \in earlier : g.ev.time - r.ev.time > Timeout
    BY <1>3 DEF Opens
  <2>2. RowSet(earlier) /\ earlier # {}
    BY <1>1, <1>3, RowsOf
  <2>3. PICK b \in earlier : \A r \in earlier : r.ev.time <= b.ev.time
    <3> HIDE DEF earlier
    <3> QED
      BY <2>2, LatestTime
  <2>4. PICK p \in rows \cup group : b.ev.time < p.ev.time /\ p.ev.time <= b.ev.time + Timeout
    BY DEF NoGap
  <2>5. CASE p \in group
    <3>1. p.ev.time < g.ev.time
      BY <1>1, <2>1, <2>4
    <3>2. p \in earlier
      BY <2>5, <3>1
    <3> QED
      BY <1>1, <2>3, <2>4, <3>2
  <2>6. CASE p \in rows
    <3>1. p.ev.time <= item.last_event_time /\ item.last_event_time <= b.ev.time
      BY <2>6 DEF InStep
    <3> QED
      BY <1>1, <2>4, <3>1
  <2> QED
    BY <2>4, <2>5, <2>6
<1> QED
  BY <1>2, <1>3

(* A group that follows the rows, folded in, is in step with them all.     *)
LEMMA FoldInStep ==
  ASSUME NEW rows, RowSet(rows), NEW group, RowSet(group), group # {}, NEW item \in Item,
         rows \cap group = {}, rows = {} => item = NoItem,
         InStep(rows, item), \A r \in group : item.last_event_time <= r.ev.time
  PROVE  InStep(rows \cup group, Folded(item, group))
<1> DEFINE all == rows \cup group
           new == Folded(item, group)
           last == Max({r.ev.time : r \in group})
<1>1. /\ new.last_event_time = last /\ new.cart_total = SumOfPrices("cart", group)
      /\ SumOfPrices("cart", group) \in Nat
  BY PricesAre DEF Folded, Applied
<1>2. /\ last \in Nat /\ \E b \in group : last = b.ev.time
      /\ \A r \in group : r.ev.time <= last
  BY LatestTime
<1>3. /\ item.last_event_time \in Nat /\ Timeout \in Nat
      /\ \A r \in all : r.ev.time \in Nat
  BY RowType, BatchAssumption DEF RowSet, Item
<1>4. \A r \in rows : r.ev.time <= last
  <2>1. PICK g \in group : TRUE
    OBVIOUS
  <2>2. g.ev.time <= last /\ item.last_event_time <= g.ev.time
    BY <1>2
  <2>3. \A r \in rows : r.ev.time <= item.last_event_time
    BY DEF InStep
  <2> HIDE DEF last
  <2> QED
    BY <1>2, <1>3, <2>2, <2>3
<1>5. ASSUME NoGap(all)
      PROVE  /\ new.event_count = Cardinality(all)
             /\ new.converted <=> \E r \in all : r.ev.type = "purchase"
             /\ new.cart_total <= SumOfPrices("cart", all)
  <2>1. Openings(item, group) = {}
    BY <1>5, NoBoundary
  <2>2. /\ new.event_count = item.event_count + Cardinality(group)
        /\ new.converted <=> item.converted \/ \E r \in group : r.ev.type = "purchase"
    <3>1. {r \in group : \A t \in Openings(item, group) : t <= r.ev.time} = group
      BY <2>1
    <3> QED
      BY <2>1, <3>1 DEF Folded, Applied
  <2>3. RowSet(all) /\ group \in SUBSET all
    BY FS_Union DEF RowSet
  <2>4. SumOfPrices("cart", group) <= SumOfPrices("cart", all)
    BY <2>3, PricesGrow
  <2>5. Cardinality(all) = Cardinality(rows) + Cardinality(group)
    <3>1. Cardinality(rows \cap group) = 0
      BY FS_EmptySet
    <3>2. /\ Cardinality(all) =
               Cardinality(rows) + Cardinality(group) - Cardinality(rows \cap group)
          /\ Cardinality(rows) \in Nat /\ Cardinality(group) \in Nat
      BY FS_Union, FS_CardinalityType DEF RowSet
    <3> QED
      BY <3>1, <3>2
  <2>6. /\ item.event_count = Cardinality(rows)
        /\ item.converted <=> \E r \in rows : r.ev.type = "purchase"
    <3>1. CASE rows = {}
      BY <3>1, FS_EmptySet DEF NoItem
    <3>2. CASE rows # {}
      <4>1. NoGap(rows)
        <5> SUFFICES ASSUME NEW r \in rows, NEW q \in rows, r.ev.time < q.ev.time
                     PROVE  \E p \in rows : /\ r.ev.time < p.ev.time
                                            /\ p.ev.time <= r.ev.time + Timeout
          BY DEF NoGap
        <5>1. PICK p \in all : r.ev.time < p.ev.time /\ p.ev.time <= r.ev.time + Timeout
          BY <1>5 DEF NoGap
        <5>2. CASE p \in rows
          BY <5>1, <5>2
        <5>3. CASE p \in group
          <6>1. q.ev.time <= item.last_event_time /\ item.last_event_time <= p.ev.time
            BY <5>3 DEF InStep
          <6>2. q.ev.time <= r.ev.time + Timeout
            BY <1>3, <5>1, <6>1
          <6> QED
            BY <6>2
        <5> QED
          BY <5>1, <5>2, <5>3
      <4> QED
        BY <3>2, <4>1 DEF InStep
    <3> QED
      BY <3>1, <3>2
  <2> HIDE DEF new
  <2>7. new.event_count = Cardinality(all)
    BY <2>2, <2>5, <2>6
  <2>8. new.converted <=> \E r \in all : r.ev.type = "purchase"
    BY <2>2, <2>6
  <2> QED
    BY <1>1, <2>4, <2>7, <2>8
<1> HIDE DEF new, last
<1>6. \E r \in all : r.ev.time = new.last_event_time
  BY <1>1, <1>2
<1>7. \A r \in all : r.ev.time <= new.last_event_time
  BY <1>1, <1>2, <1>4
<1> QED
  BY <1>1, <1>5, <1>6, <1>7 DEF InStep, new

StepInv ==
  \A x \in SessionIds \ spoiled :
    /\ OfId(AllRows, x) = {} => realtime[x] = NoItem
    /\ InStep(OfId(AllRows, x), realtime[x])

LEMMA StepInvStep ==
  StitchInv /\ TableInv /\ StepInv /\ [Next]_vars => StepInv'
<1> SUFFICES ASSUME StitchInv, TableInv, StepInv, [Next]_vars PROVE StepInv'
  OBVIOUS
<1>1. ASSUME NEW batch \in SUBSET Arriving, Handle(batch) PROVE StepInv'
  <2>1. RowSet(batch) /\ batch \cap AllRows = {} /\ RowSet(AllRows)
    BY <1>1, BatchRows, AllRowsFinite DEF Handle
  <2>2. AllRows' = AllRows \cup batch
    BY <1>1, HandledRows DEF Handle
  <2>3. PICK stored : /\ \A x \in SessionIds : stored[x] \in Outcomes(realtime[x], Group(batch, x))
                      /\ realtime' = stored
                      /\ spoiled' = spoiled \cup {x \in SessionIds : Spoils(batch, stored, x)}
    BY <1>1 DEF Handle
  <2>4. ASSUME NEW x \in SessionIds, x \notin spoiled'
        PROVE  /\ OfId(AllRows', x) = {} => realtime'[x] = NoItem
               /\ InStep(OfId(AllRows', x), realtime'[x])
    <3> DEFINE rows == OfId(AllRows, x)
               group == Group(batch, x)
               item == realtime[x]
    <3>1. x \notin spoiled /\ ~Spoils(batch, stored, x)
      BY <2>3, <2>4
    <3>2. group = OfId(batch, x) /\ OfId(AllRows', x) = rows \cup group
      BY <2>2, <3>1 DEF Spoils, Group, OfId
    <3>3. /\ RowSet(rows) /\ RowSet(group) /\ rows \cap group = {} /\ item \in Item
          /\ rows = {} => item = NoItem
          /\ InStep(rows, item)
      <4>1. RowSet(rows) /\ RowSet(group) /\ rows \cap group = {}
        BY <2>1, RowsOf DEF OfId, Group
      <4> QED
        BY <3>1, <4>1 DEF StepInv, TableInv
    <3>4. CASE group = {}
      <4>1. stored[x] = item
        BY <2>3, <3>4 DEF Outcomes
      <4> QED
        BY <2>3, <3>2, <3>3, <3>4, <4>1
    <3>5. CASE group # {}
      <4>1. /\ stored[x] = Folded(item, group)
            /\ \A r \in group : ~(r.ev.time < item.last_event_time)
        BY <3>1, <3>5 DEF Spoils
      <4>2. \A r \in group : item.last_event_time <= r.ev.time
        BY <3>3, <4>1, RowType DEF RowSet, Item
      <4> HIDE DEF rows, group, item
      <4>3. InStep(rows \cup group, Folded(item, group))
        BY <3>3, <3>5, <4>2, FoldInStep
      <4> QED
        BY <2>3, <3>2, <3>5, <4>1, <4>3
    <3> QED
      BY <3>4, <3>5
  <2>5. \A x \in SessionIds \ spoiled' :
          /\ OfId(AllRows', x) = {} => realtime'[x] = NoItem
          /\ InStep(OfId(AllRows', x), realtime'[x])
    BY <2>4
  <2> QED
    BY <2>5 DEF StepInv
<1>2. ASSUME NEW x \in SessionIds, Expire(x) PROVE StepInv'
  <2>1. /\ AllRows' = AllRows /\ spoiled' = spoiled \cup {x}
        /\ \A y \in SessionIds : y # x => realtime'[y] = realtime[y]
    BY <1>2 DEF Expire, AllRows, TableInv
  <2>2. \A y \in SessionIds \ spoiled' :
          /\ OfId(AllRows', y) = {} => realtime'[y] = NoItem
          /\ InStep(OfId(AllRows', y), realtime'[y])
    BY <2>1 DEF StepInv
  <2> QED
    BY <2>2 DEF StepInv
<1>3. ASSUME UNCHANGED <<archive, realtime, spoiled>> PROVE StepInv'
  <2>1. AllRows' = AllRows
    BY <1>3 DEF AllRows
  <2>2. \A y \in SessionIds \ spoiled' :
          /\ OfId(AllRows', y) = {} => realtime'[y] = NoItem
          /\ InStep(OfId(AllRows', y), realtime'[y])
    BY <1>3, <2>1 DEF StepInv
  <2> QED
    BY <2>2 DEF StepInv
<1>4. ASSUME NEW d \in Days,
             Stitch(d) \/ StitchDies(d) \/ Export(d) \/ Audit(d) \/ AuditDies(d)
      PROVE  StepInv'
  BY <1>3, <1>4 DEF Stitch, StitchDies, Export, Audit, AuditDies
<1>5. ASSUME Midnight \/ UNCHANGED vars PROVE StepInv'
  BY <1>3, <1>5 DEF Midnight, vars, jobVars
<1>6. Dates \subseteq Days
  BY BatchAssumption DEF Days
<1> QED
  BY <1>1, <1>2, <1>4, <1>5, <1>6 DEF Next

----------------------------------------------------------------------------
(* The late-arrival handler                                                *)

(* A joined row that is no restatement has both sides, and they agree.     *)
LEMMA QuietRow ==
  ASSUME NEW sessions, NEW items, items \in [SessionIds -> Item],
         NEW j \in Joined(sessions, items), RestatementType(j) = "no_restatement"
  PROVE  /\ j.batch # Missing /\ j.rt # Missing /\ j.rt.cart_total # Missing
         /\ j.batch.event_count = j.rt.event_count
         /\ Total(j.batch) - j.rt.cart_total \in -1 .. 1
         /\ j.rt.converted => j.batch.converted
<1>1. /\ j.rt # Missing /\ j.rt.cart_total # Missing
      /\ ~RevenueDiffers(j) /\ Count(j.batch) = Count(j.rt) /\ ~ConversionFlipped(j)
  BY DEF RestatementType
<1>2. j.batch # Missing
  <2> SUFFICES ASSUME j.batch = Missing PROVE FALSE
    OBVIOUS
  <2>1. j.rt.event_count > 0 /\ j.rt.event_count # 0
    <3>1. \A y \in Stored(items) : items[y].event_count > 0 /\ items[y].event_count \in Nat
      BY DEF Stored, Item
    <3>2. \E y \in Stored(items) : j.rt = items[y]
      BY <1>1 DEF Joined
    <3> QED
      BY <3>1, <3>2
  <2> QED
    BY <1>1, <2>1 DEF Count
<1>3. Total(j.rt) = j.rt.cart_total
  BY <1>1 DEF Total
<1>4. Total(j.batch) - j.rt.cart_total \in -1 .. 1
  BY <1>1, <1>3 DEF RevenueDiffers
<1> QED
  BY <1>1, <1>2, <1>4 DEF Count, ConversionFlipped

(* Each row joins under a session id, so that it has one of five verdicts: *)
(* the sixth, for a row without an id, is never given.                     *)
LEMMA VerdictTyped ==
  ASSUME NEW sessions, NEW items, NEW j \in Joined(sessions, items)
  PROVE  RestatementType(j) \in {"missing_in_realtime", "revenue_restatement",
           "event_count_restatement", "conversion_flip", "no_restatement"}
<1>1. j.session_id # Missing
  BY BatchAssumption DEF Joined, Stored
<1> QED
  BY <1>1 DEF RestatementType

(* A session has the figures of the rows within it.                        *)
LEMMA SessionFigures ==
  ASSUME NEW rows, RowSet(rows), NEW s \in Sessions(rows), NEW own,
         own = {r \in rows : Within(r, s)}
  PROVE  /\ s \in BatchSession /\ RowSet(own) /\ own # {}
         /\ s.event_count = Cardinality(own)
         /\ s.cart_total = SumOfPrices("cart", own)
         /\ s.converted <=> \E r \in own : r.ev.type = "purchase"
         /\ s.original_session_ids = {r.ev.sid : r \in own}
<1> DEFINE id == s.batch_session_id
<1>1. own = Rows(rows, id) /\ s = Session(id, own) /\ own # {}
  BY OwnRows
<1>2. RowSet(own)
  BY RowsOf
<1>3. LET t == Session(id, own)
      IN  /\ t.event_count = Cardinality(own)
          /\ t.cart_total = SumOfPrices("cart", own)
          /\ t.converted <=> \E r \in own : r.ev.type = "purchase"
          /\ t.original_session_ids = {r.ev.sid : r \in own}
  BY DEF Session
<1>4. s \in BatchSession
  BY SessionTyped
<1> HIDE DEF id
<1> QED
  BY <1>1, <1>2, <1>3, <1>4

(* A session lists the session id of every row within it.                  *)
LEMMA ListsItsIds ==
  ASSUME NEW rows, RowSet(rows), NEW s \in Sessions(rows), NEW r \in rows, Within(r, s)
  PROVE  r.ev.sid \in s.original_session_ids
<1>1. PICK own : own = {q \in rows : Within(q, s)}
  OBVIOUS
<1>2. s.original_session_ids = {q.ev.sid : q \in own}
  BY <1>1, SessionFigures
<1>3. r \in own
  BY <1>1
<1> QED
  BY <1>2, <1>3

(* A session that is the only one of its one id has all rows of the id,    *)
(* and no gap divides them.                                                *)
LEMMA RowsForItself ==
  ASSUME NEW rows, RowSet(rows), NEW s \in Sessions(rows), NEW x,
         s.original_session_ids = {x},
         \A t \in Sessions(rows) : x \in t.original_session_ids => t = s
  PROVE  {r \in rows : Within(r, s)} = OfId(rows, x) /\ NoGap(OfId(rows, x))
<1> DEFINE own == {r \in rows : Within(r, s)}
<1>1. \A r \in own : r.ev.sid = x
  BY ListsItsIds
<1>2. ASSUME NEW r \in rows, r.ev.sid = x PROVE r \in own
  <2>1. PICK t \in Sessions(rows) : Within(r, t)
    BY OwnSession
  <2>2. x \in t.original_session_ids
    BY <1>2, <2>1, ListsItsIds
  <2> QED
    BY <2>1, <2>2
<1>3. own = OfId(rows, x)
  BY <1>1, <1>2 DEF OfId
<1>4. NoGap(own)
  <2> SUFFICES ASSUME NEW r \in own, NEW q \in own, r.ev.time < q.ev.time
               PROVE  \E p \in own : r.ev.time < p.ev.time /\ p.ev.time <= r.ev.time + Timeout
    BY DEF NoGap
  <2>1. /\ s.session_start \in Nat /\ s.session_end \in Nat /\ Timeout \in Nat
        /\ \A p \in rows : p.ev.time \in Nat
    BY SessionTyped, RowType, BatchAssumption DEF BatchSession, RowSet
  <2>2. /\ r.ev.user = s.user_id /\ s.session_start <= r.ev.time
        /\ q.ev.time <= s.session_end /\ r.ev.time < s.session_end
    BY <2>1 DEF Within
  <2>3. PICK y \in rows : /\ y.ev.user = s.user_id
                          /\ r.ev.time < y.ev.time /\ y.ev.time <= r.ev.time + Timeout
    BY <2>2, NoGapInSession
  <2>4. CASE y.ev.time <= s.session_end
    <3>1. y \in own
      BY <2>1, <2>2, <2>3, <2>4 DEF Within
    <3> QED
      BY <2>3, <3>1
  <2>5. CASE ~(y.ev.time <= s.session_end)
    <3>1. q.ev.time <= r.ev.time + Timeout
      BY <2>1, <2>2, <2>3, <2>5
    <3> QED
      BY <3>1
  <2> QED
    BY <2>4, <2>5
<1> QED
  BY <1>3, <1>4

(* What is exported is the table of some time, and an audit compares one   *)
(* with the sessions of the rows that had been stitched.                   *)
AuditInv ==
  /\ exported \in [Days -> [SessionIds -> Item] \cup {Missing}]
  /\ audit = [d \in Days |-> audit[d]]
  /\ \A d \in Days : audit[d] # Missing =>
       /\ RowSet(audit[d].rows) /\ audit[d].rows \subseteq Row
       /\ audit[d].items \in [SessionIds -> Item]
       /\ audit[d].detail = Deltas(Sessions(audit[d].rows), audit[d].items)

LEMMA AuditInvStep == StitchInv /\ TableInv /\ AuditInv /\ [Next]_vars => AuditInv'
<1> SUFFICES ASSUME StitchInv, TableInv, AuditInv, [Next]_vars PROVE AuditInv'
  OBVIOUS
<1>1. ASSUME NEW d \in Days, Audit(d) PROVE AuditInv'
  <2> DEFINE new == [detail |-> Deltas(corrected[d], exported[d]),
                     rows |-> stitched[d], items |-> exported[d]]
  <2>1. /\ RowSet(stitched[d]) /\ stitched[d] \subseteq Row
        /\ corrected[d] = Sessions(stitched[d])
        /\ exported[d] \in [SessionIds -> Item]
    BY <1>1 DEF Audit, StitchInv, TableInv, Written, AuditInv
  <2>2. /\ RowSet(new.rows) /\ new.rows \subseteq Row /\ new.items \in [SessionIds -> Item]
        /\ new.detail = Deltas(Sessions(new.rows), new.items)
    BY <2>1
  <2>3. audit' = [c \in Days |-> IF c = d THEN new ELSE audit[c]]
    BY <1>1 DEF Audit, AuditInv
  <2>4. exported' = exported
    BY <1>1 DEF Audit
  <2> HIDE DEF new
  <2>5. \A c \in Days : audit'[c] # Missing =>
          /\ RowSet(audit'[c].rows) /\ audit'[c].rows \subseteq Row
          /\ audit'[c].items \in [SessionIds -> Item]
          /\ audit'[c].detail = Deltas(Sessions(audit'[c].rows), audit'[c].items)
    BY <2>2, <2>3 DEF AuditInv
  <2> QED
    BY <2>3, <2>4, <2>5 DEF AuditInv
<1>2. ASSUME NEW d \in Days, AuditDies(d) PROVE AuditInv'
  BY <1>2 DEF AuditDies, AuditInv
<1>3. ASSUME NEW d \in Days, Export(d) PROVE AuditInv'
  BY <1>3 DEF Export, AuditInv, TableInv
<1>4. ASSUME UNCHANGED <<exported, audit>> PROVE AuditInv'
  BY <1>4 DEF AuditInv
<1>5. ASSUME NEW batch, Handle(batch) PROVE AuditInv'
  BY <1>4, <1>5 DEF Handle, jobVars
<1>8. ASSUME NEW x, Expire(x) PROVE AuditInv'
  BY <1>4, <1>8 DEF Expire, jobVars
<1>9. Dates \subseteq Days
  BY BatchAssumption DEF Days
<1>6. ASSUME NEW d \in Days, Stitch(d) \/ StitchDies(d) PROVE AuditInv'
  BY <1>4, <1>6 DEF Stitch, StitchDies
<1>7. ASSUME Midnight \/ UNCHANGED vars PROVE AuditInv'
  BY <1>4, <1>7 DEF Midnight, vars, jobVars
<1> QED
  BY <1>1, <1>2, <1>3, <1>5, <1>6, <1>7, <1>8, <1>9 DEF Next

BatchInv == StitchInv /\ TableInv /\ StepInv /\ AuditInv

LEMMA BatchInvHolds == Spec => []BatchInv
<1>1. Init => BatchInv
  <2> SUFFICES ASSUME Init PROVE BatchInv
    OBVIOUS
  <2>1. AllRows = {}
    BY DEF Init, AllRows
  <2>2. StepInv
    BY <2>1 DEF Init, StepInv, OfId, InStep
  <2> QED
    BY <2>2, StitchInvInit, TableInit DEF BatchInv, AuditInv, Init
<1>2. BatchInv /\ [Next]_vars => BatchInv'
  BY StitchInvStep, TableStep, StepInvStep, AuditInvStep DEF BatchInv
<1> QED
  BY <1>1, <1>2, PTL DEF Spec

(* Every variable has its type: sums and counts stay natural numbers, each *)
(* copy of a row has a number of its own within the bound, and the audit   *)
(* gives no verdict but five.                                              *)
THEOREM BatchTyped == Spec => []TypeOK
<1>1. ASSUME BatchInv PROVE TypeOK
  <2>1. today \in Days /\ archive \in [Days -> SUBSET Row] /\ stitched \in [Days -> SUBSET Row]
    BY <1>1 DEF BatchInv, StitchInv, TableInv
  <2>2. realtime \in [SessionIds -> Item] /\ spoiled \subseteq SessionIds
    BY <1>1 DEF BatchInv, TableInv
  <2>3. DOMAIN corrected = Days /\ \A d \in Written : corrected[d] \subseteq BatchSession
    BY <1>1, SessionTyped DEF BatchInv, StitchInv, Written
  <2>4. ASSUME NEW d \in Days, audit[d] # Missing, NEW a \in audit[d].detail
        PROVE  a.type \in {"missing_in_realtime", "revenue_restatement",
                 "event_count_restatement", "conversion_flip", "no_restatement"}
    <3>1. PICK j \in Joined(Sessions(audit[d].rows), audit[d].items) :
            a = [of |-> j, type |-> RestatementType(j)]
      BY <1>1, <2>4 DEF BatchInv, AuditInv, Deltas
    <3> QED
      BY <3>1, VerdictTyped
  <2>5. /\ exported \in [Days -> [SessionIds -> Item] \cup {Missing}]
        /\ DOMAIN audit = Days
        /\ \A d \in Days : audit[d] # Missing =>
             audit[d].rows \subseteq Row /\ audit[d].items \in [SessionIds -> Item]
    BY <1>1 DEF BatchInv, AuditInv
  <2> QED
    BY <2>1, <2>2, <2>3, <2>4, <2>5 DEF TypeOK
<1> QED
  BY <1>1, BatchInvHolds, PTL

(* Every archived row is within a batch session that the audit has under   *)
(* the row's session id, and a stored id without rows is reported.         *)
LEMMA DetailHidesNothing ==
  ASSUME NEW rows, RowSet(rows), NEW items \in [SessionIds -> Item], NEW detail,
         detail = Deltas(Sessions(rows), items)
  PROVE  /\ \A r \in rows : \E a \in detail :
              /\ a.of.session_id = r.ev.sid
              /\ a.of.batch # Missing /\ Within(r, a.of.batch)
              /\ a.type = "no_restatement" => Agrees(rows, items, a)
         /\ \A x \in Stored(items) :
              (\A r \in rows : r.ev.sid # x) =>
                \E a \in detail : a.of.session_id = x /\ a.type # "no_restatement"
<1>1. ASSUME NEW r \in rows
      PROVE  \E a \in detail :
              /\ a.of.session_id = r.ev.sid
              /\ a.of.batch # Missing /\ Within(r, a.of.batch)
              /\ a.type = "no_restatement" => Agrees(rows, items, a)
  <2>1. PICK s \in Sessions(rows) : Within(r, s)
    BY OwnSession
  <2>2. PICK own : own = {q \in rows : Within(q, s)}
    OBVIOUS
  <2>3. /\ s \in BatchSession /\ s # Missing
        /\ s.event_count = Cardinality(own)
        /\ s.cart_total = SumOfPrices("cart", own)
        /\ s.converted <=> \E q \in own : q.ev.type = "purchase"
        /\ r.ev.sid \in s.original_session_ids
    BY <2>1, <2>2, SessionFigures, BatchAssumption
  <2>4. PICK x \in SessionIds : x = r.ev.sid
    BY BatchAssumption DEF RowSet, ArchiveRow, Event
  <2> DEFINE j == [session_id |-> x, batch |-> s,
                   rt |-> IF x \in Stored(items) THEN items[x] ELSE Missing]
             a == [of |-> j, type |-> RestatementType(j)]
  <2>5. j \in Joined(Sessions(rows), items)
    <3>1. <<s, x>> \in {q \in Sessions(rows) \X SessionIds : q[2] \in q[1].original_session_ids}
      BY <2>3, <2>4
    <3> QED
      BY <3>1 DEF Joined
  <2>6. a \in detail
    BY <2>5 DEF Deltas
  <2>7. ASSUME RestatementType(j) = "no_restatement" PROVE Agrees(rows, items, a)
    <3>1. /\ j.rt # Missing /\ j.rt.cart_total # Missing
          /\ s.event_count = j.rt.event_count
          /\ Total(s) - j.rt.cart_total \in -1 .. 1
          /\ j.rt.converted => s.converted
      BY <2>5, <2>7, QuietRow
    <3>2. j.rt = items[x]
      BY <3>1
    <3>3. Total(s) = s.cart_total
      BY <2>3, BatchAssumption DEF Total, BatchSession
    <3> QED
      BY <2>2, <2>3, <3>1, <3>2, <3>3 DEF Agrees
  <2>8. a.of.session_id = r.ev.sid /\ a.of.batch = s /\ a.type = RestatementType(j)
    BY <2>4
  <2> HIDE DEF a
  <2> QED
    BY <2>1, <2>3, <2>6, <2>7, <2>8
<1>2. ASSUME NEW x \in Stored(items), \A r \in rows : r.ev.sid # x
      PROVE  \E a \in detail : a.of.session_id = x /\ a.type # "no_restatement"
  <2> DEFINE j == [session_id |-> x, batch |-> Missing, rt |-> items[x]]
             a == [of |-> j, type |-> RestatementType(j)]
  <2>1. \A s \in Sessions(rows) : x \notin s.original_session_ids
    <3> SUFFICES ASSUME NEW s \in Sessions(rows), x \in s.original_session_ids PROVE FALSE
      OBVIOUS
    <3>1. PICK own : own = {q \in rows : Within(q, s)}
      OBVIOUS
    <3>2. s.original_session_ids = {q.ev.sid : q \in own}
      BY <3>1, SessionFigures
    <3> QED
      BY <1>2, <3>1, <3>2
  <2>2. j \in Joined(Sessions(rows), items)
    BY <2>1 DEF Joined
  <2>3. a \in detail
    BY <2>2 DEF Deltas
  <2>4. RestatementType(j) # "no_restatement"
    BY <2>2, QuietRow
  <2> QED
    BY <2>3, <2>4
<1> QED
  BY <1>1, <1>2

(* Nothing that differs is hidden by the audit: late_arrival_handler.py's  *)
(* outer join has every archived event under its session id, what it calls *)
(* no restatement is a session of which the user's events are as many as   *)
(* the speed layer has counted, with its cart total to a cent and any      *)
(* purchase it shows, and a stored session without events is reported.     *)
THEOREM AuditHidesNothing == Spec => []NothingHidden
<1>1. ASSUME BatchInv PROVE NothingHidden
  <2>1. \A d \in Days : audit[d] # Missing =>
          /\ RowSet(audit[d].rows) /\ audit[d].items \in [SessionIds -> Item]
          /\ audit[d].detail = Deltas(Sessions(audit[d].rows), audit[d].items)
    BY <1>1 DEF BatchInv, AuditInv
  <2> QED
    BY <2>1, DetailHidesNothing DEF NothingHidden
<1> QED
  BY <1>1, BatchInvHolds, PTL

(* Where the handler has folded in all of a session, in order and over any *)
(* batches, and the stitcher finds the session for itself, both layers     *)
(* count the same events and the same conversion, and the cart total that  *)
(* the speed layer shows is at most that of the batch layer.               *)
THEOREM LayersDifferInCarts == Spec => []OnlyCartsRestated
<1>1. ASSUME BatchInv PROVE OnlyCartsRestated
  <2> SUFFICES ASSUME NEW d \in Days, audit[d] # Missing, audit[d].rows = AllRows,
                      audit[d].items = realtime, NEW a \in audit[d].detail,
                      a.of.session_id \notin spoiled,
                      ForItself(a.of.session_id, Sessions(AllRows))
               PROVE  /\ a.of.batch # Missing /\ a.of.rt # Missing
                      /\ a.of.rt.event_count = a.of.batch.event_count
                      /\ a.of.rt.converted = a.of.batch.converted
                      /\ a.of.rt.cart_total <= a.of.batch.cart_total
    BY DEF OnlyCartsRestated
  <2>1. RowSet(AllRows) /\ realtime \in [SessionIds -> Item] /\ StepInv
    BY <1>1, AllRowsFinite DEF BatchInv, TableInv
  <2>2. PICK j \in Joined(Sessions(AllRows), realtime) : a.of = j
    BY <1>1 DEF BatchInv, AuditInv, Deltas
  <2>3. PICK x \in SessionIds : x = j.session_id
    BY <2>2 DEF Joined, Stored
  <2>4. PICK s \in Sessions(AllRows) :
          /\ s.original_session_ids = {x}
          /\ \A t \in Sessions(AllRows) : x \in t.original_session_ids => t = s
    BY <2>2, <2>3 DEF ForItself
  <2>5. /\ j.batch = s
        /\ j.rt = IF x \in Stored(realtime) THEN realtime[x] ELSE Missing
    BY <2>3, <2>4 DEF Joined
  <2>6. PICK own : own = {r \in AllRows : Within(r, s)}
    OBVIOUS
  <2>7. /\ s \in BatchSession /\ RowSet(own) /\ own # {}
        /\ s.event_count = Cardinality(own)
        /\ s.cart_total = SumOfPrices("cart", own)
        /\ s.converted <=> \E r \in own : r.ev.type = "purchase"
    BY <2>1, <2>6, SessionFigures
  <2>8. own = OfId(AllRows, x) /\ NoGap(own)
    <3>1. PICK all : all = AllRows
      OBVIOUS
    <3>2. {r \in all : Within(r, s)} = OfId(all, x) /\ NoGap(OfId(all, x))
      <4>1. RowSet(all) /\ s \in Sessions(all)
        BY <2>1, <3>1
      <4>2. \A t \in Sessions(all) : x \in t.original_session_ids => t = s
        BY <2>4, <3>1
      <4> QED
        BY <2>4, <4>1, <4>2, RowsForItself
    <3>3. own = OfId(all, x)
      BY <2>6, <3>1, <3>2
    <3> QED
      BY <3>1, <3>2, <3>3
  <2>9. x \notin spoiled
    BY <2>2, <2>3
  <2>10. /\ realtime[x].event_count = Cardinality(own)
         /\ realtime[x].converted <=> \E r \in own : r.ev.type = "purchase"
         /\ realtime[x].cart_total <= SumOfPrices("cart", own)
    BY <2>1, <2>7, <2>8, <2>9 DEF StepInv, InStep
  <2>11. Cardinality(own) > 0
    <3>1. Cardinality(own) \in Nat /\ Cardinality(own) # 0
      BY <2>7, FS_CardinalityType, FS_EmptySet DEF RowSet
    <3> QED
      BY <3>1
  <2>12. j.rt = realtime[x] /\ j.rt # Missing /\ j.batch # Missing
    BY <2>1, <2>5, <2>7, <2>10, <2>11, BatchAssumption DEF Stored
  <2>13. realtime[x].converted = s.converted
    <3>1. realtime[x].converted \in BOOLEAN /\ s.converted \in BOOLEAN
      BY <2>1, <2>7 DEF Item, BatchSession
    <3> QED
      BY <2>7, <2>10, <3>1
  <2> QED
    BY <2>2, <2>5, <2>7, <2>10, <2>12, <2>13
<1> QED
  BY <1>1, BatchInvHolds, PTL

(* The verdict for a session that is new in the batch layer is never given *)
(* and compute_aggregate_stats never counts one: after the outer join a    *)
(* session without an item still has its id.                               *)
NewIn(d) == Summary(audit[d].detail).new_sessions_in_batch

THEOREM NoSessionIsNew ==
  Spec => [](\A d \in Days : audit[d] # Missing => NewIn(d) = 0)
<1>1. ASSUME BatchInv, NEW d \in Days, audit[d] # Missing PROVE NewIn(d) = 0
  <2>1. audit[d].detail = Deltas(Sessions(audit[d].rows), audit[d].items)
    BY <1>1 DEF BatchInv, AuditInv
  <2>2. \A a \in audit[d].detail : a.type # "new_in_batch"
    BY <2>1, VerdictTyped DEF Deltas
  <2>3. Counted(audit[d].detail, "new_in_batch") = 0
    <3>1. {a \in audit[d].detail : a.type = "new_in_batch"} = {}
      BY <2>2
    <3> QED
      BY <3>1, FS_EmptySet DEF Counted
  <2> QED
    BY <2>3 DEF Summary, NewIn
<1>2. BatchInv => \A d \in Days : audit[d] # Missing => NewIn(d) = 0
  BY <1>1
<1> QED
  BY <1>2, BatchInvHolds, PTL
=============================================================================
