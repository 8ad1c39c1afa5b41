----------------------- MODULE GroundTruthTrackerProofs -----------------------
(***************************************************************************)
(* Proofs about GroundTruthTracker for every value of the constants that   *)
(* satisfies its assumptions.                                              *)
(***************************************************************************)
EXTENDS GroundTruthTracker, FiniteSetTheorems, TLAPS

-----------------------------------------------------------------------------
(* The orders the heap compares with.                                      *)

\* The float order on distance keys is a strict weak order.
LEMMA DistLessIrrefl ==
  ASSUME NEW a \in Key
  PROVE  ~DistLess(a, a)
  BY DEF DistLess, Key

LEMMA DistLessTrans ==
  ASSUME NEW a \in Key, NEW b \in Key, NEW c \in Key,
         DistLess(a, b), DistLess(b, c)
  PROVE  DistLess(a, c)
  BY DEF DistLess, Key

\* Incomparability is transitive: "not nearer" composes.
LEMMA DistNotLessTrans ==
  ASSUME NEW a \in Key, NEW b \in Key, NEW c \in Key,
         ~DistLess(a, b), ~DistLess(b, c)
  PROVE  ~DistLess(a, c)
  BY DEF DistLess, Key

LEMMA DistEqTrans ==
  ASSUME NEW a \in Key, NEW b \in Key, NEW c \in Key,
         DistEq(a, b), DistEq(b, c)
  PROVE  DistEq(a, c)
  BY DEF DistEq, Key

LEMMA DistEqSym ==
  ASSUME NEW a \in Key, NEW b \in Key, DistEq(a, b)
  PROVE  DistEq(b, a) /\ ~DistLess(a, b) /\ ~DistLess(b, a)
  BY DEF DistEq, DistLess, Key

\* Equal keys are ordered alike against a third.
LEMMA DistEqLess ==
  ASSUME NEW a \in Key, NEW b \in Key, NEW c \in Key, DistEq(a, b)
  PROVE  /\ DistLess(a, c) <=> DistLess(b, c)
         /\ DistLess(c, a) <=> DistLess(c, b)
<1> USE DEF Key
<1>1. a.num * b.den = b.num * a.den  BY DEF DistEq
<1>2. DistLess(a, c) => DistLess(b, c)
  <2>0. SUFFICES ASSUME a.num * c.den < c.num * a.den
                 PROVE  b.num * c.den < c.num * b.den
    BY DEF DistLess
  <2>1. a.num * c.den * b.den < c.num * a.den * b.den  BY <2>0, SMT
  <2> QED BY <1>1, <2>1, SMT
<1>3. DistLess(b, c) => DistLess(a, c)
  <2>0. SUFFICES ASSUME b.num * c.den < c.num * b.den
                 PROVE  a.num * c.den < c.num * a.den
    BY DEF DistLess
  <2>1. b.num * c.den * a.den < c.num * b.den * a.den  BY <2>0, SMT
  <2> QED BY <1>1, <2>1, SMT
<1>4. DistLess(c, a) => DistLess(c, b)
  <2>0. SUFFICES ASSUME c.num * a.den < a.num * c.den
                 PROVE  c.num * b.den < b.num * c.den
    BY DEF DistLess
  <2>1. c.num * a.den * b.den < a.num * c.den * b.den  BY <2>0, SMT
  <2> QED BY <1>1, <2>1, SMT
<1>5. DistLess(c, b) => DistLess(c, a)
  <2>0. SUFFICES ASSUME c.num * b.den < b.num * c.den
                 PROVE  c.num * a.den < a.num * c.den
    BY DEF DistLess
  <2>1. c.num * b.den * a.den < b.num * c.den * a.den  BY <2>0, SMT
  <2> QED BY <1>1, <2>1, SMT
<1> QED BY <1>2, <1>3, <1>4, <1>5

\* The string order of doc ids is a strict order.
LEMMA DocIdLessOrder ==
  ASSUME NEW a \in Nat, NEW b \in Nat, NEW c \in Nat
  PROVE  /\ ~DocIdLess(a, a)
         /\ DocIdLess(a, b) /\ DocIdLess(b, c) => DocIdLess(a, c)
  BY DEF DocIdLess, Lead

\* Python's tuple order on heap entries is a strict order.
LEMMA EntryLessIrrefl ==
  ASSUME NEW e \in Entry
  PROVE  ~EntryLess(e, e)
  BY DistLessIrrefl, DocIdLessOrder DEF EntryLess, Entry

LEMMA EntryLessTrans ==
  ASSUME NEW e \in Entry, NEW f \in Entry, NEW g \in Entry,
         EntryLess(e, f), EntryLess(f, g)
  PROVE  EntryLess(e, g)
<1> USE DEF Entry
<1>1. CASE DistLess(f.dist, e.dist) /\ DistLess(g.dist, f.dist)
  BY <1>1, DistLessTrans DEF EntryLess
<1>2. CASE DistLess(f.dist, e.dist) /\ DistEq(f.dist, g.dist)
  BY <1>2, DistEqLess DEF EntryLess
<1>3. CASE DistEq(e.dist, f.dist) /\ DistLess(g.dist, f.dist)
  BY <1>3, DistEqLess DEF EntryLess
<1>4. CASE DistEq(e.dist, f.dist) /\ DocIdLess(e.id, f.id)
           /\ DistEq(f.dist, g.dist) /\ DocIdLess(f.id, g.id)
  BY <1>4, DistEqTrans, DocIdLessOrder DEF EntryLess
<1> QED BY <1>1, <1>2, <1>3, <1>4 DEF EntryLess

-----------------------------------------------------------------------------
(* heap[0] exists: every non-empty part of a heap has a least tuple.       *)

HasMins(h) ==
  \A U \in SUBSET h : U # {} => \E m \in U : \A f \in U : ~EntryLess(f, m)

LEMMA HasMinsEmpty == HasMins({})
  BY DEF HasMins

LEMMA HasMinsSubset ==
  ASSUME NEW h, NEW g \in SUBSET h, HasMins(h)
  PROVE  HasMins(g)
  BY DEF HasMins

LEMMA HasMinsAdd ==
  ASSUME NEW h \in SUBSET Entry, NEW x \in Entry, HasMins(h)
  PROVE  HasMins(h \cup {x})
<1> SUFFICES ASSUME NEW U \in SUBSET (h \cup {x}), U # {}
             PROVE  \E m \in U : \A f \in U : ~EntryLess(f, m)
  BY DEF HasMins
<1>1. CASE x \notin U
  BY <1>1 DEF HasMins
<1>2. CASE x \in U /\ U \ {x} = {}
  <2>1. U = {x}  BY <1>2
  <2> QED BY <2>1, EntryLessIrrefl
<1>3. CASE x \in U /\ U \ {x} # {}
  <2>1. PICK m0 \in U \ {x} : \A f \in U \ {x} : ~EntryLess(f, m0)
    BY <1>3 DEF HasMins
  <2>2. CASE EntryLess(x, m0)
    <3>1. \A f \in U : ~EntryLess(f, x)
      BY <2>1, <2>2, EntryLessIrrefl, EntryLessTrans
    <3> QED BY <1>3, <3>1
  <2>3. CASE ~EntryLess(x, m0)
    BY <2>1, <2>3
  <2> QED BY <2>2, <2>3
<1> QED BY <1>1, <1>2, <1>3

\* heap[0] is a tuple of the heap at the largest distance.
LEMMA TopIsFarthest ==
  ASSUME NEW h \in SUBSET Entry, HasMins(h), h # {}
  PROVE  /\ Top(h) \in h
         /\ \A f \in h : ~DistLess(Top(h).dist, f.dist)
<1>1. \E t \in h : \A f \in h : ~EntryLess(f, t)
  BY DEF HasMins
<1>2. Top(h) \in h /\ \A f \in h : ~EntryLess(f, Top(h))
  BY <1>1 DEF Top
<1> QED BY <1>2 DEF EntryLess

-----------------------------------------------------------------------------
(* One iteration of the loop of update keeps the k nearest candidates.     *)

LEMMA StepKeepsNearest ==
  ASSUME NEW h \in SUBSET Entry, NEW s \in SUBSET Entry, NEW e \in Entry,
         IsFiniteSet(s), e \notin s, HasMins(h), KeptNearest(h, s)
  PROVE  /\ Step(h, e) \in SUBSET Entry
         /\ HasMins(Step(h, e))
         /\ KeptNearest(Step(h, e), s \cup {e})
<1> USE KAssumption
<1>1. /\ IsFiniteSet(h)
      /\ Cardinality(h) = Cardinality(s) => h = s
  BY FS_Subset DEF KeptNearest
<1>2. /\ IsFiniteSet(s \cup {e})
      /\ Cardinality(s \cup {e}) = Cardinality(s) + 1
  BY FS_AddElement
<1>3. Cardinality(h) \in Nat /\ Cardinality(s) \in Nat
  BY <1>1, FS_CardinalityType
<1>4. e \notin h
  BY DEF KeptNearest
<1>5. CASE Cardinality(h) < K
  <2>1. Cardinality(s) < K /\ Cardinality(h) = Cardinality(s)
    BY <1>3, <1>5 DEF KeptNearest
  <2>2. h = s
    BY <1>1, <2>1
  <2>3. Step(h, e) = h \cup {e}
    BY <1>5 DEF Step
  <2>4. Cardinality(h \cup {e}) = Cardinality(s) + 1
    BY <1>1, <1>4, <2>1, FS_AddElement
  <2>5. KeptNearest(h \cup {e}, s \cup {e})
    BY <1>2, <1>3, <2>1, <2>2, <2>4 DEF KeptNearest
  <2> QED BY <2>3, <2>5, HasMinsAdd
<1>6. CASE ~(Cardinality(h) < K)
  <2>1. Cardinality(h) = K /\ ~(Cardinality(s) < K)
    BY <1>3, <1>6 DEF KeptNearest
  <2>2. h # {}
    BY <1>1, <2>1, FS_EmptySet
  <2> DEFINE t == Top(h)
  <2>3. t \in h /\ \A f \in h : ~DistLess(t.dist, f.dist)
    BY <2>2, TopIsFarthest
  <2>4. CASE DistLess(e.dist, t.dist)
    <3> DEFINE h2 == (h \ {t}) \cup {e}
    <3>1. Step(h, e) = h2
      BY <1>6, <2>4 DEF Step
    <3>2. Cardinality(h2) = K
      <4>1. IsFiniteSet(h \ {t}) /\ Cardinality(h \ {t}) = K - 1
        BY <1>1, <2>1, <2>3, FS_RemoveElement
      <4>2. e \notin h \ {t}
        BY <1>4
      <4>3. Cardinality((h \ {t}) \cup {e}) = Cardinality(h \ {t}) + 1
        BY <4>1, <4>2, FS_AddElement
      <4> QED BY <4>1, <4>3 DEF h2
    <3>3. HasMins(h2)
      BY HasMinsSubset, HasMinsAdd
    <3>4. ASSUME NEW x \in (s \cup {e}) \ h2, NEW r \in h2
          PROVE  ~DistLess(x.dist, r.dist)
      <4>1. CASE x \in s \ h /\ r \in h \ {t}
        BY <4>1 DEF KeptNearest
      <4>2. CASE x \in s \ h /\ r = e
        <5>1. ~DistLess(x.dist, t.dist)
          BY <2>3, <4>2 DEF KeptNearest
        <5> QED BY <2>3, <2>4, <4>2, <5>1, DistLessTrans DEF Entry
      <4>3. CASE x = t /\ r \in h \ {t}
        BY <2>3, <4>3
      <4>4. CASE x = t /\ r = e
        BY <2>3, <2>4, <4>4, DistLessTrans, DistLessIrrefl DEF Entry
      <4> QED BY <4>1, <4>2, <4>3, <4>4
    <3>5. KeptNearest(h2, s \cup {e})
      BY <1>2, <1>3, <2>1, <2>3, <3>2, <3>4 DEF KeptNearest
    <3> QED BY <2>3, <3>1, <3>3, <3>5
  <2>5. CASE ~DistLess(e.dist, t.dist)
    <3>1. Step(h, e) = h
      BY <1>6, <2>5 DEF Step
    <3>2. ASSUME NEW x \in (s \cup {e}) \ h, NEW r \in h
          PROVE  ~DistLess(x.dist, r.dist)
      <4>1. CASE x \in s
        BY <4>1 DEF KeptNearest
      <4>2. CASE x = e
        BY <2>3, <2>5, <4>2, DistNotLessTrans DEF Entry
      <4> QED BY <4>1, <4>2
    <3>3. KeptNearest(h, s \cup {e})
      BY <1>2, <1>3, <2>1, <3>2 DEF KeptNearest
    <3> QED BY <3>1, <3>3
  <2> QED BY <2>4, <2>5
<1> QED BY <1>5, <1>6

-----------------------------------------------------------------------------
(* Type correctness.                                                       *)

\* Step returns the heap with at most the new tuple added.
LEMMA StepSubset ==
  ASSUME NEW h, NEW e
  PROVE  Step(h, e) \subseteq h \cup {e}
  BY DEF Step

\* A query the loop reaches gets a tuple with a distance key.
LEMMA ReachedEntry ==
  ASSUME NEW v \in Vectors, NEW i \in QIdx, NEW n \in Nat,
         Distance(SpaceType, QV(i), v) # ValueError
  PROVE  [dist |-> Distance(SpaceType, QV(i), v), id |-> n] \in Entry
  BY DistanceAssumption DEF Entry

\* The initial state of GroundTruthTracker.__init__ is well typed.
LEMMA InitTypeOK == Init => TypeOK
<1> SUFFICES ASSUME Init PROVE TypeOK
  OBVIOUS
<1>1. {} \in SUBSET Entry
  OBVIOUS
<1>2. heaps \in [QIdx -> SUBSET Entry] /\ seen \in [QIdx -> SUBSET Entry]
  BY <1>1 DEF Init
<1>3. << >> \in Seq(Vectors)
  OBVIOUS
<1> QED BY <1>2, <1>3 DEF Init, TypeOK

\* Every update, including one that raises, preserves the types.
LEMMA NextTypeOK == TypeOK /\ [Next]_vars => TypeOK'
<1> SUFFICES ASSUME TypeOK, [Next]_vars PROVE TypeOK'
  OBVIOUS
<1>1. CASE UNCHANGED vars
  BY <1>1 DEF TypeOK, vars
<1>2. ASSUME NEW v \in Vectors, Update(v)
      PROVE  TypeOK'
  <2> DEFINE d == [i \in QIdx |-> Distance(SpaceType, QV(i), v)]
             Reached(i) == \A j \in QIdx : j <= i => d[j] # ValueError
             e(i) == [dist |-> d[i], id |-> Len(stream)]
  <2>1. \A i \in QIdx : Reached(i) => e(i) \in Entry
    BY ReachedEntry DEF TypeOK
  <2>2. \A i \in QIdx : Reached(i) => Step(heaps[i], e(i)) \in SUBSET Entry
    BY <2>1, StepSubset DEF TypeOK
  <2>3. heaps' \in [QIdx -> SUBSET Entry]
    BY <1>2, <2>2 DEF Update, TypeOK
  <2>4. seen' \in [QIdx -> SUBSET Entry]
    BY <1>2, <2>1 DEF Update, TypeOK
  <2>5. raised' \in BOOLEAN /\ stream' \in Seq(Vectors)
    BY <1>2 DEF Update, TypeOK
  <2> QED BY <2>3, <2>4, <2>5 DEF TypeOK
<1> QED BY <1>1, <1>2 DEF Next

\* update keeps every heap a set of (-dist, doc_id) tuples.
THEOREM TypeCorrect == Spec => []TypeOK
BY InitTypeOK, NextTypeOK, PTL DEF Spec

-----------------------------------------------------------------------------
(* The k nearest neighbours.                                               *)

(***************************************************************************)
(* TopKExact is not inductive by itself: the step that adds a new tuple    *)
(* needs heap[0] to exist (HasMins), the candidate sets to be finite, and  *)
(* the new doc id to be fresh, which holds because update's caller passes  *)
(* ids 0, 1, 2, ... and every candidate carries an id already passed.      *)
(***************************************************************************)
IInv ==
  /\ TypeOK
  /\ \A i \in QIdx : /\ IsFiniteSet(seen[i])
                     /\ HasMins(heaps[i])
                     /\ \A f \in seen[i] : f.id < Len(stream)
  /\ TopKExact

LEMMA InitIInv == Init => IInv
<1> SUFFICES ASSUME Init PROVE IInv
  OBVIOUS
<1>1. TypeOK
  BY InitTypeOK
<1>2. \A i \in QIdx : IsFiniteSet(seen[i]) /\ HasMins(heaps[i])
  BY FS_EmptySet, HasMinsEmpty DEF Init
<1>3. \A i \in QIdx : KeptNearest(heaps[i], seen[i])
  <2> SUFFICES ASSUME NEW i \in QIdx PROVE KeptNearest({}, {})
    BY DEF Init
  <2> QED BY FS_EmptySet, KAssumption DEF KeptNearest
<1> QED BY <1>1, <1>2, <1>3 DEF Init, IInv, TopKExact

\* One update keeps the strengthened invariant, query by query.
LEMMA NextIInv == IInv /\ [Next]_vars => IInv'
<1> SUFFICES ASSUME IInv, [Next]_vars PROVE IInv'
  OBVIOUS
<1>1. CASE UNCHANGED vars
  BY <1>1 DEF IInv, TypeOK, TopKExact, vars
<1>2. ASSUME NEW v \in Vectors, Update(v)
      PROVE  IInv'
  <2> DEFINE d == [i \in QIdx |-> Distance(SpaceType, QV(i), v)]
             Reached(i) == \A j \in QIdx : j <= i => d[j] # ValueError
             e(i) == [dist |-> d[i], id |-> Len(stream)]
  <2>1. TypeOK'
    BY <1>2, NextTypeOK DEF IInv, Next
  <2>2. Len(stream) \in Nat /\ Len(stream') = Len(stream) + 1
    BY <1>2 DEF Update, IInv, TypeOK
  <2>3. ASSUME NEW i \in QIdx
        PROVE  /\ IsFiniteSet(seen'[i])
               /\ HasMins(heaps'[i])
               /\ \A f \in seen'[i] : f.id < Len(stream')
               /\ KeptNearest(heaps'[i], seen'[i])
    <3>0. /\ IsFiniteSet(seen[i])
          /\ HasMins(heaps[i])
          /\ \A f \in seen[i] : f.id < Len(stream)
          /\ KeptNearest(heaps[i], seen[i])
          /\ heaps[i] \in SUBSET Entry
          /\ seen[i] \in SUBSET Entry
      BY DEF IInv, TopKExact, TypeOK
    <3>1. CASE Reached(i)
      <4>1. heaps'[i] = Step(heaps[i], e(i)) /\ seen'[i] = seen[i] \cup {e(i)}
        BY <1>2, <3>1 DEF Update
      <4>2. e(i) \in Entry
        <5>1. Distance(SpaceType, QV(i), v) # ValueError
          BY <3>1 DEF Reached, d, QIdx
        <5> QED BY <2>2, <5>1, ReachedEntry DEF e, d
      <4>3. e(i) \notin seen[i]
        BY <2>2, <3>0 DEF e
      <4>4. /\ HasMins(Step(heaps[i], e(i)))
            /\ KeptNearest(Step(heaps[i], e(i)), seen[i] \cup {e(i)})
        BY <3>0, <4>2, <4>3, StepKeepsNearest
      <4>5. IsFiniteSet(seen[i] \cup {e(i)})
        BY <3>0, FS_AddElement
      <4>6. \A f \in seen[i] \cup {e(i)} : f.id < Len(stream')
        BY <2>2, <3>0 DEF e, Entry
      <4> QED BY <4>1, <4>4, <4>5, <4>6
    <3>2. CASE ~Reached(i)
      <4>1. heaps'[i] = heaps[i] /\ seen'[i] = seen[i]
        BY <1>2, <3>2 DEF Update
      <4>2. \A f \in seen[i] : f.id < Len(stream')
        BY <2>2, <3>0 DEF Entry
      <4> QED BY <3>0, <4>1, <4>2
    <3> QED BY <3>1, <3>2
  <2> QED BY <2>1, <2>3 DEF IInv, TopKExact
<1> QED BY <1>1, <1>2 DEF Next

\* update keeps, for every query, the k nearest vectors passed so far
\* (spec section 3), for every k >= 1, every query set and every stream.
THEOREM TopKExactHolds == Spec => []TopKExact
<1>1. Init => IInv
  BY InitIInv
<1>2. IInv /\ [Next]_vars => IInv'
  BY NextIInv
<1>3. IInv => TopKExact
  BY DEF IInv
<1> QED BY <1>1, <1>2, <1>3, PTL DEF Spec

=============================================================================
