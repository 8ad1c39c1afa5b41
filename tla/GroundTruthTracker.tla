--------------------------- MODULE GroundTruthTracker ---------------------------
(***************************************************************************)
(* GroundTruthTracker (src/scripts/create_and_test_large_index.py, lines   *)
(* 226-300): for each query vector, the k ingested vectors nearest to it,  *)
(* kept in a size-k max-heap of tuples (-dist, doc_id).                    *)
(*                                                                         *)
(* This module sees a heap as the set of its tuples and heapq at its       *)
(* interface: heap[0] is the least tuple, heappush adds a tuple,           *)
(* heapreplace removes heap[0] and adds a tuple.  HeapTracker refines it   *)
(* with the heap arrays and CPython's sift loops.                          *)
(*                                                                         *)
(* The caller is index_vectors (lines 79-92): it passes doc ids 0, 1, 2,   *)
(* ... in order, as str(doc_id); an exception raised by update is not      *)
(* caught and ends the program.                                            *)
(***************************************************************************)
EXTENDS Integers, FiniteSets, Sequences, Metric

CONSTANTS
  QueryVectors, \* query_vectors, a sequence: query i is QueryVectors[i + 1]
  K,            \* k, the number of neighbours kept per query
  SpaceType,    \* space_type, a string
  Vectors,      \* the vectors the caller may pass to update
  MaxDocs       \* bound on the number of update calls

\* The indices enumerate(self.query_vectors) gives, and query i's vector.
QIdx == 0..(Len(QueryVectors) - 1)
QV(i) == QueryVectors[i + 1]

ASSUME QueryVectorsAssumption == QueryVectors \in Seq(Seq(Int))
ASSUME KAssumption == K \in Nat \ {0}
ASSUME MaxDocsAssumption == MaxDocs \in 1..100
\* Every distance the tracker can compute is a key or a ValueError.
ASSUME DistanceAssumption ==
  \A i \in QIdx, v \in Vectors :
     Distance(SpaceType, QV(i), v) \in Key \cup {ValueError}

VARIABLES
  heaps,   \* self.heaps: per query, the set of (-dist, doc_id) tuples
  raised,  \* update has raised ValueError (and the program has stopped)
  seen,    \* history: per query, every candidate update computed for it
  stream   \* history: the vectors passed to update, doc_id n at n + 1

vars == <<heaps, raised, seen, stream>>

\* A heap tuple (-dist, str(doc_id)), written with the distance key.
Entry == [dist : Key, id : Nat]

(***************************************************************************)
(* str(a) < str(b) for doc ids below 100: Python compares the decimal      *)
(* strings character by character, so "10" < "9" and "1" < "10".          *)
(***************************************************************************)
Lead(n) == IF n < 10 THEN n ELSE n \div 10
DocIdLess(a, b) ==
  \/ Lead(a) < Lead(b)
  \/ /\ Lead(a) = Lead(b)
     /\ b >= 10
     /\ a < b

\* Python's tuple order on (-dist, doc_id): (-e.dist) < (-f.dist), or equal
\* first components and a smaller id string.
EntryLess(e, f) ==
  \/ DistLess(f.dist, e.dist)
  \/ DistEq(e.dist, f.dist) /\ DocIdLess(e.id, f.id)

\* heap[0]: the least tuple of a heap, whose distance is the largest.
Top(h) == CHOOSE t \in h : \A f \in h : ~EntryLess(f, t)

(***************************************************************************)
(* One iteration of the loop of update for one query (lines 275-282):      *)
(* push while fewer than k tuples; otherwise replace heap[0] when the new  *)
(* distance is strictly smaller than -heap[0][0]; otherwise discard.       *)
(***************************************************************************)
\* Fault: len(heap) <= self.k at line 278, so a heap grows to k + 1.
StepOffByOne(h, e) ==
  IF Cardinality(h) <= K
  THEN h \cup {e}
  ELSE IF DistLess(e.dist, Top(h).dist)
       THEN (h \ {Top(h)}) \cup {e}
       ELSE h

Step(h, e) ==
  IF Cardinality(h) < K
  THEN h \cup {e}
  ELSE IF DistLess(e.dist, Top(h).dist)
       THEN (h \ {Top(h)}) \cup {e}
       ELSE h

Init ==
  /\ heaps = [i \in QIdx |-> {}]
  /\ raised = FALSE
  /\ seen = [i \in QIdx |-> {}]
  /\ stream = << >>

(***************************************************************************)
(* update(str(doc_id), vector) (lines 251-282): the loop over the queries  *)
(* in index order; query i is updated only when no query j <= i raised,    *)
(* since ValueError leaves the loop with the earlier heaps already         *)
(* changed.  The caller's doc_id is the number of earlier calls.           *)
(***************************************************************************)
\* Fault: the caller numbers documents from -1 (doc_id = start_idx + i - 1).
UpdateIdOffByOne(v) ==
  LET id == Len(stream) - 1
      d == [i \in QIdx |-> Distance(SpaceType, QV(i), v)]
      Reached(i) == \A j \in QIdx : j <= i => d[j] # ValueError
      e(i) == [dist |-> d[i], id |-> id]
  IN  /\ ~raised
      /\ Len(stream) < MaxDocs
      /\ heaps' = [i \in QIdx |-> IF Reached(i) THEN Step(heaps[i], e(i))
                                                ELSE heaps[i]]
      /\ raised' = \E i \in QIdx : d[i] = ValueError
      /\ seen' = [i \in QIdx |-> IF Reached(i) THEN seen[i] \cup {e(i)}
                                               ELSE seen[i]]
      /\ stream' = Append(stream, v)

Update(v) ==
  LET id == Len(stream)
      d == [i \in QIdx |-> Distance(SpaceType, QV(i), v)]
      Reached(i) == \A j \in QIdx : j <= i => d[j] # ValueError
      e(i) == [dist |-> d[i], id |-> id]
  IN  /\ ~raised
      /\ Len(stream) < MaxDocs
      /\ heaps' = [i \in QIdx |-> IF Reached(i) THEN Step(heaps[i], e(i))
                                                ELSE heaps[i]]
      /\ raised' = \E i \in QIdx : d[i] = ValueError
      /\ seen' = [i \in QIdx |-> IF Reached(i) THEN seen[i] \cup {e(i)}
                                               ELSE seen[i]]
      /\ stream' = Append(stream, v)

Next == \E v \in Vectors : Update(v)

Spec == Init /\ [][Next]_vars

(***************************************************************************)
(* get_ground_truth (lines 284-296) on a heap list h: sorted(heap,        *)
(* key=lambda x: -x[0]) is stable, so position p goes before position q    *)
(* when its distance is smaller, or equal and p comes first in the list.   *)
(* The sorted position of rank r - 1 is the r-th entry of the result.      *)
(***************************************************************************)
SortBefore(h, p, q) ==
  \/ DistLess(h[p].dist, h[q].dist)
  \/ DistEq(h[p].dist, h[q].dist) /\ p < q
SortRank(h, q) == Cardinality({p \in 1..Len(h) : SortBefore(h, p, q)})
SortedPos(h, r) == CHOOSE q \in 1..Len(h) : SortRank(h, q) = r - 1

\* Fault: the list returned in heap order, without the sort.
GetGroundTruthUnsorted(h) == [r \in 1..Len(h) |-> h[r].id]

GetGroundTruth(h) == [r \in 1..Len(h) |-> h[SortedPos(h, r)].id]

-----------------------------------------------------------------------------
(* Properties *)

TypeOK ==
  /\ heaps \in [QIdx -> SUBSET Entry]
  /\ raised \in BOOLEAN
  /\ seen \in [QIdx -> SUBSET Entry]
  /\ stream \in Seq(Vectors)

(***************************************************************************)
(* The tracker's correctness (spec section 3): after any prefix of the     *)
(* stream, the heap of each query holds min(n, k) of the n candidates      *)
(* computed for it, and no candidate left out is strictly nearer than one  *)
(* kept.  Breaking it takes a sequence of updates that fills a heap and    *)
(* then evicts the wrong tuple or keeps the wrong one.                     *)
(***************************************************************************)
\* h holds min(|s|, k) of the candidates s, none farther than one left out.
KeptNearest(h, s) ==
  /\ h \subseteq s
  /\ Cardinality(h) = IF Cardinality(s) < K THEN Cardinality(s) ELSE K
  /\ \A e \in s \ h, r \in h : ~DistLess(e.dist, r.dist)

\* Every query's heap keeps the nearest min(n, k) of its n candidates.
TopKExact == \A i \in QIdx : KeptNearest(heaps[i], seen[i])

(***************************************************************************)
(* Spec 7: a vector whose dimension differs from the query's is rejected   *)
(* (DimensionMismatch), never turned into a distance.  numpy broadcasting  *)
(* in np.linalg.norm(query_vector - vector_np) (line 263) and the          *)
(* zero-norm branch of cosine (line 271) both produce one.                 *)
(***************************************************************************)
DimensionMismatchRejected ==
  \A i \in QIdx : \A e \in seen[i] :
    Len(stream[e.id + 1]) = Len(QV(i))

\* The document ids of a set of heap tuples.
Ids(S) == {e.id : e \in S}
=============================================================================
