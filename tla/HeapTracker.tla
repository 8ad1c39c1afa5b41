------------------------------ MODULE HeapTracker ------------------------------
(***************************************************************************)
(* GroundTruthTracker (src/scripts/create_and_test_large_index.py, lines   *)
(* 226-300) with its heaps as the Python lists they are: update calls      *)
(* heapq.heappush and heapq.heapreplace (lines 278-282), whose sift loops  *)
(* (CPython's _siftdown and _siftup, the same in Lib/heapq.py and in the   *)
(* C module _heapq) are written out below, and get_ground_truth (lines     *)
(* 284-296, Tracker!GetGroundTruth) sorts the list with the stable sort.  *)
(*                                                                         *)
(* The module implements GroundTruthTracker: the set of a list's tuples is *)
(* the abstract heap (refinement mapping Tracker below).  The loops are    *)
(* RECURSIVE operators, so this module is for TLC only.                    *)
(***************************************************************************)
EXTENDS Integers, Sequences, FiniteSets, Functions

CONSTANTS QueryVectors, K, SpaceType, Vectors, MaxDocs

VARIABLES
  arr,     \* self.heaps: per query, the list of (-dist, doc_id) tuples
  raised,  \* update has raised ValueError (and the program has stopped)
  seen,    \* history: per query, every candidate update computed for it
  stream   \* history: the vectors passed to update, doc_id n at n + 1

hvars == <<arr, raised, seen, stream>>

\* The abstract tracker: a heap is the set of the list's tuples.
Tracker == INSTANCE GroundTruthTracker WITH heaps <- [i \in DOMAIN arr |-> Range(arr[i])]

QIdx == Tracker!QIdx
Less(a, b) == Tracker!EntryLess(a, b)   \* Python's a < b on two tuples

\* heap[pos] and heap[pos] = x, with 0-based positions as in heapq.
At(h, pos) == h[pos + 1]
Put(h, pos, x) == [h EXCEPT ![pos + 1] = x]
Parent(pos) == (pos - 1) \div 2        \* (pos - 1) >> 1

(***************************************************************************)
(* _siftdown(heap, startpos, pos): newitem = heap[pos] moves up past every *)
(* parent it is less than.                                                 *)
(***************************************************************************)
RECURSIVE SiftDownLoop(_, _, _, _)
SiftDownLoop(h, startpos, pos, newitem) ==
  IF pos > startpos /\ Less(newitem, At(h, Parent(pos)))
  THEN SiftDownLoop(Put(h, pos, At(h, Parent(pos))), startpos, Parent(pos), newitem)
  ELSE Put(h, pos, newitem)

SiftDown(h, startpos, pos) == SiftDownLoop(h, startpos, pos, At(h, pos))

(***************************************************************************)
(* _siftup(heap, pos): the smaller child moves up until a leaf is reached, *)
(* newitem is put there and _siftdown moves it back up.                    *)
(***************************************************************************)
\* Fault: the larger child moves up (the "not" of the child test dropped).
SmallerChildWrong(h, childpos) ==
  IF childpos + 1 < Len(h) /\ Less(At(h, childpos), At(h, childpos + 1))
  THEN childpos + 1 ELSE childpos

\* childpos, or rightpos when heap[childpos] < heap[rightpos] is false.
SmallerChild(h, childpos) ==
  IF childpos + 1 < Len(h) /\ ~Less(At(h, childpos), At(h, childpos + 1))
  THEN childpos + 1 ELSE childpos

RECURSIVE SiftUpLoop(_, _, _, _)
SiftUpLoop(h, startpos, pos, newitem) ==
  IF 2 * pos + 1 < Len(h)
  THEN LET c == SmallerChild(h, 2 * pos + 1)
       IN  SiftUpLoop(Put(h, pos, At(h, c)), startpos, c, newitem)
  ELSE SiftDown(Put(h, pos, newitem), startpos, pos)

HeapPush(h, x) == SiftDown(Append(h, x), 0, Len(h))
HeapReplace(h, x) == SiftUpLoop(Put(h, 0, x), 0, 0, x)

\* Lines 277-282 on the list: -heap[0][0] is the root's distance.
HStep(h, e) ==
  IF Len(h) < K THEN HeapPush(h, e)
  ELSE IF Tracker!DistLess(e.dist, At(h, 0).dist) THEN HeapReplace(h, e)
  ELSE h

HInit ==
  /\ arr = [i \in QIdx |-> << >>]
  /\ raised = FALSE
  /\ seen = [i \in QIdx |-> {}]
  /\ stream = << >>

\* update(str(doc_id), vector), lines 251-282, as in GroundTruthTracker.
HUpdate(v) ==
  LET id == Len(stream)
      d == [i \in QIdx |-> Tracker!Distance(SpaceType, Tracker!QV(i), v)]
      Reached(i) == \A j \in QIdx : j <= i => d[j] # Tracker!ValueError
      e(i) == [dist |-> d[i], id |-> id]
  IN  /\ ~raised
      /\ Len(stream) < MaxDocs
      /\ arr' = [i \in QIdx |-> IF Reached(i) THEN HStep(arr[i], e(i)) ELSE arr[i]]
      /\ raised' = \E i \in QIdx : d[i] = Tracker!ValueError
      /\ seen' = [i \in QIdx |-> IF Reached(i) THEN seen[i] \cup {e(i)} ELSE seen[i]]
      /\ stream' = Append(stream, v)

HNext == \E v \in Vectors : HUpdate(v)

HSpec == HInit /\ [][HNext]_hvars

-----------------------------------------------------------------------------
(* Properties *)

(***************************************************************************)
(* The lists implement the set-level tracker: every update of the lists is *)
(* an update of GroundTruthTracker on their sets of tuples.  It fails when *)
(* a sift loop leaves a list whose heap[0] is not its least tuple: line    *)
(* 281 then compares with, and heapreplace evicts, the wrong tuple, so     *)
(* TopKExact, proved of GroundTruthTracker, would not carry over.          *)
(***************************************************************************)
TrackerRefined == Tracker!Spec

\* The true distance of doc id n to query i, recomputed from the stream.
TrueDist(i, n) == Tracker!Distance(SpaceType, Tracker!QV(i), stream[n + 1])

(***************************************************************************)
(* Spec 8: get_ground_truth(i) returns min(n, k) ids for the n candidates  *)
(* of query i, by non-decreasing true distance to the query.  The list is  *)
(* in heap order, so this holds only through the sort of line 295.         *)
(***************************************************************************)
GroundTruthSorted ==
  \A i \in QIdx :
    LET gt == Tracker!GetGroundTruth(arr[i])
    IN  /\ Len(gt) = IF Cardinality(seen[i]) < K THEN Cardinality(seen[i]) ELSE K
        /\ \A r \in 1..(Len(gt) - 1) :
             ~Tracker!DistLess(TrueDist(i, gt[r + 1]), TrueDist(i, gt[r]))

(***************************************************************************)
(* Spec 4.1, 8 and its scenario (section 9: "A/C tie broken by first-seen, *)
(* here A before C"): get_ground_truth lists the first min(n, k) of the    *)
(* candidates ordered by distance and, at equal distance, by arrival (doc  *)
(* ids are numbered in arrival order).  The code keeps the smaller id      *)
(* string on eviction and lists ties in heap-array order.                  *)
(***************************************************************************)
FirstSeenRef(S) ==
  LET rank(e) == Cardinality({f \in S : \/ Tracker!DistLess(f.dist, e.dist)
                                        \/ Tracker!DistEq(f.dist, e.dist) /\ f.id < e.id})
      n == IF Cardinality(S) < K THEN Cardinality(S) ELSE K
  IN  [r \in 1..n |-> (CHOOSE e \in S : rank(e) = r - 1).id]

GroundTruthFirstSeen ==
  \A i \in QIdx : Tracker!GetGroundTruth(arr[i]) = FirstSeenRef(seen[i])
=============================================================================
