--------------------------- MODULE IndexVectorsProofs ---------------------------
(***************************************************************************)
(* Proofs about index_vectors composed with the tracker, for every value   *)
(* of the constants that satisfies IndexAssumption and the tracker's       *)
(* assumptions.                                                            *)
(***************************************************************************)
EXTENDS IndexVectors, GroundTruthTrackerProofs, SequenceTheorems, TLAPS

USE IndexAssumption

-----------------------------------------------------------------------------
(* The batch arithmetic of lines 63 and 74-76.                             *)

\* total_batches rounds up: q = total_batches satisfies (q-1)*bs < n <= q*bs.
LEMMA TotalBatchesBounds ==
  /\ TotalBatches \in Nat
  /\ TotalBatches * BatchSize >= NumVectors
  /\ (TotalBatches - 1) * BatchSize < NumVectors \/ NumVectors = 0
  /\ NumVectors = 0 => TotalBatches = 0
  BY SMT DEF TotalBatches

\* A batch that is not the last ends where the next one starts.
LEMMA NextStart ==
  ASSUME NEW b \in Nat, b + 1 < TotalBatches
  PROVE  EndIdx(b) = StartIdx(b + 1)
<1>1. (b + 2) * BatchSize <= TotalBatches * BatchSize
  BY TotalBatchesBounds, SMT
<1>2. (b + 1) * BatchSize < NumVectors \/ NumVectors = 0
  BY <1>1, TotalBatchesBounds, SMT
<1>3. NumVectors # 0
  BY TotalBatchesBounds, SMT DEF TotalBatches
<1> QED
  BY <1>2, <1>3 DEF EndIdx, StartIdx, MinOf

\* The last batch ends at num_vectors.
LEMMA LastEnd ==
  ASSUME NEW b \in Nat, b < TotalBatches, ~(b + 1 < TotalBatches)
  PROVE  EndIdx(b) = NumVectors
<1>1. b + 1 = TotalBatches
  BY TotalBatchesBounds
<1> QED
  BY <1>1, TotalBatchesBounds DEF EndIdx, MinOf

\* A batch is not empty and does not start past its end.
LEMMA StartBeforeEnd ==
  ASSUME NEW b \in Nat, b < TotalBatches
  PROVE  /\ StartIdx(b) \in Nat
         /\ EndIdx(b) \in Nat
         /\ StartIdx(b) < EndIdx(b)
<1>1. b * BatchSize <= (TotalBatches - 1) * BatchSize
  BY TotalBatchesBounds, SMT
<1>2. NumVectors # 0
  BY TotalBatchesBounds
<1>3. b * BatchSize < NumVectors
  BY <1>1, <1>2, TotalBatchesBounds, SMT
<1> QED
  BY <1>3 DEF EndIdx, StartIdx, MinOf

\* No batch when there is nothing to index.
LEMMA NoBatches ==
  ~(0 < TotalBatches) => NumVectors = 0
  BY TotalBatchesBounds
-----------------------------------------------------------------------------
(* The bulk bodies.                                                        *)

\* The ids 0 .. n - 1 in order.
Iota(n) == [j \in 1..n |-> j - 1]

LEMMA IotaSeq ==
  ASSUME NEW n \in Nat
  PROVE  /\ Iota(n) \in Seq(Nat)
         /\ Len(Iota(n)) = n
<1>1. \A j \in 1..n : j - 1 \in Nat
  OBVIOUS
<1>2. Iota(n) \in Seq(Nat)
  BY <1>1, IsASeq DEF Iota
<1> QED
  BY <1>2, LenProperties DEF Iota

\* The body of batch b continues the ids sent before it (lines 78-88).
LEMMA BatchContinues ==
  ASSUME NEW b \in Nat, b < TotalBatches
  PROVE  Iota(StartIdx(b)) \o BatchSeq(b) = Iota(EndIdx(b))
<1> DEFINE S == StartIdx(b)
           E == EndIdx(b)
<1>1. S \in Nat /\ E \in Nat /\ S < E
  BY StartBeforeEnd DEF S, E
<1>2. BatchSeq(b) \in Seq(Nat) /\ Len(BatchSeq(b)) = E - S
  <2>1. E - S \in Nat
    BY <1>1
  <2>2. BatchSeq(b) \in Seq(Nat)
    BY <1>1, <2>1 DEF BatchSeq, S, E
  <2> QED
    BY <2>2, <2>1, LenProperties DEF BatchSeq, S, E
<1>3. /\ Iota(S) \in Seq(Nat) /\ Len(Iota(S)) = S
      /\ Iota(E) \in Seq(Nat) /\ Len(Iota(E)) = E
  BY <1>1, IotaSeq DEF S, E
<1>4. /\ Iota(S) \o BatchSeq(b) \in Seq(Nat)
      /\ Len(Iota(S) \o BatchSeq(b)) = E
      /\ \A i \in 1..E : (Iota(S) \o BatchSeq(b))[i] =
             IF i <= S THEN Iota(S)[i] ELSE BatchSeq(b)[i - S]
  <2> DEFINE s1 == Iota(S)
             s2 == BatchSeq(b)
  <2>1. s1 \in Seq(Nat) /\ s2 \in Seq(Nat)
    BY <1>2, <1>3 DEF s1, s2
  <2>2. /\ s1 \o s2 \in Seq(Nat)
        /\ Len(s1 \o s2) = Len(s1) + Len(s2)
        /\ \A i \in 1 .. Len(s1) + Len(s2) :
              (s1 \o s2)[i] = IF i <= Len(s1) THEN s1[i] ELSE s2[i - Len(s1)]
    BY <2>1, ConcatProperties, Zenon
  <2>3. Len(s1) + Len(s2) = E /\ Len(s1) = S
    BY <1>1, <1>2, <1>3 DEF s1, s2
  <2> QED
    BY <2>2, <2>3 DEF s1, s2
<1>5. \A i \in 1..E : (Iota(S) \o BatchSeq(b))[i] = Iota(E)[i]
  BY <1>1, <1>4 DEF Iota, BatchSeq, S, E
<1> QED
  BY <1>3, <1>4, <1>5, SeqEqual DEF S, E

-----------------------------------------------------------------------------
(* The tracker inside index_vectors.                                       *)

\* Every step of index_vectors is an update call or leaves the tracker alone.
LEMMA IndexStepIsTrackerStep ==
  [IndexNext]_allvars => [Next]_vars
<1> SUFFICES ASSUME [IndexNext]_allvars PROVE [Next]_vars
  OBVIOUS
<1>1. CASE AddDoc
  BY <1>1 DEF AddDoc, Next
<1>2. CASE PostFailed \/ PostOk \/ Merge
  BY <1>2 DEF PostFailed, PostOk, Merge
<1>3. CASE UNCHANGED allvars
  BY <1>3 DEF allvars
<1> QED
  BY <1>1, <1>2, <1>3 DEF IndexNext

(***************************************************************************)
(* index_vectors drives the tracker only through update (line 92): every   *)
(* behaviour of the loop, projected on the tracker's variables, is a       *)
(* behaviour of GroundTruthTracker's own specification.                    *)
(***************************************************************************)
THEOREM IndexImplementsTracker == IndexSpec => Spec
<1>1. IndexInit => Init
  BY DEF IndexInit
<1>2. [IndexNext]_allvars => [Next]_vars
  BY IndexStepIsTrackerStep
<1> QED
  BY <1>1, <1>2, PTL DEF IndexSpec, Spec

(***************************************************************************)
(* For every instance: while index_vectors feeds the tracker (line 92),    *)
(* each query's heap holds the nearest min(n, k) of the documents built so *)
(* far.  The loop's steps are update calls or leave the tracker alone, and *)
(* it numbers documents 0, 1, 2, ..., which TopKExact's proof needs.       *)
(***************************************************************************)
THEOREM IndexTopKExact == IndexSpec => []TopKExact
<1>1. IndexInit => IInv
  BY InitIInv DEF IndexInit
<1>2. IInv /\ [IndexNext]_allvars => IInv'
  BY NextIInv, IndexStepIsTrackerStep
<1>3. IInv => TopKExact
  BY DEF IInv
<1> QED
  BY <1>1, <1>2, <1>3, PTL DEF IndexSpec
-----------------------------------------------------------------------------
(* The batches and the tracker's numbering.                                *)

(***************************************************************************)
(* The inductive invariant: while batch b is built, the bulk requests have *)
(* carried ids 0 .. start_idx - 1 and the tracker has seen start_idx + i   *)
(* documents; once it is posted, ids up to end_idx; once the function      *)
(* returns, every id.  BatchesCoverAll and TrackerSeesBuilt are not        *)
(* inductive alone: the step into the next batch needs the state of the    *)
(* merge branch, and the bound on i.                                       *)
(***************************************************************************)
BuildOK ==
  pc = "build" => /\ batch < TotalBatches
                  /\ pos <= EndIdx(batch) - StartIdx(batch)
                  /\ sent = Iota(StartIdx(batch))
                  /\ Tracking => Len(stream) = StartIdx(batch) + pos
MergeOK ==
  pc = "merge" => /\ batch < TotalBatches
                  /\ sent = Iota(EndIdx(batch))
                  /\ Tracking => Len(stream) = EndIdx(batch)
DoneOK == pc = "done" => sent = Iota(NumVectors)

BInv ==
  /\ TypeOK
  /\ batch \in Nat
  /\ pos \in Nat
  /\ pc \in {"build", "merge", "done", "exited"}
  /\ BuildOK
  /\ MergeOK
  /\ DoneOK

\* After the batch is posted (and merged), the loop moves on or returns.
LEMMA EndOfBatch ==
  ASSUME batch \in Nat, batch < TotalBatches,
         sent' = Iota(EndIdx(batch)),
         Tracking => Len(stream') = EndIdx(batch),
         batch' = batch + 1, pos' = 0,
         pc' = IF batch + 1 < TotalBatches THEN "build" ELSE "done"
  PROVE  BuildOK' /\ MergeOK' /\ DoneOK'
<1>1. CASE batch + 1 < TotalBatches
  <2>1. EndIdx(batch) = StartIdx(batch + 1)
    BY <1>1, NextStart
  <2>2. StartIdx(batch + 1) \in Nat /\ EndIdx(batch + 1) \in Nat
        /\ StartIdx(batch + 1) < EndIdx(batch + 1)
    BY <1>1, StartBeforeEnd
  <2>3. pc' = "build"
    BY <1>1
  <2>4. /\ batch' < TotalBatches
        /\ pos' <= EndIdx(batch') - StartIdx(batch')
        /\ sent' = Iota(StartIdx(batch'))
        /\ Tracking => Len(stream') = StartIdx(batch') + pos'
    BY <1>1, <2>1, <2>2
  <2> QED
    BY <2>3, <2>4 DEF BuildOK, MergeOK, DoneOK
<1>2. CASE ~(batch + 1 < TotalBatches)
  <2>1. pc' = "done" /\ sent' = Iota(NumVectors)
    BY <1>2, LastEnd
  <2> QED
    BY <2>1 DEF BuildOK, MergeOK, DoneOK
<1> QED
  BY <1>1, <1>2

LEMMA InitBInv == IndexInit => BInv
<1> SUFFICES ASSUME IndexInit PROVE BInv
  OBVIOUS
<1>1. TypeOK
  BY InitTypeOK DEF IndexInit
<1>2. Iota(0) = << >>
  BY DEF Iota
<1>3. CASE 0 < TotalBatches
  <2>1. StartIdx(0) = 0 /\ EndIdx(0) \in Nat /\ 0 < EndIdx(0) - StartIdx(0)
    BY <1>3, StartBeforeEnd DEF StartIdx
  <2>2. pc = "build" /\ batch = 0 /\ pos = 0 /\ sent = << >> /\ stream = << >>
    BY <1>3 DEF IndexInit, Init
  <2>3. BuildOK
    <3>1. sent = Iota(StartIdx(batch))
      BY <1>2, <2>1, <2>2
    <3>2. Len(stream) = StartIdx(batch) + pos
      BY <2>1, <2>2
    <3>3. batch < TotalBatches
      BY <1>3, <2>2, Zenon
    <3>4. pos <= EndIdx(batch) - StartIdx(batch)
      BY <2>1, <2>2
    <3> QED
      BY <3>1, <3>2, <3>3, <3>4, Zenon DEF BuildOK
  <2>4. MergeOK /\ DoneOK
    BY <2>2 DEF MergeOK, DoneOK
  <2> QED
    BY <1>1, <2>2, <2>3, <2>4 DEF BInv
<1>4. CASE ~(0 < TotalBatches)
  BY <1>1, <1>2, <1>4, NoBatches DEF IndexInit, BInv, BuildOK, MergeOK, DoneOK
<1> QED
  BY <1>3, <1>4
LEMMA NextBInv == BInv /\ [IndexNext]_allvars => BInv'
<1> SUFFICES ASSUME BInv, [IndexNext]_allvars PROVE BInv'
  OBVIOUS
<1>0. TypeOK'
  BY NextTypeOK, IndexStepIsTrackerStep DEF BInv
<1>1. CASE AddDoc
  <2>1. /\ pc = "build" /\ batch < TotalBatches
        /\ pos < EndIdx(batch) - StartIdx(batch)
        /\ sent = Iota(StartIdx(batch))
        /\ Tracking => Len(stream) = StartIdx(batch) + pos
        /\ UNCHANGED <<batch, sent>> /\ pos' = pos + 1
    BY <1>1 DEF AddDoc, BInv, BuildOK
  <2>2. StartIdx(batch) \in Nat /\ EndIdx(batch) \in Nat
    BY <2>1, StartBeforeEnd DEF BInv
  <2>3. pc' \in {"build", "exited"}
    BY <1>1 DEF AddDoc
  <2>4. Tracking /\ pc' = "build" => Len(stream') = StartIdx(batch) + pos + 1
    <3> SUFFICES ASSUME Tracking, pc' = "build" PROVE Len(stream') = Len(stream) + 1
      BY <2>1, <2>2 DEF BInv
    <3>1. PICK v \in Vectors : Update(v)
      BY <1>1 DEF AddDoc
    <3> QED
      BY <3>1 DEF Update, BInv, TypeOK
  <2>5. BuildOK'
    BY <2>1, <2>2, <2>3, <2>4 DEF BuildOK, BInv
  <2> QED
    BY <1>0, <2>1, <2>3, <2>5 DEF BInv, MergeOK, DoneOK
<1>2. CASE PostFailed
  BY <1>0, <1>2 DEF PostFailed, BInv, BuildOK, MergeOK, DoneOK
<1>3. CASE PostOk
  <2>1. /\ pc = "build" /\ batch < TotalBatches
        /\ pos = EndIdx(batch) - StartIdx(batch)
        /\ sent = Iota(StartIdx(batch))
        /\ Tracking => Len(stream) = StartIdx(batch) + pos
        /\ UNCHANGED stream
    BY <1>3 DEF PostOk, BInv, BuildOK, vars
  <2>2. StartIdx(batch) \in Nat /\ EndIdx(batch) \in Nat
    BY <2>1, StartBeforeEnd DEF BInv
  <2>3. sent' = Iota(EndIdx(batch))
    BY <1>3, <2>1, BatchContinues DEF PostOk, BInv
  <2>4. Tracking => Len(stream') = EndIdx(batch)
    BY <2>1, <2>2
  <2>5. CASE MergeDue(batch)
    <3>1. pc' = "merge" /\ batch' = batch /\ pos' = pos
      BY <1>3, <2>5 DEF PostOk
    <3> QED
      BY <1>0, <2>1, <2>3, <2>4, <3>1 DEF BInv, BuildOK, MergeOK, DoneOK
  <2>6. CASE ~MergeDue(batch)
    <3>1. NextBatch
      BY <1>3, <2>6 DEF PostOk
    <3>2. /\ batch' = batch + 1 /\ pos' = 0
          /\ pc' = IF batch + 1 < TotalBatches THEN "build" ELSE "done"
      BY <3>1 DEF NextBatch
    <3>3. BuildOK' /\ MergeOK' /\ DoneOK'
      BY <2>1, <2>3, <2>4, <3>2, EndOfBatch DEF BInv
    <3> QED
      BY <1>0, <3>2, <3>3 DEF BInv
  <2> QED
    BY <2>5, <2>6
<1>4. CASE Merge
  <2>1. /\ pc = "merge" /\ batch < TotalBatches
        /\ sent = Iota(EndIdx(batch))
        /\ Tracking => Len(stream) = EndIdx(batch)
        /\ UNCHANGED <<stream, sent>>
        /\ NextBatch
    BY <1>4 DEF Merge, BInv, MergeOK, vars
  <2>2. /\ batch' = batch + 1 /\ pos' = 0
        /\ pc' = IF batch + 1 < TotalBatches THEN "build" ELSE "done"
    BY <2>1 DEF NextBatch
  <2>3. BuildOK' /\ MergeOK' /\ DoneOK'
    BY <2>1, <2>2, EndOfBatch DEF BInv
  <2> QED
    BY <1>0, <2>2, <2>3 DEF BInv
<1>5. CASE UNCHANGED allvars
  BY <1>0, <1>5 DEF allvars, ivars, vars, BInv, BuildOK, MergeOK, DoneOK
<1> QED
  BY <1>1, <1>2, <1>3, <1>4, <1>5 DEF IndexNext
(***************************************************************************)
(* For every num_vectors, batch_size and merge frequency: when             *)
(* index_vectors returns, its bulk requests carried ids 0 .. n - 1 once    *)
(* each and in order (the round-up of line 63 and the min of line 75).     *)
(***************************************************************************)
THEOREM BatchesCoverAllHolds == IndexSpec => []BatchesCoverAll
<1>1. BInv => BatchesCoverAll
  BY DEF BInv, DoneOK, Iota, BatchesCoverAll
<1> QED
  BY <1>1, InitBInv, NextBInv, PTL DEF IndexSpec

(***************************************************************************)
(* For every batch size: while a batch is built, the tracker has been      *)
(* called once per document built so far, so doc id n is the (n+1)-th     *)
(* update (line 80 and line 92).                                           *)
(***************************************************************************)
THEOREM TrackerSeesBuiltHolds == IndexSpec => []TrackerSeesBuilt
<1>1. BInv => TrackerSeesBuilt
  BY DEF BInv, BuildOK, TrackerSeesBuilt
<1> QED
  BY <1>1, InitBInv, NextBInv, PTL DEF IndexSpec
(***************************************************************************)
(* The test of line 104: when (start, end] holds a multiple of f and the   *)
(* batch has at most batch_size documents, end % f < batch_size, because   *)
(* end % f is end minus the largest multiple of f not above end.           *)
(***************************************************************************)
LEMMA CrossingIsDue ==
  ASSUME NEW F \in Nat \ {0}, NEW S \in Int, NEW E \in Int,
         E - S <= BatchSize, NEW m \in (S + 1)..E, m % F = 0
  PROVE  E % F < BatchSize
<1>1. E = F * (E \div F) + (E % F)
  BY SMT
<1>2. m = F * (m \div F)
  BY SMT
<1>3. m \div F <= E \div F
  BY SMT
<1>4. F * (m \div F) <= F * (E \div F)
  BY <1>3, SMT
<1> QED
  BY <1>1, <1>2, <1>4, SMT
(***************************************************************************)
(* Every batch the loop has left behind and whose end passed the test of   *)
(* line 104 has been merged.                                               *)
(***************************************************************************)
MInv == \A b \in 0..(batch - 1) : MergeDue(b) => b \in merged

LEMMA InitMInv == IndexInit => MInv
  BY DEF IndexInit, MInv

LEMMA NextMInv == BInv /\ MInv /\ [IndexNext]_allvars => MInv'
<1> SUFFICES ASSUME BInv, MInv, [IndexNext]_allvars PROVE MInv'
  OBVIOUS
<1>1. batch \in Nat
  BY DEF BInv
<1>2. CASE AddDoc
  BY <1>2 DEF AddDoc, MInv
<1>3. CASE PostFailed
  BY <1>3 DEF PostFailed, MInv
<1>4. CASE PostOk /\ MergeDue(batch)
  BY <1>4 DEF PostOk, MInv
<1>5. CASE PostOk /\ ~MergeDue(batch)
  <2>1. batch' = batch + 1 /\ merged' = merged
    BY <1>5 DEF PostOk, NextBatch
  <2> QED
    BY <1>1, <1>5, <2>1 DEF MInv
<1>6. CASE Merge
  <2>1. batch' = batch + 1 /\ merged' = merged \cup {batch}
    BY <1>6 DEF Merge, NextBatch
  <2> QED
    BY <1>1, <2>1 DEF MInv
<1>7. CASE UNCHANGED allvars
  BY <1>7 DEF allvars, ivars, MInv
<1> QED
  BY <1>2, <1>3, <1>4, <1>5, <1>6, <1>7 DEF IndexNext

(***************************************************************************)
(* For every batch size and merge frequency: a force merge has run after   *)
(* every finished batch in which the document count crossed a multiple of  *)
(* the frequency, as the help text of line 569 says; the test of line 104, *)
(* end_idx % f < batch_size, never misses one.                             *)
(***************************************************************************)
THEOREM MergeEveryMultipleHolds == IndexSpec => []MergeEveryMultiple
<1>1. MInv => MergeEveryMultiple
  <2> SUFFICES ASSUME MInv, NEW b \in 0..(batch - 1), ForceMergeFrequency > 0,
                      CrossesMultiple(b)
               PROVE  b \in merged
    BY DEF MergeEveryMultiple
  <2>1. PICK m \in (StartIdx(b) + 1)..EndIdx(b) : m % ForceMergeFrequency = 0
    BY DEF CrossesMultiple
  <2>2. /\ StartIdx(b) \in Int /\ EndIdx(b) \in Int
        /\ EndIdx(b) - StartIdx(b) <= BatchSize
    BY DEF StartIdx, EndIdx, MinOf
  <2>3. EndIdx(b) % ForceMergeFrequency < BatchSize
    BY <2>1, <2>2, CrossingIsDue
  <2> QED
    BY <2>3 DEF MInv, MergeDue
<1> QED
  BY <1>1, InitMInv, InitBInv, NextMInv, NextBInv, PTL DEF IndexSpec

-----------------------------------------------------------------------------
(* The types of the loop's state.                                          *)

\* A batch lies inside 0 .. num_vectors - 1 and holds at most batch_size ids.
LEMMA BatchInRange ==
  ASSUME NEW b \in Nat, b < TotalBatches
  PROVE  /\ EndIdx(b) - StartIdx(b) \in 0..BatchSize
         /\ BatchSeq(b) \in Seq(0..(NumVectors - 1))
         /\ BatchIds(b) \subseteq 0..(NumVectors - 1)
<1>1. /\ StartIdx(b) \in Nat /\ EndIdx(b) \in Nat /\ StartIdx(b) < EndIdx(b)
      /\ EndIdx(b) <= NumVectors /\ EndIdx(b) - StartIdx(b) <= BatchSize
  BY StartBeforeEnd DEF EndIdx, StartIdx, MinOf
<1>2. BatchSeq(b) \in Seq(0..(NumVectors - 1))
  <2>1. EndIdx(b) - StartIdx(b) \in Nat
    BY <1>1
  <2>2. \A j \in 1..(EndIdx(b) - StartIdx(b)) : StartIdx(b) + j - 1 \in 0..(NumVectors - 1)
    BY <1>1
  <2> QED
    BY <2>1, <2>2 DEF BatchSeq
<1> QED
  BY <1>1, <1>2 DEF BatchIds

\* Posting batch b appends its ids to the bulk bodies sent so far.
LEMMA SentStaysInRange ==
  ASSUME NEW s \in Seq(0..(NumVectors - 1)), NEW b \in Nat, b < TotalBatches
  PROVE  s \o BatchSeq(b) \in Seq(0..(NumVectors - 1))
<1>1. BatchSeq(b) \in Seq(0..(NumVectors - 1))
  BY BatchInRange
<1> QED
  BY <1>1, ConcatProperties, Zenon

LEMMA InitIndexTypeOK == IndexInit => IndexTypeOK
<1> SUFFICES ASSUME IndexInit PROVE IndexTypeOK
  OBVIOUS
<1>1. TypeOK
  BY InitTypeOK DEF IndexInit
<1>2. TotalBatches \in Nat
  BY TotalBatchesBounds
<1> QED
  BY <1>1, <1>2 DEF IndexInit, IndexTypeOK

LEMMA NextIndexTypeOK ==
  BInv /\ IndexTypeOK /\ [IndexNext]_allvars => IndexTypeOK'
<1> SUFFICES ASSUME BInv, IndexTypeOK, [IndexNext]_allvars PROVE IndexTypeOK'
  OBVIOUS
<1>1. TypeOK'
  BY NextBInv DEF BInv
<1>2. TotalBatches \in Nat
  BY TotalBatchesBounds
<1>3. CASE AddDoc
  <2>1. EndIdx(batch) - StartIdx(batch) \in 0..BatchSize
    BY <1>3, BatchInRange DEF AddDoc, BInv, BuildOK
  <2>2. pos' \in 0..BatchSize
    BY <1>3, <2>1 DEF AddDoc, IndexTypeOK
  <2>3. pc' \in {"build", "merge", "done", "exited"}
    BY <1>3 DEF AddDoc
  <2> QED
    BY <1>1, <1>3, <2>2, <2>3 DEF AddDoc, IndexTypeOK
<1>4. CASE PostFailed
  <2>1. batch < TotalBatches
    BY <1>4 DEF PostFailed, BInv, BuildOK
  <2>2. sent' \in Seq(0..(NumVectors - 1))
    BY <1>4, <2>1, SentStaysInRange DEF PostFailed, IndexTypeOK, BInv
  <2> QED
    BY <1>1, <1>4, <2>2 DEF PostFailed, IndexTypeOK
<1>5. CASE PostOk
  <2>1. batch < TotalBatches /\ batch \in Nat
    BY <1>5 DEF PostOk, BInv, BuildOK
  <2>2. sent' \in Seq(0..(NumVectors - 1))
    BY <1>5, <2>1, SentStaysInRange DEF PostOk, IndexTypeOK
  <2>3. indexed' \subseteq 0..(NumVectors - 1)
    BY <1>5, <2>1, BatchInRange DEF PostOk, IndexTypeOK
  <2>4. /\ batch' \in 0..TotalBatches /\ pos' \in 0..BatchSize
        /\ pc' \in {"build", "merge", "done", "exited"}
    BY <1>2, <1>5, <2>1 DEF PostOk, NextBatch, IndexTypeOK
  <2> QED
    BY <1>1, <1>5, <2>2, <2>3, <2>4 DEF PostOk, IndexTypeOK
<1>6. CASE Merge
  <2>1. batch < TotalBatches /\ batch \in Nat
    BY <1>6 DEF Merge, BInv, MergeOK
  <2>2. merged' \subseteq 0..(TotalBatches - 1)
    BY <1>2, <1>6, <2>1 DEF Merge, IndexTypeOK
  <2>3. /\ batch' \in 0..TotalBatches /\ pos' \in 0..BatchSize
        /\ pc' \in {"build", "merge", "done", "exited"}
    BY <1>2, <1>6, <2>1 DEF Merge, NextBatch
  <2> QED
    BY <1>1, <1>6, <2>2, <2>3 DEF Merge, IndexTypeOK
<1>7. CASE UNCHANGED allvars
  BY <1>7 DEF allvars, ivars, vars, IndexTypeOK, TypeOK
<1> QED
  BY <1>3, <1>4, <1>5, <1>6, <1>7 DEF IndexNext

(***************************************************************************)
(* For every num_vectors, batch_size and frequency: the loop's batch index *)
(* stays within 0 .. total_batches, its inner index within a batch, every  *)
(* id it sends or that the engine indexes is below num_vectors, and every  *)
(* merge follows a real batch (lines 63-125).                              *)
(***************************************************************************)
THEOREM IndexTypeCorrect == IndexSpec => []IndexTypeOK
<1>1. IndexInit => BInv /\ IndexTypeOK
  BY InitBInv, InitIndexTypeOK
<1>2. BInv /\ IndexTypeOK /\ [IndexNext]_allvars => BInv' /\ IndexTypeOK'
  BY NextBInv, NextIndexTypeOK
<1> QED
  BY <1>1, <1>2, PTL DEF IndexSpec

====
