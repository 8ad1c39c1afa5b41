------------------------------ MODULE IndexVectors ------------------------------
(***************************************************************************)
(* index_vectors (src/scripts/create_and_test_large_index.py, lines        *)
(* 54-125) composed with the GroundTruthTracker it feeds.                  *)
(*                                                                         *)
(* Documents are numbered 0 .. num_vectors - 1 and sent in batches of      *)
(* batch_size.  For each document the loop builds the bulk lines and calls *)
(* ground_truth_tracker.update (line 92) before the batch is posted.  The  *)
(* bulk request either fails (status != 200, sys.exit(1)) or succeeds with *)
(* status 200, in which case OpenSearch may still reject single items (the *)
(* response's per-item errors, which the code does not read).  After a     *)
(* posted batch the loop may force-merge (line 104); force_merge's own     *)
(* steps are modelled in ForceMerge.                                       *)
(***************************************************************************)
EXTENDS GroundTruthTracker

CONSTANTS
  NumVectors,          \* num_vectors
  BatchSize,           \* batch_size
  ForceMergeFrequency, \* force_merge_frequency
  Tracking             \* ground_truth_tracker is not None

ASSUME IndexAssumption ==
  /\ NumVectors \in Nat
  /\ BatchSize \in Nat \ {0}
  /\ ForceMergeFrequency \in Nat
  /\ Tracking \in BOOLEAN
  /\ NumVectors <= MaxDocs

VARIABLES
  batch,   \* the loop variable batch of line 73
  pos,     \* the loop variable i of line 79
  pc,      \* "build", "merge", "done" (returned) or "exited"
  sent,    \* the doc ids of every bulk request sent, in order
  indexed, \* the doc ids OpenSearch accepted
  merged   \* the batches after which a force merge was started

ivars == <<batch, pos, pc, sent, indexed, merged>>
allvars == <<vars, ivars>>

MinOf(a, b) == IF a < b THEN a ELSE b

\* Fault: total_batches = num_vectors // batch_size, losing a partial batch.
TotalBatchesFloor == NumVectors \div BatchSize
\* Fault: end_idx = (batch + 1) * batch_size without the min.
EndIdxNoMin(b) == (b + 1) * BatchSize

\* Lines 63 and 74-76.
TotalBatches == (NumVectors + BatchSize - 1) \div BatchSize
StartIdx(b) == b * BatchSize
EndIdx(b) == MinOf((b + 1) * BatchSize, NumVectors)
BatchIds(b) == StartIdx(b)..(EndIdx(b) - 1)
\* The doc ids of batch b in the order its bulk body lists them.
BatchSeq(b) == [j \in 1..(EndIdx(b) - StartIdx(b)) |-> StartIdx(b) + j - 1]

\* The loop's next batch, or the return of line 125.
NextBatch ==
  /\ batch' = batch + 1
  /\ pos' = 0
  /\ pc' = IF batch + 1 < TotalBatches THEN "build" ELSE "done"

\* Fault: merge only when end_idx is itself a multiple of the frequency.
MergeDueExact(b) ==
  /\ ForceMergeFrequency > 0
  /\ EndIdx(b) % ForceMergeFrequency = 0

\* The condition of line 104.
MergeDue(b) ==
  /\ ForceMergeFrequency > 0
  /\ EndIdx(b) % ForceMergeFrequency < BatchSize

IndexInit ==
  /\ Init
  /\ batch = 0
  /\ pos = 0
  /\ pc = IF 0 < TotalBatches THEN "build" ELSE "done"
  /\ sent = << >>
  /\ indexed = {}
  /\ merged = {}

(***************************************************************************)
(* One iteration of the inner loop (lines 79-92): doc_id = start_idx + i   *)
(* and, with a tracker, update(str(doc_id), vector) for a random vector.   *)
(* A ValueError from update is not caught: the program ends.               *)
(***************************************************************************)
\* Fault: update called once per batch, after the inner loop, as if the
\* call at line 92 were dedented.
AddDocLastOnly ==
  /\ pc = "build"
  /\ pos < EndIdx(batch) - StartIdx(batch)
  /\ \/ /\ Tracking
        /\ pos = EndIdx(batch) - StartIdx(batch) - 1
        /\ \E v \in Vectors : Update(v)
        /\ pc' = IF raised' THEN "exited" ELSE "build"
     \/ /\ ~Tracking \/ pos < EndIdx(batch) - StartIdx(batch) - 1
        /\ UNCHANGED <<vars, pc>>
  /\ pos' = pos + 1
  /\ UNCHANGED <<batch, sent, indexed, merged>>

AddDoc ==
  /\ pc = "build"
  /\ pos < EndIdx(batch) - StartIdx(batch)
  /\ \/ /\ Tracking
        /\ \E v \in Vectors : Update(v)
        /\ pc' = IF raised' THEN "exited" ELSE "build"
     \/ /\ ~Tracking
        /\ UNCHANGED <<vars, pc>>
  /\ pos' = pos + 1
  /\ UNCHANGED <<batch, sent, indexed, merged>>

(***************************************************************************)
(* The bulk request of lines 94-99.  A non-200 status exits; a 200 status  *)
(* may come with some items rejected, which the code does not look at.     *)
(* Then the force merge of line 104, or the next batch.                    *)
(***************************************************************************)
PostFailed ==
  /\ pc = "build"
  /\ pos = EndIdx(batch) - StartIdx(batch)
  /\ sent' = sent \o BatchSeq(batch)
  /\ pc' = "exited"
  /\ UNCHANGED <<vars, batch, pos, indexed, merged>>

PostOk ==
  /\ pc = "build"
  /\ pos = EndIdx(batch) - StartIdx(batch)
  /\ sent' = sent \o BatchSeq(batch)
  /\ \E accepted \in SUBSET BatchIds(batch) : indexed' = indexed \cup accepted
  /\ IF MergeDue(batch)
     THEN pc' = "merge" /\ UNCHANGED <<batch, pos>>
     ELSE NextBatch
  /\ UNCHANGED <<vars, merged>>

\* Lines 105-120: force_merge, the stats request and the CSV row.
Merge ==
  /\ pc = "merge"
  /\ merged' = merged \cup {batch}
  /\ NextBatch
  /\ UNCHANGED <<vars, sent, indexed>>

IndexNext == AddDoc \/ PostFailed \/ PostOk \/ Merge

\* The program is one thread.  No fairness: the HTTP calls have no timeout,
\* so nothing guarantees that a step is ever taken.
IndexSpec == IndexInit /\ [][IndexNext]_allvars

-----------------------------------------------------------------------------
(* Properties *)

IndexTypeOK ==
  /\ TypeOK
  /\ batch \in 0..TotalBatches
  /\ pos \in 0..BatchSize
  /\ pc \in {"build", "merge", "done", "exited"}
  /\ sent \in Seq(0..(NumVectors - 1))
  /\ indexed \subseteq 0..(NumVectors - 1)
  /\ merged \subseteq 0..(TotalBatches - 1)

(***************************************************************************)
(* When index_vectors returns, its bulk requests have carried every doc id *)
(* 0 .. num_vectors - 1 exactly once and in order: the batch arithmetic of *)
(* lines 63 and 74-76 neither drops the last partial batch nor repeats or  *)
(* overruns one.                                                           *)
(***************************************************************************)
BatchesCoverAll ==
  pc = "done" => sent = [j \in 1..NumVectors |-> j - 1]

(***************************************************************************)
(* While a batch is built, the tracker has seen exactly the documents      *)
(* built so far: doc id n is the (n+1)-th call of update.  This is the     *)
(* numbering the tracker's proof of TopKExact relies on for fresh ids.     *)
(***************************************************************************)
TrackerSeesBuilt ==
  Tracking /\ pc = "build" => Len(stream) = StartIdx(batch) + pos

(***************************************************************************)
(* The help text of --force-merge-frequency (line 569): a merge runs after *)
(* every batch in which the document count crosses a multiple of N.        *)
(***************************************************************************)
CrossesMultiple(b) ==
  \E m \in (StartIdx(b) + 1)..EndIdx(b) : m % ForceMergeFrequency = 0
MergeEveryMultiple ==
  \A b \in 0..(batch - 1) :
    ForceMergeFrequency > 0 /\ CrossesMultiple(b) => b \in merged

\* ... and only after such a batch.
MergeOnlyAtMultiples ==
  \A b \in merged : CrossesMultiple(b)

(***************************************************************************)
(* Spec 6: recall compares the search results with ground truth over the   *)
(* vectors ingested.  When index_vectors returns, every doc id the tracker *)
(* keeps is in the index.  The tracker is updated before the bulk request  *)
(* (line 92) and only the HTTP status is checked (line 97).                *)
(***************************************************************************)
GroundTruthIndexed ==
  pc = "done" => \A q \in QIdx : Ids(heaps[q]) \subseteq indexed
=============================================================================
