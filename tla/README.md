# TLA+ models of `create_and_test_large_index.py`

The repository has one program, `src/scripts/create_and_test_large_index.py`.
It is a benchmark harness for a jvector k-NN index in OpenSearch. It does the
following:

- creates an index;
- streams random vectors into it in bulk batches, force-merging now and then;
- while streaming, feeds every vector to `GroundTruthTracker`, which keeps the
  exact k nearest vectors to each of Q pre-generated query vectors;
- runs approximate searches with the same query vectors and reads the
  engine's statistics before and after each one;
- scores each search with `calculate_recall` against the tracker's ground truth.

`spec.md` describes the tracker and the recall evaluator. The rest of the
program is orchestration against the HTTP API.

## Inventory

| Part | Source lines | State | Operations | Status |
|---|---|---|---|---|
| `GroundTruthTracker` | 226-300 | `heaps`: one heapq list of `(-dist, str(doc_id))` per query | `__init__`, `update`, `get_ground_truth`, `get_query_vector` | modelled (`GroundTruthTracker` on sets, `HeapTracker` on the heapq lists; `get_query_vector` in `SearchStats`) |
| distance | 258-273 | none | l2 norm, cosine with the zero-norm branch, ValueError | modelled (`Metric`) |
| `index_vectors` | 54-125 | doc id counter, batch index | build a batch and call `update` per vector; POST the batch; maybe force-merge | modelled (`IndexVectors`, composed with the tracker) |
| `calculate_recall` | 302-321 | none | recall of one search | modelled (`SearchStats`) |
| `force_merge`, `get_knn_stat_value` | 127-169, 499-506 | stats before and after the merge | refresh, merge, difference of stats | modelled (`ForceMerge`) |
| `test_search_with_stats`, `test_search` | 323-497 | `prev_totals`, `recall_values` | search loop, stats difference, recall | modelled (`SearchStats`) |
| `create_index`, `get_index_stats`, `get_knn_stats`, `print_jvector_search_stats`, `plot_merge_times` | various | none | one HTTP request, printing, or plotting | not modelled (I/O) |
| `main` | 557-663 | arguments | call order; k=10, l2, searches capped at the number of queries | only the cap on the number of searches (`SearchStats`); its other choices set the constants |

How the parts interact:

- `index_vectors` calls `update(str(doc_id), vector)` for doc ids 0, 1, 2, ...,
  in order. It does this before the batch is posted.
- An exception from `update` is not caught anywhere, so it ends the program.
- `test_search_with_stats` later reads `get_ground_truth(i)` for
  `i < num_searches`, where `main` has capped `num_searches` at Q.

Hard behaviours of the code:

- The heap at its capacity k.
- Ties at the k-th slot, broken by the string order of doc ids.
- The cosine zero-norm branch.
- numpy broadcasting of vectors of the wrong dimension.
- A ValueError raised halfway through the query loop. No code catches it, so
  the program ends and the half-updated heaps are never read.
- In the harness:
  - stats calls that fail and return `None`, which then count as 0;
  - the force-merge trigger arithmetic;
  - bulk responses that are accepted as a whole but reject individual items.

`PROJECT.json` lists the hazards, each at its line.

## Modules

### `Metric`: the distance computation (lines 258-273)

A vector is a sequence of integers. A distance is a *key*: an exact rational
`[num, den]` with `den > 0`, ordered exactly like the float the code computes.

- **l2:** the key is the squared norm of `q - v`. `sqrt` is monotone, so the order is the same.
- **cosine:** the key is `-sign(dot)·dot² / (|q|²|v|²)`. This is a strictly
  increasing function of `1 - cos`.
  - When a norm is zero, the code's `1.0` corresponds to `cos = 0`, which is key `0/1`.
  - `np.dot` is reached only when both norms are positive. It raises ValueError for unequal lengths.
- **Broadcasting:** `q - v` broadcasts when the lengths are equal or one of them is 1. Otherwise it raises ValueError.
- **Any other `space_type`:** raises ValueError (line 273).

Float rounding is abstracted away. The sums are a recursive *function*
(`SumTo`), not a RECURSIVE operator, so the proofs can use the module.

### `GroundTruthTracker`: the tracker (lines 226-282)

Constants:

- `QueryVectors`: a sequence of vectors.
- `K`: k, at least 1.
- `SpaceType`
- `Vectors`: the vectors a caller may pass.
- `MaxDocs`: the bound on the number of calls. At most 100, because the
  string order of ids is modelled for ids below 100.

Variables:

- `heaps[i]`: the *set* of tuples in `self.heaps[i]`. A tuple is
  `[dist |-> key, id |-> n]` for the Python tuple `(-dist, str(n))`.
- `raised`: `update` has raised, so the program has stopped.
- `seen[i]`: history variable. Every candidate `update` computed for query i.
- `stream`: history variable. The vectors passed so far; doc id n is `stream[n+1]`.

Operators:

- `EntryLess` is Python's tuple order on `(-dist, str(id))`.
  - `DocIdLess` is the order of decimal strings.
  - `Top(h)` is the least tuple, `heap[0]`.
- `Step(h, e)` is one iteration of the loop body (lines 275-282). It covers
  both `heappush` and `heapreplace`.
- `Update(v)` is the whole of `update`:
  - Every query reached before the first ValueError gets its `Step`.
  - The queries after it are untouched.
  - `raised` is set.
  - The doc id is the number of earlier calls, as `index_vectors` numbers them.
- `Next` lets the caller pass any vector of `Vectors`.

Properties:

- `TopKExact`: every heap holds the nearest min(n, k) of its n candidates.
  It covers the heap at capacity (lines 280-282): an evicted tuple is a
  candidate left out, so no tuple nearer than a kept one can be evicted.

There is no fairness: nothing obliges the harness to keep calling, and no
property here is about progress.

`MC_GroundTruthTracker` gives the constants:

- two 2-D queries: `<<0,0>>` and `<<1,1>>`, or for cosine `<<0,0>>` and `<<1,0>>`;
- a mix of vectors of dimensions 1, 2 and 3, which reaches the error paths;
- `K = 2` and `MaxDocs = 3`.

The set model's passing checks run in `index_tracked`, under its real caller,
and through the refinement in `heap_cosine`.

### `IndexVectors`: the indexing loop (lines 54-125)

`IndexVectors` EXTENDS `GroundTruthTracker` and composes the loop with it.

Variables:

- `batch` and `pos`: the two loop variables.
- `pc`: `"build"`, `"merge"`, `"done"` (returned) or `"exited"` (`sys.exit` or an
  uncaught ValueError).
- `sent`: the ids of every bulk body, in order.
- `indexed`: the ids OpenSearch accepted.
- `merged`: the batches after which a merge ran.

Actions:

- `AddDoc`: one inner iteration. With a tracker, it is `Update(v)` for any vector.
- `PostFailed`: a non-200 status, so the program exits.
- `PostOk`: status 200, with any subset of the batch accepted. The code never
  reads the per-item errors. Then the test of line 104, or the next batch.
- `Merge`: `force_merge` and the CSV row (their detail is in `ForceMerge`).

`IndexSpec` has no fairness. The loop makes progress only if every HTTP call
returns, and `requests.post` has no timeout. Termination is therefore not
checked: under fairness it would hold only by the shape of the loop, and
assuming that fairness would assume the hazard away. The missing timeout is
listed as a hazard with no property.

### `ForceMerge`: `force_merge` and `get_knn_stat_value` (127-169, 499-506)

The engine's cumulative `knn_graph_merge_time` is `counter`.

- Each stats call may fail. `get_knn_stat_value` then reads 0 (`StatValue`).
- The refresh and the merge request may fail. A failed merge returns `False`.
- `BackgroundMerge` is the engine merging on its own. The counter is node-wide.
- History variables record the counter at each read and the forced merge's
  cost, so the properties can compare the reported difference with the truth.

### `SearchStats`: the search loop (323-497, 302-321, 649-656)

The state is:

- the index size;
- the tracker's ground truth, as any set of min(n, k) ids per query, which is
  what `TopKExact` guarantees;
- the loop index;
- the engine's `knn_query_visited_nodes` counter;
- `prev_totals`, `initial_totals` and `recall_values`;
- the differences printed per iteration, and their true values.

Each search may fail, which skips its recall. Each stats call may fail, which
reads 0. `CalculateRecall` is the exact fraction `calculate_recall` computes.
`ActualNumSearches` is `main`'s cap.

Neither `ForceMerge` nor `SearchStats` has fairness. No property about them is
about progress.

### `HeapTracker`: the heap lists (lines 233-296)

`HeapTracker` has the tracker's state with each heap as the Python list
`arr[i]` it is. It writes out heapq's loops, which are the same in
`Lib/heapq.py` and in the C module `_heapq`, as RECURSIVE operators:

- `SiftDownLoop` is `_siftdown`, and `heappush` appends and then calls it.
- `SiftUpLoop` is `_siftup`, which moves the smaller child up to a leaf and then
  calls `_siftdown`. `heapreplace` overwrites `heap[0]` and then calls it.
- `HStep` is lines 277-282 on the list, comparing with `-heap[0][0]`, the root.
- `Tracker!GetGroundTruth` is `get_ground_truth` on the list. It is defined in
  `GroundTruthTracker` (`SortBefore`, `SortRank`, `SortedPos`) without
  recursion, so that it can be proved about.

It implements `GroundTruthTracker` through the refinement mapping
`Tracker == INSTANCE GroundTruthTracker WITH heaps <- [i |-> Range(arr[i])]`.
The run checks `Tracker!Spec` as a property, `TrackerRefined`.

- Every list step is then the abstract `Step` on its set, which is where the
  root must be the least tuple.
- So `TopKExact`, which `GroundTruthTrackerProofs` proves for the set model,
  holds for the lists too.

Because of the RECURSIVE operators, no theorem is stated in this module.

## Runs

| Run | Checks | Result and what it shows |
|---|---|---|
| `heap_cosine` | `GroundTruthSorted`, `TrackerRefined` | Passes (66430 states). Under cosine with a zero-norm query, k = 3 and 5 updates from the 9-point grid, the lists implement the set model, and `get_ground_truth` lists min(n, k) ids by non-decreasing true distance. With k = 3 the lists have right children, so both branches of `_siftup`'s child test run. |
| `heap_first_seen` | `GroundTruthFirstSeen` | Violation. Ids 0 and 1 are at distance 1, then id 2 is farther. `heappush` sifts id 2 to the root and id 0 to the end of the list, so `get_ground_truth` returns `[1, 0, 2]`. The spec (4.1, 8 and the scenario of 9) orders ties first-seen. The property also catches `heapreplace` evicting the first-seen tuple of a tie. |
| `tracker_dims` | `DimensionMismatchRejected` | Violation: `<<1>>` broadcasts against a 2-D query and gets an l2 distance. Spec 7 requires `DimensionMismatch`. |
| `index_tracked` | `TypeOK`, `BatchesCoverAll`, `TrackerSeesBuilt`, `MergeEveryMultiple`, `TopKExact` | Passes (76133 states). The tracker runs under l2, `main`'s metric, fed by its real caller. There are four vectors at distances 1, 1, 2 and 4, so a full heap of 2 can hold two distances that a new candidate beats. With 5 docs, batches of 2 and merges every 3, every heap keeps the exact k nearest through evictions, every id is sent once and in order, and the tracker sees exactly the docs built. A merge follows every batch that crosses a multiple. |
| `index_untracked` | `IndexTypeOK`, `BatchesCoverAll`, `MergeEveryMultiple` | Passes. 7 docs, batches of 3, frequency 2 (below the batch size). |
| `index_merge_extra` | `MergeOnlyAtMultiples` | Violation: after the last, partial batch (docs 4..5, frequency 4), `5 % 4 < 2` triggers a second merge with no multiple of 4 crossed. The help text of line 569 promises one per N documents. |
| `index_ground_truth` | `GroundTruthIndexed` | Violation: a 200 bulk response rejects an item. The tracker already holds it, so recall is measured against a document the index lacks. |
| `merge_ok` | `ReportCoversMerge` | Passes. When both stats reads succeed, the reported merge time is the counter's rise between them, at least the forced merge's cost, with background merges and failed requests. |
| `merge_stats_fail` | `MergeTimeReported` | Violation: a failed stats read counts as 0. In the trace the counter starts at 0 and the merge raises it to 1, then the final read fails: the reported time is 0 against a rise of 1. With other counters, a failed initial read reports the whole cumulative counter, and a failed final read reports minus the initial value. |
| `search_recall` | `QueryIndexInRange`, `RecallInRange`, `IterationDiffExactWhenRead` | Passes. With 3 searches asked and 2 queries, `main`'s cap keeps the loop within the tracker's queries. Recall is in [0, 1] even on an empty index. The printed difference is exact when both reads succeed. |
| `search_stats_fail` | `IterationDiffExact` | Violation: a failed stats read counts as empty totals, and the iteration still prints a difference (lines 418-436). In the trace the counters start at 0 and the search raises them to 1, then the read fails, so the failing iteration prints 0 against a rise of 1. The failed read also leaves `prev_totals` empty, so after a non-zero counter the next iteration would print the whole cumulative counter. |

Each property of a passing run has a mutant, a plausible slip in the code
that the property catches:

- `StepOffByOne`: `len(heap) <= k`.
- `UpdateIdOffByOne`: doc ids numbered from -1.
- `SmallerChildWrong`: `_siftup` moves the larger child up, so `heap[0]` is
  not the farthest tuple (caught by `TrackerRefined`).
- `GetGroundTruthUnsorted`: the list returned in heap order.
- `TotalBatchesFloor`: `num_vectors // batch_size`, dropping the last batch.
- `EndIdxNoMin`: `end_idx` without the `min`, sending ids past the end.
- `MergeDueExact`: merging only when `end_idx` is itself a multiple.
- `AddDocLastOnly`: `update` called once per batch.
- `FinalStatsEarly`: the final stats read before the merge.
- `ActualNumSearchesUncapped`, `CalculateRecallUnguarded`, `IterationStatsNoCarry`:
  `main` without the cap, `calculate_recall` without the empty guard, and
  `prev_totals` never replaced.

The MC bounds are chosen so that each case happens: a partial last batch, a
merge frequency above and below the batch size, an empty and a non-empty index,
more searches asked than queries, and every HTTP call both failing and succeeding.

## Proofs (`GroundTruthTrackerProofs`)

The proofs check with `tlapm` and hold for every value of the constants that
satisfies the module's assumptions:

- `QueryVectors` is a sequence of integer vectors.
- `K` is at least 1.
- `MaxDocs` is at most 100.
- `DistanceAssumption`: every distance is a key or ValueError.
  - TLC evaluates it on every run.
  - It stands in for the arithmetic fact that the sums are integers and the
    cosine denominator is positive when both norms are. Proving that fact
    needs induction over `SumTo`, which is out of the provers' reach.

Order lemmas:

- `DistLess` is a strict order that is compatible with `DistEq`. These facts
  are nonlinear, and Z3 proves them.
- `EntryLess` is irreflexive and transitive.

Heap lemmas:

- `HasMins(h)`: every non-empty subset of `h` has an `EntryLess`-minimal
  element. This is what makes `heap[0]` exist. It is preserved by adding a
  tuple, using only irreflexivity and transitivity. So no induction over
  finite sets is needed.
- `TopIsFarthest`: `Top(h)` is a tuple of `h` at the largest distance.
- `StepKeepsNearest`: one loop iteration keeps `KeptNearest` when the new
  candidate is fresh.

Theorems:

- **`TypeCorrect`**: `Spec => []TypeOK`.
- **`TopKExactHolds`**: `Spec => []TopKExact`.
  - `TopKExact` is not inductive by itself. The inductive invariant `IInv` adds:
    - every `seen[i]` is finite;
    - every heap has `HasMins`;
    - every candidate's id is below `Len(stream)`.
  - The last conjunct makes the new doc id fresh, which `StepKeepsNearest` needs.
  - This freshness is where the proof relies on the caller, `index_vectors`,
    numbering documents 0, 1, 2, ... (line 80).

## Proofs (`IndexVectorsProofs`)

These hold for every `num_vectors`, every `batch_size >= 1` and every merge
frequency (`IndexAssumption`), together with the tracker's assumptions.

Arithmetic lemmas, for the round-up of line 63 and the `min` of line 75:

- `TotalBatchesBounds`: `(T-1)*bs < n <= T*bs` for `T = total_batches`.
- `NextStart`: a batch that is not the last ends where the next one starts.
- `LastEnd`: the last batch ends at `n`.
- `StartBeforeEnd`: no batch is empty.

`BatchContinues` states that `Iota(start) \o body = Iota(end)`, where
`Iota(m)` is `<<0, ..., m-1>>`. It is proved from `ConcatProperties` and
`SeqEqual` of `SequenceTheorems`.

Theorems:

- **`IndexImplementsTracker`**: `IndexSpec => Spec`. The loop refines the
  tracker's specification: `IndexInit` implies `Init`, and every loop step is
  an `update` step or leaves the tracker's variables alone
  (`IndexStepIsTrackerStep`).
- **`IndexTypeCorrect`**: `IndexSpec => []IndexTypeOK`. `IndexTypeOK` is
  inductive together with `BInv`, which supplies `batch < total_batches`
  in the build and merge states. `BatchInRange` shows that a batch's ids lie
  below `num_vectors` and number at most `batch_size`. `SentStaysInRange`
  shows that appending a batch keeps the bodies inside `0 .. n - 1`.
- **`IndexTopKExact`**: `IndexSpec => []TopKExact`. Every step of the loop is
  an `update` call or leaves the tracker alone (`IndexStepIsTrackerStep`), so
  the tracker's inductive invariant `IInv` carries over to the composition.
- **`BatchesCoverAllHolds`**: `IndexSpec => []BatchesCoverAll`.
- **`TrackerSeesBuiltHolds`**: `IndexSpec => []TrackerSeesBuilt`.
- **`MergeEveryMultipleHolds`**: `IndexSpec => []MergeEveryMultiple`. The
  invariant `MInv` says that every finished batch that passed the test of
  line 104 is in `merged`. `CrossingIsDue` shows that this test catches every
  crossing of a multiple: if `(start, end]` holds a multiple `m` of `f` and
  `end - start <= batch_size`, then `end % f <= end - m < batch_size`.

The last two rest on the inductive invariant `BInv`:

- While batch b is built, the bodies sent are `Iota(start_idx)`, `i <= end - start`,
  and the tracker has seen `start_idx + i` documents.
- After the post, when the merge is due, they are `Iota(end_idx)`, with
  `end_idx` documents seen.
- After the return, they are `Iota(num_vectors)`.

Neither property is inductive alone. The step into the next batch needs the
state of the merge branch, and `NextStart`/`LastEnd` need `batch < total_batches`.
TLC checked `BInv` as an invariant of the three index instances before it was proved.

## Proofs (`ForceMergeProofs`)

**`ReportCoversMergeHolds`**: `FMSpec => []ReportCoversMerge`, for every set
of start counters, every set of positive merge costs and every bound
(`MergeAssumption`).

`ReportCoversMerge` constrains only the state after the final stats read. It
is carried there by the inductive invariant `FInv`:

- a successful initial read saw the counter at `atInitial`;
- the counter never decreases (background merges only add to it);
- before the merge, `cost = 0`;
- from the merge on, `atInitial + cost <= counter`;
- after the return, `atInitial + cost <= atFinal`, and when both reads
  succeeded, `graph_merge_diff = atFinal - initial`.

TLC checked `FInv` on the `merge_ok` instance before it was proved.

## Proofs (`SearchStatsProofs`)

These hold for every constant that satisfies `SearchAssumption`:

- **`QueryIndexInRangeHolds`**: `SSpec => []QueryIndexInRange`;
- **`RecallInRangeHolds`**: `SSpec => []RecallInRange`;
- **`IterationDiffExactWhenReadHolds`**: `SSpec => []IterationDiffExactWhenRead`.

All three rest on the inductive invariant `SInv`:

- while the loop runs, `i < actual_num_searches`, and with a tracker that is
  at most the number of queries (`CapBelowQueries`);
- when the call that filled `prev_totals` succeeded, `prev_totals` is the
  counter at that call (`atPrev`);
- the histories `diffs`, `trueDiffs` and `readsOk` have equal lengths;
- the ground truth is a set of ids of the index.

`RecallFraction` shows that `calculate_recall` of two sets of ids is a
fraction in [0, 1]. It uses `FS_Interval`, `FS_Subset`, `FS_CardinalityType`
and `FS_EmptySet` of `FiniteSetTheorems`. TLC checked `SInv` on the
`search_recall` instance (6968 states) before it was proved.

Only model-checked:

- the properties of the violation runs;
- everything about float rounding, which is not modelled at all.

Out of reach of the prover:

- liveness and `ENABLED`;
- induction over data, such as what `SumTo` computes;
- RECURSIVE operators. `HeapTracker` uses them, so it stays with TLC.

## Proofs (`GroundTruthSortProofs`)

`GetGroundTruth(h)` models the stable `sorted(heap, key=lambda x: -x[0])` of
lines 295-296. Position `p` of the list sorts before `q` (`SortBefore`) when
its distance is smaller, or equal and `p < q`, which is how a stable sort
treats ties. The rank of `q` (`SortRank`) is the number of positions that sort
before it. Place `r` of the result holds the position of rank `r - 1`
(`SortedPos`).

**`GetGroundTruthStableSort`** holds for every heap list `h` of any length,
with any ties. `SortPerm(h)` is a bijection of `1..Len(h)`.
`GetGroundTruth(h)` lists the ids of `h` in that order. Each place sorts
before every later place.

The proof goes as follows:

- `SortBefore` is a strict total order (`SortBeforeIrrefl`, `SortBeforeTrans`,
  `SortBeforeTotal`). These lemmas use the `DistLess` and `DistEq` lemmas of
  `GroundTruthTrackerProofs`.
- A rank lies in `0..Len(h)-1` (`RankRange`). It grows along the order
  (`RankMonotone`, by `FS_AddElement` and `FS_Subset`). So distinct positions
  have distinct ranks (`RankInjective`).
- The rank map is thus an injection of `1..n` into `0..n-1`. Both sets have n
  elements, so by `FS_Injection` the map is onto, and the `CHOOSE` of
  `SortedPos` always finds its position (`SortedPosRank`).

`GroundTruthSorted` of `HeapTracker` has two halves:

- The ordering half is this theorem applied to the list `arr[i]`.
- The length `min(n, k)`, and the fact that each stored key is the true
  distance, depend on what the lists hold. That rests on the refinement
  `TrackerRefined`, which is only model-checked (run `heap_cosine`), because
  `HeapTracker`'s sift loops are RECURSIVE.

## Not modelled

- The HTTP calls themselves, CSV and plot output, and argument parsing.
- Float rounding.
- Concurrency: the program is single-threaded and makes synchronous
  requests, so there is nothing to interleave.
