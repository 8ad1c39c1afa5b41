------------------------------- MODULE Metric -------------------------------
(***************************************************************************)
(* The distance computation of GroundTruthTracker.update                   *)
(* (src/scripts/create_and_test_large_index.py, lines 258-273), with the   *)
(* numpy semantics it relies on.                                           *)
(*                                                                         *)
(* A vector is a sequence of integers (a 1-D numpy array).  A distance is  *)
(* represented by a key, an exact rational [num, den] with den > 0, that   *)
(* is ordered exactly as the float the code computes:                      *)
(*   l2:     norm(q - v) = sqrt(s), s the sum of squares; key s/1.         *)
(*   cosine: 1 - dot/(|q| |v|); key -sign(dot) * dot^2 / (|q|^2 |v|^2),   *)
(*           a strictly increasing function of 1 - cos; a zero norm gives  *)
(*           1.0, i.e. cos = 0, i.e. key 0/1.                              *)
(* Float rounding is abstracted: keys compare as the exact reals would.    *)
(* A computation that raises ValueError (unsupported space type, shapes    *)
(* numpy cannot broadcast, np.dot of unequal lengths) yields ValueError.   *)
(***************************************************************************)
EXTENDS Integers, Sequences

Key == [num : Int, den : Nat \ {0}]

\* The outcome of a distance computation that raises ValueError.
ValueError == [error |-> "ValueError"]

\* The float comparisons dist < d and dist == d of the code, on keys.
DistLess(a, b) == a.num * b.den < b.num * a.den
DistEq(a, b) == a.num * b.den = b.num * a.den

\* Sum over j \in 1..n of f[j], written as a recursive function.
SumTo(n, f) ==
  LET s[j \in 0..n] == IF j = 0 THEN 0 ELSE s[j - 1] + f[j]
  IN  s[n]

\* np.dot(a, b) and the squared np.linalg.norm(a) of 1-D arrays.
Dot(a, b) == SumTo(Len(a), [j \in 1..Len(a) |-> a[j] * b[j]])
SqNorm(a) == Dot(a, a)

\* numpy broadcasting of two 1-D arrays for the elementwise a - b.
CanBroadcast(a, b) == Len(a) = Len(b) \/ Len(a) = 1 \/ Len(b) = 1
BroadcastLen(a, b) == IF Len(a) = 1 THEN Len(b) ELSE Len(a)
Elem(a, j) == IF Len(a) = 1 THEN a[1] ELSE a[j]

\* dist = np.linalg.norm(query_vector - vector_np)   (line 263)
L2Distance(q, v) ==
  IF CanBroadcast(q, v)
  THEN [num |-> SumTo(BroadcastLen(q, v),
                      [j \in 1..BroadcastLen(q, v) |->
                         (Elem(q, j) - Elem(v, j)) * (Elem(q, j) - Elem(v, j))]),
        den |-> 1]
  ELSE ValueError

Sign(x) == IF x > 0 THEN 1 ELSE IF x < 0 THEN -1 ELSE 0

\* The cosine branch (lines 265-271): both norms are computed first; only
\* when both are positive is np.dot called, which needs equal lengths.
CosineDistance(q, v) ==
  IF SqNorm(q) > 0 /\ SqNorm(v) > 0
  THEN IF Len(q) = Len(v)
       THEN [num |-> -(Sign(Dot(q, v)) * Dot(q, v) * Dot(q, v)),
             den |-> SqNorm(q) * SqNorm(v)]
       ELSE ValueError
  ELSE [num |-> 0, den |-> 1]

\* The distance of vector v to query q under space_type (lines 262-273).
Distance(space, q, v) ==
  CASE space = "l2"     -> L2Distance(q, v)
    [] space = "cosine" -> CosineDistance(q, v)
    [] OTHER            -> ValueError
=============================================================================
