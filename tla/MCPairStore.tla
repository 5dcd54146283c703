----------------------------- MODULE MCPairStore -----------------------------
(* Small instances of PairStore: two hours, the first and last minute of    *)
(* each.                                                                    *)
EXTENDS PairStoreRefinement

MCBuckets == {0, 3540, 3600, 7140}

Only(S) == [m \in Buckets |-> IF m \in S THEN 1 ELSE 0]

\* One minute on an hour's boundary, and both ends of the first hour together
\* with the last minute of the second.
MCDeltas == {Only(S) : S \in {{3600}, {0, 3540, 7140}}}
MCObjects == [k \in Keys |-> Only({3540, 7140})]
MCLegacy == {Only({}), Only({0, 3540, 3600})}

\* With a retention of 3600 seconds: a cutoff behind the first rows, one at an
\* hour boundary, and one that splits the second hour.
MCTimes == {3700, 7200, 7260}

\* Hour boundaries, minute boundaries and seconds that are neither.
MCEdges == {0, 30, 3540, 3600, 3660, 7140, 7200, 7300}
==============================================================================
