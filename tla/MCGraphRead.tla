----------------------------- MODULE MCGraphRead -----------------------------
(* A small instance of GraphRead: a closed hour, the hour that is filling   *)
(* and a minute after the mark.  One reader meets three commits with every  *)
(* kind of span.                                                            *)
EXTENDS GraphRead

MCBuckets == {60, 3600, 3660}

Only(S) == [m \in Buckets |-> IF m \in S THEN 1 ELSE 0]

\* A whole window, and one that starts inside the closed hour.
MCWindows == {<<0, 7200>>, <<30, 7200>>}

MCInitialRows == {Only({60, 3600})}
\* Nothing rolled yet, the first hour, the first hour and one minute.
MCInitialMarks == {NoMark, 3540, 3600}

\* A late write into the closed hour, and a live one after the mark.
MCDeltas == {Only({60}), Only({60, 3660})}
MCEnds == {3720, 7200}
\* Splits the closed hour after its only minute.
MCCutoffs == {61}
==============================================================================
