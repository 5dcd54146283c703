------------------------- MODULE PairStoreRefinement -------------------------
(***************************************************************************)
(* PairStore implements PairLedger when the traffic is what a reader of    *)
(* the whole history computes from the committed tables through the        *)
(* rollup, not what node_pairs holds: rollups, late writes behind the      *)
(* mark, the hour retention splits, rollbacks and crashes are all          *)
(* invisible, and each write appears whole at its commit.                  *)
(***************************************************************************)
EXTENDS PairStore

CONSTANT Horizon    \* end of the window of a reader of the whole history

ASSUME HorizonAssumption == Horizon \in Nat /\ \A m \in Buckets : m < Horizon

TrafficRead == RowsOf(planHoursThroughMark(0, Horizon, db.mark), db)

Ledger == INSTANCE PairLedger WITH
    traffic <- TrafficRead,
    cursor  <- db.cursor,
    counted <- db.ingested

\* The write side with its rollups behaves like the ledger: no interleaving
\* of commits, chunked rollups, retention, failures and restarts loses,
\* doubles or tears traffic in what readers compute.
ImplementsLedger == Ledger!Spec
==============================================================================
