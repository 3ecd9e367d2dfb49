---------------------------- MODULE SignalLedger ----------------------------
(***************************************************************************)
(* What the EngineSignal table promises its readers (replay, the web       *)
(* read models): a row is the verdict of the frozen rule on some content   *)
(* its snapshot has really had, under the strategy version it names.       *)
(* Snapshots are revised in place, so a row may be of a past content, but  *)
(* it is always one generation, never a mixture, and rows are not deleted. *)
(***************************************************************************)
CONSTANTS
  SnapshotIds, Versions, NoSignal,
  Generations   \* <<snapshot, content, version, signal>>: what the rule generates

VARIABLES
  held,         \* every <<snapshot, content>> the feature store has held
  table         \* the table, by snapshot and strategy version

Lawful(id, v, g) == \E p \in held : p[1] = id /\ <<id, p[2], v, g>> \in Generations

\* The feature store is older than the table.
LedgerInit == table = [id \in SnapshotIds |-> [v \in Versions |-> NoSignal]]

Revise == held \subseteq held' /\ UNCHANGED table

Record(id, v) ==
  /\ Lawful(id, v, table'[id][v])
  /\ table' = [i \in SnapshotIds |-> [w \in Versions |->
                IF i = id /\ w = v THEN table'[id][v] ELSE table[i][w]]]
  /\ UNCHANGED held

LedgerNext == Revise \/ \E id \in SnapshotIds, v \in Versions : Record(id, v)

LedgerSpec == LedgerInit /\ [][LedgerNext]_<<held, table>>
=============================================================================
