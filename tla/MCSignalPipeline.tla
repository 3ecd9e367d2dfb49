--------------------------- MODULE MCSignalPipeline ---------------------------
(* Instances of SignalPipeline for TLC. *)
EXTENDS SignalPipeline

Vector(e20, e50, e200, rsi, vol) ==
  [ema20 |-> e20, ema50 |-> e50, ema200 |-> e200, rsi |-> rsi, vol |-> vol]
Report(id, passed) == [id |-> id, dataset |-> id, passed |-> passed]

\* An uptrend, a downtrend too volatile to trade, a vector with a hole, a report that
\* failed, and a row from before the gates.
SmallContents ==
  {[features |-> Vector(30, 20, 10, 60, 1), dq |-> Report(1, TRUE)],
   [features |-> Vector(10, 20, 30, 40, 3), dq |-> Report(2, TRUE)],
   [features |-> Corrupt,                   dq |-> Report(1, TRUE)],
   [features |-> Vector(30, 20, 10, 60, 1), dq |-> Report(3, FALSE)],
   [features |-> NotObject,                 dq |-> Report(1, TRUE)]}

\* The defaults, a stricter version, and parameters that are no object.
SmallVersions ==
  {[id |-> "s1", parameters |-> [rsiLongMin |-> 70]],
   [id |-> "core-technical@v2", parameters |-> <<>>],
   [id |-> "s3", parameters |-> NotObject]}
=============================================================================
