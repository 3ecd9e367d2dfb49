---------------------------- MODULE MCExecution ----------------------------
(* Instances of ExecutionCore for TLC: driven through an adapter session, or *)
(* by every command of the reducer directly, where there is no session.      *)
EXTENDS PaperAdapter

Trade(targets, size) ==
  [tradeable |-> TRUE, scored |-> TRUE, entry |-> TRUE, stop |-> TRUE,
   targets |-> targets, size |-> size]

\* Submittable with one and three targets, without a size and with size zero; and one
\* plan each that a gate blocks.
SmallIntents ==
  {Trade(1, 2), Trade(3, 4), Trade(1, NoSize), Trade(1, 0), Trade(0, 2),
   [Trade(1, 2) EXCEPT !.tradeable = FALSE], [Trade(1, 2) EXCEPT !.stop = FALSE]}

session == <<kind, health, submitted, events, base>>
Direct  == "DIRECT"

MCInit == \/ Init
          \/ CoreInit /\ kind = Direct /\ health = "UNAVAILABLE"
             /\ submitted = FALSE /\ events = <<>> /\ base = 0

MCNext == \/ kind \in Kinds /\ Next
          \/ kind = Direct /\ CoreNext /\ UNCHANGED session

MCSpec == MCInit /\ [][MCNext]_vars
=============================================================================
