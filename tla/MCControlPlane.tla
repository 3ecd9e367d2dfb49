--------------------------- MODULE MCControlPlane ---------------------------
(* Instances of ControlPlane for TLC. *)
EXTENDS ControlPlane

FaultyInfra   == [c \in Infra |-> {"healthy", "degraded", "failing"}]
ReliableDb    == [c \in Infra |-> IF c = "database" THEN {"healthy"}
                                  ELSE {"healthy", "failing"}]
=============================================================================
