---------------------------- MODULE MCConnector ----------------------------
(* Connector on small instances.  Connections of a group are interchangeable; *)
(* liveness is checked without the symmetry.                                  *)
EXTENDS Connector, TLC

Symmetry == Permutations(MasterHelper)
=============================================================================
