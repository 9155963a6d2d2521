--------------------------- MODULE MCCanController ---------------------------
(* Instances of CanController for TLC. *)
EXTENDS CanController

CONSTANT ack

OneError == {ack}
==============================================================================
