--------------------------- MODULE MCEagerReservoir ---------------------------
(* Bounds for TLC: a reservoir of three records, a stream of seven. *)
EXTENDS EagerReservoir

MCSteps == 0 .. 3
MCRoundingError == {0}
=============================================================================
