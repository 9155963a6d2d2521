----------------------------- MODULE MCHalQueue -----------------------------
(* Instances of HalQueue for TLC. *)
EXTENDS HalQueue, TLC

CONSTANTS u1, u2, v1, v2

\* Two storage units per element: a torn copy mixes the units of two elements.
TwoUnits == {u1, u2}
PlainElements == {[u \in TwoUnits |-> v] : v \in {v1, v2}}

\* Control alone: the contents do not matter to whether a call returns.
OneUnit == {u1}
OneValue == {v1}
OneElement == [OneUnit -> OneValue]

Values == {v1, v2}
ValueSymmetry == Permutations(Values)
=============================================================================
