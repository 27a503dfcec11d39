------------------------- MODULE MCExternalDispatch -------------------------
(* Small instances of ExternalDispatch for TLC.                            *)
EXTENDS ExternalDispatch, TLC

(* Which slot a task gets is of no consequence.                            *)
SlotSymmetry == Permutations(Slots)
=============================================================================
