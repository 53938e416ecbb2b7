------------------------------ MODULE MCSerial ------------------------------
(***************************************************************************)
(* The loop of MCLoop, for flows that meet the premises of SerialInv.      *)
(***************************************************************************)
EXTENDS MCLoop

ASSUME PremiseAssumption == OrderedForks /\ ErrorsStop
=============================================================================
