------------------------------ MODULE MCCRDTs ------------------------------
(* Small instances of the replicated store for TLC. *)
EXTENDS CRDTStore

CONSTANT e1

TwoNodes == 1 .. 2
OneElement == {e1}
TwoTimes == 1 .. 2
TwoAndOne == <<2, 1>>
=============================================================================
