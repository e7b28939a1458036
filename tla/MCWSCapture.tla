---------------------------- MODULE MCWSCapture ----------------------------
(***************************************************************************)
(* Instances of WSCapture.  With a cap of two bytes the first delta of a   *)
(* response, a character of one byte and a character of two, is cut after  *)
(* its first byte, and the second delta, of one byte, fills the rest.      *)
(***************************************************************************)
EXTENDS WSCapture

MCDeltaLen == [i \in 1..MaxParts |-> IF i = 1 THEN 3 ELSE 1]
MCCharEnds == [i \in 1..MaxParts |-> IF i = 1 THEN {0, 1, 3} ELSE {0, 1}]
=============================================================================
