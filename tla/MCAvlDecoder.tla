---------------------------- MODULE MCAvlDecoder ----------------------------
(* The decoder on every frame whose fields take a few values each.         *)
EXTENDS AvlDecoder

(* A 15-digit IMEI in the 16 digits of eight bytes.                        *)
SomeImeis == {[zeros |-> 1, digits |-> 15]}
=============================================================================
