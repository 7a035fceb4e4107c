--------------------------- MODULE MCStreamReader ---------------------------
(* Every conversation of up to three units.                                *)
EXTENDS StreamReader

ShortConversations == UNION {[1..n -> UnitKinds] : n \in 0..3}
=============================================================================
