---------------------------- MODULE AvlDelivery ----------------------------
(***************************************************************************)
(* What the example servers promise of AVL data, abstractly: data that was *)
(* acknowledged, and that the tracker may therefore forget, is owed to the *)
(* output hook, and is reported to it once or is lost.  Nothing is         *)
(* reported that was not acknowledged.  Reports have no order, and data    *)
(* that is acknowledged twice may be reported twice.                       *)
(***************************************************************************)
EXTENDS Naturals

CONSTANT Frames  (* the AVL packets trackers send                          *)

VARIABLES
  acked,     (* [Frames -> Nat], acknowledgements that were sent           *)
  owed,      (* [Frames -> Nat], acknowledged and not yet handed on        *)
  reported   (* [Frames -> Nat], reports of it that reached the hook       *)

deliveryVars == <<acked, owed, reported>>

Init ==
  /\ acked = [f \in Frames |-> 0]
  /\ owed = [f \in Frames |-> 0]
  /\ reported = [f \in Frames |-> 0]

Acknowledge(f) ==
  /\ acked' = [acked EXCEPT ![f] = @ + 1]
  /\ owed' = [owed EXCEPT ![f] = @ + 1]
  /\ UNCHANGED reported

Settle(f) ==
  /\ owed[f] > 0
  /\ owed' = [owed EXCEPT ![f] = @ - 1]
  /\ UNCHANGED acked

Report(f) == Settle(f) /\ reported' = [reported EXCEPT ![f] = @ + 1]

Lose(f) == Settle(f) /\ UNCHANGED reported

Next == \E f \in Frames : Acknowledge(f) \/ Report(f) \/ Lose(f)

Spec == Init /\ [][Next]_deliveryVars
=============================================================================
