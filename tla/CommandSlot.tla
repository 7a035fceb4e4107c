---------------------------- MODULE CommandSlot ----------------------------
(***************************************************************************)
(* What /cmd promises: a tracker carries one command at a time; whoever    *)
(* holds the tracker gets exactly one verdict, while holding it, and then  *)
(* lets go for good.                                                       *)
(***************************************************************************)
EXTENDS Fleet

VARIABLES
  holder,   (* [Imeis -> ReqOrNone], the command a tracker is busy with    *)
  verdict,  (* [Requests -> Verdict], what became of the command           *)
  over      (* SUBSET Requests, commands that held a tracker and let go    *)

slotVars == <<holder, verdict, over>>

Verdict == {"none", "rejected", "message", "disconnected", "timeout"}

Init ==
  /\ holder = [i \in Imeis |-> NoReq]
  /\ verdict = [r \in Requests |-> "none"]
  /\ over = {}

Grant(r, i) ==
  /\ holder[i] = NoReq
  /\ verdict[r] = "none"
  /\ \A j \in Imeis : holder[j] # r
  /\ holder' = [holder EXCEPT ![i] = r]
  /\ UNCHANGED <<verdict, over>>

Decide(r, i) == \E v \in Verdict \ {"none"} :
  /\ holder[i] = r
  /\ verdict[r] = "none"
  /\ verdict' = [verdict EXCEPT ![r] = v]
  /\ UNCHANGED <<holder, over>>

LetGo(r, i) ==
  /\ holder[i] = r
  /\ verdict[r] # "none"
  /\ holder' = [holder EXCEPT ![i] = NoReq]
  /\ over' = over \cup {r}
  /\ UNCHANGED verdict

Next == \E r \in Requests : \E i \in Imeis : Grant(r, i) \/ Decide(r, i) \/ LetGo(r, i)

Spec == Init /\ [][Next]_slotVars
=============================================================================
