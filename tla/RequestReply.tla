---------------------------- MODULE RequestReply ----------------------------
(***************************************************************************)
(* What request() promises its callers: every request is settled, with a   *)
(* value or with an error, exactly once; only the end of the process takes *)
(* the answer away.  The answer is due whatever the handler does.          *)
(***************************************************************************)
CONSTANT Requests

VARIABLE outcome

Settled == {"value", "error"}

Init == outcome = [r \in Requests |-> "idle"]

(* A request nobody serves is settled as soon as it is made. *)
Ask(r) ==
  /\ outcome[r] = "idle"
  /\ \E o \in Settled \cup {"waiting"} : outcome' = [outcome EXCEPT ![r] = o]

Settle(r) ==
  /\ outcome[r] = "waiting"
  /\ \E o \in Settled : outcome' = [outcome EXCEPT ![r] = o]

(* The process goes away, and the callers with it. *)
Drop == outcome' = [r \in Requests |->
                      IF outcome[r] = "waiting" THEN "dropped" ELSE outcome[r]]

Next == Drop \/ \E r \in Requests : Ask(r) \/ Settle(r)

Spec == Init /\ [][Next]_outcome /\ \A r \in Requests : WF_outcome(Settle(r))
=============================================================================
